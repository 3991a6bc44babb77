------------------------- MODULE ValueReadingProofs -------------------------
(***************************************************************************)
(* Numbers, texts, bytes, identifiers and documents are read as what was   *)
(* written; what is written by a type can be read by it; and two types     *)
(* that read a row agree on it, whoever wrote it.                          *)
(***************************************************************************)
EXTENDS ValueTripProofs

-----------------------------------------------------------------------------
(* Contents on their way to the column.                                    *)

LEMMA ContentValue ==
  ASSUME NEW T \in ContentType, NEW v \in Values(T)
  PROVE  \/ \E n \in Whole, f \in 0..4 : v = Plain("number", n, f)
         \/ \E form \in TextOnly \cup {"blob"} : v = Plain(form, 0, 0)
<1>1. \A precision \in 0..4 : \A w \in Numbers(precision) :
        \E n \in Whole, f \in 0..4 : w = Plain("number", n, f)
  BY DEF Numbers
<1>2. CASE T \in NumberType
  <2>1. Values(T) = Numbers(Precision[T])
    BY <1>2 DEF Values, NumberType
  <2>2. Precision[T] \in 0..4
    BY <1>2 DEF Precision, NumberType
  <2> QED
    BY <1>1, <2>1, <2>2
<1>3. CASE T = "text"
  <2>1. Values(T) = {Plain(form, 0, 0) : form \in TextOnly}
    BY <1>3 DEF Values, NumberType
  <2> QED
    BY <2>1
<1>4. CASE T = "bytes"
  <2>1. Values(T) = {Plain("blob", 0, 0)}
    BY <1>4 DEF Values, NumberType
  <2> QED
    BY <2>1
<1>5. CASE T = "Uuid"
  <2>1. Values(T) = {Plain("uuid", 0, 0)}
    BY <1>5 DEF Values, NumberType
  <2> QED
    BY <2>1 DEF TextOnly
<1>6. CASE T = "Json"
  <2>1. Values(T) = {Plain("json", 0, 0)} \cup Numbers(2)
    BY <1>6 DEF Values, NumberType
  <2> QED
    BY <1>1, <2>1 DEF TextOnly
<1>7. CASE T = "Any"
  <2>1. Values(T) = {Plain(form, 0, 0) : form \in TextOnly \cup {"blob"}} \cup Numbers(2)
    BY <1>7 DEF Values, NumberType
  <2>2. CASE v \in Numbers(2)
    BY <1>1, <2>2
  <2>3. CASE v \in {Plain(form, 0, 0) : form \in TextOnly \cup {"blob"}}
    BY <2>3
  <2> QED
    BY <2>1, <2>2, <2>3
<1> QED
  BY <1>2, <1>3, <1>4, <1>5, <1>6, <1>7 DEF ContentType

\* Every content is bound as what it is.
LEMMA ContentEncoded ==
  ASSUME NEW T \in ContentType, NEW v
  PROVE  EncodeContent(T, v).content = v
<1>1. EncodeBasic(T, v).content = v
  BY DEF EncodeBasic, Argument
<1>2. EncodeSpelling(v).content = v
  BY DEF EncodeSpelling, Argument
<1>3. EncodeAny(v).content = v
  BY DEF EncodeAny, Argument
<1> QED
  BY <1>1, <1>2, <1>3 DEF EncodeContent

\* A number column rounds it; another one keeps it or refuses it.
LEMMA ContentStored ==
  ASSUME NEW col \in Column, NEW p, NEW c \in Stored(p, col),
         p.content.form \notin {"datetime", "time", "offset"}
  PROVE  c = IF col \in NumberKind THEN Rounded(p.content, Precision[col]) ELSE p.content
<1>1. CASE col \in NumberKind
  <2>1. Stored(p, col) = {Rounded(p.content, Precision[col])}
    BY <1>1 DEF Stored, NumberKind
  <2> QED
    BY <1>1, <2>1
<1>2. CASE col \notin NumberKind
  <2>1. Stored(p, col) = {p.content}
    BY <1>2 DEF Stored
  <2> QED
    BY <1>2, <2>1
<1> QED
  BY <1>1, <1>2

LEMMA RoundedPlain ==
  ASSUME NEW form, NEW at, NEW frac, NEW precision
  PROVE  Rounded(Plain(form, at, frac), precision) = Plain(form, at, Smaller(frac, precision))
<1>1. Plain(form, at, frac).frac = frac
  BY DEF Plain, Content
<1>2. ASSUME NEW small, NEW pad
      PROVE  [Content(form, at, frac, 0, pad) EXCEPT !.frac = small] =
               Content(form, at, small, 0, pad)
  BY DEF Content
<1>3. \A small : [Plain(form, at, frac) EXCEPT !.frac = small] = Plain(form, at, small)
  BY <1>2, Zenon DEF Plain
<1> QED
  BY <1>1, <1>3 DEF Rounded

LEMMA PlainFields ==
  ASSUME NEW form, NEW at, NEW frac
  PROVE  /\ Plain(form, at, frac).form = form /\ Plain(form, at, frac).at = at
         /\ Plain(form, at, frac).frac = frac
BY DEF Plain, Content

\* What ReadFacts says of a row in which a content was written.
LEMMA ContentRow ==
  ASSUME TripInv, wrote.type \in ContentType, NEW types, NEW r \in Readings(types)
  PROVE  /\ r.type \in types /\ Decode(r.type).ok /\ r.value = Decode(r.type).value
         /\ row.kind \in Accepts(r.type) /\ (r.type = "Any" => cell.col \in AnyColumn)
         /\ cell.col \in Column /\ cell.content \in Holds(cell.col)
         /\ row.kind = IF cell.col \in {"Numeric", "Varchar"} THEN "Text" ELSE cell.col
         /\ row.content = cell.content
         /\ row.content = IF cell.col \in NumberKind
                          THEN Rounded(wrote.value, Precision[cell.col])
                          ELSE wrote.value
         /\ \/ \E n \in Whole, f \in 0..4 : wrote.value = Plain("number", n, f)
            \/ \E form \in TextOnly \cup {"blob"} :
                 wrote.value = Plain(form, 0, 0)
<1>1. wrote # NoWrite /\ wrote.type \notin TemporalType
  BY DEF NoWrite, ContentType, NumberType, TemporalType, DateType, TimeType, LocalType, ZonedType
<1>2. wrote.value \in Values(wrote.type)
  BY <1>1 DEF TripInv
<1>3. /\ r.type \in types /\ Decode(r.type).ok /\ r.value = Decode(r.type).value
      /\ row.kind \in Accepts(r.type) /\ (r.type = "Any" => cell.col \in AnyColumn)
      /\ cell.col \in Column /\ cell.content \in Holds(cell.col)
      /\ cell.content \in Stored(Encoded, cell.col)
      /\ row.content = cell.content
      /\ row.kind = IF cell.col \in {"Numeric", "Varchar"} THEN "Text" ELSE cell.col
  BY <1>1, ReadFacts
<1>4. Encoded.content = wrote.value
  BY <1>1, ContentEncoded DEF Encoded
<1>5. \/ \E n \in Whole, f \in 0..4 : wrote.value = Plain("number", n, f)
      \/ \E form \in TextOnly \cup {"blob"} : wrote.value = Plain(form, 0, 0)
  BY <1>2, ContentValue
<1>6. wrote.value.form \notin {"datetime", "time", "offset"}
  BY <1>5, PlainFields DEF TextOnly
<1>7. cell.content = IF cell.col \in NumberKind
                     THEN Rounded(wrote.value, Precision[cell.col]) ELSE wrote.value
  BY <1>3, <1>4, <1>6, ContentStored
<1> QED
  BY <1>3, <1>5, <1>7

-----------------------------------------------------------------------------
(* Texts, bytes, identifiers and documents.                                *)

\* Decode gives the content that Encode was given, but for the identifiers made
\* of any 16 bytes.
THEOREM ContentSafe == Spec => []ContentIsRead
<1>1. TripInv => ContentIsRead
  <2> SUFFICES ASSUME TripInv, wrote.type \in ContentType,
                      NEW r \in Readings({"text", "bytes", "Uuid", "Json", "Any"}),
                      ~(r.type = "Uuid" /\ row.sixteen),
                      ~(r.type # "Uuid" /\ wrote.value.form = "number")
               PROVE  r.value = wrote.value
    BY DEF ContentIsRead
  <2>1. /\ r.type \in {"text", "bytes", "Uuid", "Json", "Any"}
        /\ Decode(r.type).ok /\ r.value = Decode(r.type).value
        /\ cell.col \in Column /\ cell.content \in Holds(cell.col)
        /\ row.kind = IF cell.col \in {"Numeric", "Varchar"} THEN "Text" ELSE cell.col
        /\ row.content = cell.content
        /\ row.content = IF cell.col \in NumberKind
                         THEN Rounded(wrote.value, Precision[cell.col])
                         ELSE wrote.value
        /\ \/ \E n \in Whole, f \in 0..4 : wrote.value = Plain("number", n, f)
           \/ \E form \in TextOnly \cup {"blob"} : wrote.value = Plain(form, 0, 0)
    BY ContentRow
  <2>2. Decode(r.type) = DecodeContent(r.type, row.kind, row.content, row.sixteen)
    BY <2>1 DEF Decode, TemporalType, DateType, TimeType, LocalType, ZonedType
  <2>3. ~Error.ok /\ \A w : Some(w).value = w
    BY DEF Error, Some
  <2>4. row.content.form = wrote.value.form
    BY <2>1, RoundedPlain, PlainFields
  <2>5. CASE r.type = "Uuid"
    <3>1. Decode(r.type) = DecodeUuid(row.content, row.sixteen)
      BY <2>2, <2>5 DEF DecodeContent
    <3>2. row.content.form = "uuid" /\ r.value = Plain("uuid", 0, 0)
      BY <2>1, <2>3, <2>5, <3>1 DEF DecodeUuid
    <3>3. wrote.value = Plain("uuid", 0, 0)
      <4>1. wrote.value.form = "uuid"
        BY <2>4, <3>2
      <4>2. PICK form \in TextOnly \cup {"blob"} : wrote.value = Plain(form, 0, 0)
        <5>1. \A n, f : Plain("number", n, f).form = "number"
          BY PlainFields
        <5> QED
          BY <2>1, <4>1, <5>1
      <4>3. Plain(form, 0, 0).form = form
        BY PlainFields
      <4> QED
        BY <4>1, <4>2, <4>3
    <3> QED
      BY <3>2, <3>3
  <2>6. CASE r.type # "Uuid"
    <3>1. PICK form \in TextOnly \cup {"blob"} : wrote.value = Plain(form, 0, 0)
      BY <2>1, <2>6, PlainFields
    <3>2. wrote.value.form = form /\ form \notin {"number", "digits"}
      BY <3>1, PlainFields DEF TextOnly
    <3>3. cell.col \notin NumberKind
      BY <2>1, <2>4, <3>2, FormOfColumn
    <3>4. row.content = wrote.value /\ row.kind \notin NumberKind
      BY <2>1, <3>3 DEF NumberKind
    <3>5. ~IsNum(row.kind, row.content)
      BY <3>2, <3>4 DEF IsNum, IsText
    <3>6. CASE r.type \in {"text", "bytes"}
      BY <2>1, <2>2, <2>3, <3>4, <3>6 DEF DecodeContent
    <3>7. CASE r.type = "Json"
      <4>1. Decode(r.type) = DecodeJson(row.kind, row.content)
        BY <2>2, <3>7 DEF DecodeContent
      <4>2. DecodeFloat("Json", row.kind, row.content) = Error
        BY <3>5 DEF DecodeFloat
      <4> QED
        BY <2>1, <2>3, <3>2, <3>4, <4>1, <4>2 DEF DecodeJson
    <3>8. CASE r.type = "Any"
      <4>1. Decode(r.type) = DecodeAny(row.kind, row.content)
        BY <2>2, <3>8 DEF DecodeContent
      <4> QED
        BY <2>1, <2>3, <3>4, <4>1 DEF DecodeAny
    <3> QED
      BY <2>1, <2>6, <3>6, <3>7, <3>8
  <2> QED
    BY <2>5, <2>6
<1> QED
  BY <1>1, Inductive, PTL

-----------------------------------------------------------------------------
(* Numbers.                                                                *)

LEMMA SmallerFacts ==
  ASSUME NEW a \in Int, NEW b \in Int, NEW c \in Int
  PROVE  /\ Smaller(Smaller(a, b), c) = Smaller(a, Smaller(c, b))
         /\ Smaller(a, b) \in {a, b} /\ Smaller(a, b) <= a /\ Smaller(a, b) <= b
         /\ a <= b => Smaller(a, b) = a
BY DEF Smaller

\* What a reader makes of a number that a column holds: it leaves the precision
\* the reader has room for.  A decimal that reads a float keeps no more than an
\* f64, which is all a float column holds.
LEMMA NumberDecoded ==
  ASSUME NEW T \in NumberType \cup {"Json", "Any"}, NEW at, NEW frac \in 0..4, NEW kind, NEW sixteen,
         kind = "Real" \/ kind = "Double" => frac <= 2,
         kind \in NumberKind \cup {"Text"},
         T \in {"Decimal", "BigDecimal"} => kind \in DecimalAccepts
  PROVE  DecodeContent(T, kind, Plain("number", at, frac), sixteen) =
           Some(Plain("number", at, Smaller(frac, Precision[T])))
<1> DEFINE c == Plain("number", at, frac)
<1>1. c.form = "number" /\ c.frac = frac
  BY PlainFields
<1>2. \A precision : Rounded(c, precision) = Plain("number", at, Smaller(frac, precision))
  BY RoundedPlain
<1>3. c = Plain("number", at, frac)
  OBVIOUS
<1> HIDE DEF c
<1>4. IsNum(kind, c) /\ (kind = "Text" => IsText(kind, c, {"number", "digits"}))
  BY <1>1 DEF IsNum, IsText
<1>5. \A U : DecodeFloat(U, kind, c) = Some(Plain("number", at, Smaller(frac, Precision[U])))
  BY <1>2, <1>4 DEF DecodeFloat
<1>6. /\ Precision["f64"] = 2 /\ Precision["Decimal"] = 3 /\ Precision["BigDecimal"] = 4
      /\ Precision["Any"] = 4
  BY DEF Precision
<1>7. /\ frac <= 2 => Smaller(frac, 2) = frac /\ Smaller(frac, 3) = frac
      /\ Smaller(frac, 4) = frac
  BY SmallerFacts
<1>8. CASE T \in {"f32", "f64"}
  BY <1>3, <1>5, <1>8 DEF DecodeContent
<1>9. CASE T = "Decimal"
  <2>1. DecodeContent(T, kind, c, sixteen) = DecodeDecimal(kind, c)
    BY <1>9 DEF DecodeContent
  <2>2. CASE kind = "Text"
    BY <1>2, <1>3, <1>4, <1>9, <2>1, <2>2 DEF DecodeDecimal
  <2>3. CASE kind = "Double"
    <3>1. DecodeContent(T, kind, c, sixteen) = DecodeFloat("f64", kind, c)
      BY <2>1, <2>3 DEF DecodeDecimal, IsText
    <3> QED
      BY <1>3, <1>5, <1>6, <1>7, <1>9, <2>3, <3>1
  <2> QED
    BY <1>9, <2>2, <2>3 DEF DecimalAccepts
<1>10. CASE T = "BigDecimal"
  <2>1. DecodeContent(T, kind, c, sixteen) = DecodeBigDecimal(kind, c)
    BY <1>10 DEF DecodeContent
  <2>2. CASE kind = "Text"
    BY <1>3, <1>4, <1>6, <1>7, <1>10, <2>1, <2>2 DEF DecodeBigDecimal
  <2>3. CASE kind = "Double"
    <3>1. DecodeContent(T, kind, c, sixteen) = DecodeFloat("f64", kind, c)
      BY <2>1, <2>3 DEF DecodeBigDecimal, IsText
    <3> QED
      BY <1>3, <1>5, <1>6, <1>7, <1>10, <2>3, <3>1
  <2> QED
    BY <1>10, <2>2, <2>3 DEF DecimalAccepts
<1>11. CASE T = "Json"
  <2>1. DecodeContent(T, kind, c, sixteen) = DecodeJson(kind, c)
    BY <1>11 DEF DecodeContent
  <2>2. DecodeJson(kind, c) = DecodeFloat("Json", kind, c)
    BY <1>1 DEF DecodeJson, LeadingZero
  <2> QED
    BY <1>3, <1>5, <1>11, <2>1, <2>2
<1>12. CASE T = "Any"
  <2>1. DecodeContent(T, kind, c, sixteen) = DecodeAny(kind, c)
    BY <1>12 DEF DecodeContent
  <2>2. DecodeAny(kind, c) \in {DecodeFloat("Any", kind, c), Some(c)}
    BY DEF DecodeAny
  <2> QED
    BY <1>3, <1>5, <1>6, <1>7, <1>12, <2>1, <2>2
<1> QED
  BY <1>8, <1>9, <1>10, <1>11, <1>12 DEF NumberType

\* Decode gives the number that Encode was given, rounded to the least
\* precision on its way.
THEOREM NumberSafe == Spec => []NumberIsRead
<1>1. TripInv => NumberIsRead
  <2> SUFFICES ASSUME TripInv, wrote.type \in NumberType \cup {"Json", "Any"},
                      NEW r \in Readings(NumberType \cup {"Json", "Any"}),
                      wrote.value.form = "number"
               PROVE  /\ r.value.at = wrote.value.at
                      /\ r.value.frac =
                           Smaller(wrote.value.frac,
                                   Smaller(Precision[r.type], Precision[cell.col]))
    BY DEF NumberIsRead
  <2>1. wrote.type \in ContentType
    BY DEF ContentType
  <2>2. /\ r.type \in NumberType \cup {"Json", "Any"}
        /\ Decode(r.type).ok /\ r.value = Decode(r.type).value
        /\ row.kind \in Accepts(r.type)
        /\ cell.col \in Column /\ cell.content \in Holds(cell.col)
        /\ row.kind = IF cell.col \in {"Numeric", "Varchar"} THEN "Text" ELSE cell.col
        /\ row.content = cell.content
        /\ row.content = IF cell.col \in NumberKind
                         THEN Rounded(wrote.value, Precision[cell.col])
                         ELSE wrote.value
        /\ \/ \E n \in Whole, f \in 0..4 : wrote.value = Plain("number", n, f)
           \/ \E form \in TextOnly \cup {"blob"} :
                wrote.value = Plain(form, 0, 0)
    BY <2>1, ContentRow
  <2>3. PICK n \in Whole, f \in 0..4 : wrote.value = Plain("number", n, f)
    BY <2>2, PlainFields DEF TextOnly
  <2>4. wrote.value.at = n /\ wrote.value.frac = f
    BY <2>3, PlainFields
  <2>5. row.content.form = "number"
    BY <2>2, <2>3, RoundedPlain, PlainFields
  <2>6. cell.col \in NumberKind \cup {"Numeric", "Varchar"}
    BY <2>2, <2>5, FormOfColumn DEF Column, TemporalKind
  <2> DEFINE room == Precision[cell.col]
  <2>7. room \in 0..4 /\ (cell.col \in {"Real", "Double"} => room <= 2)
    BY <2>6 DEF Precision, NumberKind
  <2>8. cell.col \in {"Numeric", "Varchar"} => room = 4
    BY DEF Precision
  <2> HIDE DEF room
  <2>9. row.content = Plain("number", n, Smaller(f, room))
    <3>1. CASE cell.col \in NumberKind
      BY <2>2, <2>3, <3>1, RoundedPlain DEF room
    <3>2. CASE cell.col \in {"Numeric", "Varchar"}
      <4>1. Smaller(f, room) = f
        BY <2>8, <3>2, SmallerFacts
      <4> QED
        BY <2>2, <2>3, <3>2, <4>1 DEF NumberKind
    <3> QED
      BY <2>6, <3>1, <3>2
  <2>10. Smaller(f, room) \in 0..4 /\ Smaller(f, room) <= room
    BY <2>7, SmallerFacts
  <2>11. /\ row.kind \in NumberKind \cup {"Text"}
         /\ row.kind \in {"Real", "Double"} => Smaller(f, room) <= 2
    BY <2>2, <2>6, <2>7, <2>10
  <2>12. r.type \in {"Decimal", "BigDecimal"} => row.kind \in DecimalAccepts
    BY <2>2 DEF Accepts, ContentAccepts, TemporalType, DateType, TimeType, LocalType, ZonedType
  <2>13. Decode(r.type) = DecodeContent(r.type, row.kind, row.content, row.sixteen)
    BY <2>2 DEF Decode, NumberType, TemporalType, DateType, TimeType, LocalType, ZonedType
  <2>14. Decode(r.type) = Some(Plain("number", n, Smaller(Smaller(f, room), Precision[r.type])))
    BY <2>2, <2>9, <2>10, <2>11, <2>12, <2>13, NumberDecoded
  <2>15. r.value = Plain("number", n, Smaller(Smaller(f, room), Precision[r.type]))
    BY <2>2, <2>14 DEF Some
  <2>16. Precision[r.type] \in 0..4
    BY <2>2 DEF Precision, NumberType
  <2>17. Smaller(Smaller(f, room), Precision[r.type]) = Smaller(f, Smaller(Precision[r.type], room))
    BY <2>7, <2>16, SmallerFacts
  <2> QED
    BY <2>4, <2>15, <2>17, PlainFields DEF room
<1> QED
  BY <1>1, Inductive, PTL

-----------------------------------------------------------------------------
(* Two readers of one row.                                                 *)

\* What a fetched row is, whoever wrote it.
LEMMA RowFacts ==
  ASSUME TripInv, phase = "fetched"
  PROVE  /\ cell.col \in Column /\ cell.content \in Holds(cell.col)
         /\ row.content = cell.content
         /\ row.kind = IF cell.col \in {"Numeric", "Varchar"} THEN "Text" ELSE cell.col
BY DEF TripInv

LEMMA ReadingFacts ==
  ASSUME NEW types, NEW r \in Readings(types)
  PROVE  /\ phase = "fetched" /\ r.type \in types
         /\ TryGet(r.type) = Decode(r.type) /\ Decode(r.type).ok
         /\ r.value = Decode(r.type).value
<1>1. PICK T \in types : Readable(T) /\ r = [type |-> T, value |-> TryGet(T).value]
  BY DEF Readings
<1>2. r.type = T /\ r.value = TryGet(T).value /\ phase = "fetched" /\ TryGet(T).ok
  BY <1>1 DEF Readable
<1>3. TryGet(T) = Decode(T)
  BY <1>2 DEF TryGet, Error
<1> QED
  BY <1>1, <1>2, <1>3

\* Structures have the form of their kind and whole seconds of a day.
LEMMA KindOfContent ==
  ASSUME TripInv, phase = "fetched"
  PROVE  /\ row.kind = "Date" => row.content.form = "date"
         /\ row.kind = "Time" => row.content.form = "time" /\ row.content.frac = 0
         /\ row.kind = "Timestamp" => row.content.form = "datetime"
         /\ row.content.form = "offset" => row.content.at \in Int /\ row.content.offset \in Int
<1> DEFINE col == cell.col
           c == cell.content
<1>1. /\ col \in Column /\ c \in Holds(col) /\ row.content = c
      /\ row.kind = IF col \in {"Numeric", "Varchar"} THEN "Text" ELSE col
  BY RowFacts
<1> HIDE DEF col, c
<1>2. /\ col = "Date" => c.form = "date"
      /\ col = "Time" => c.form = "time"
      /\ col = "Timestamp" => c.form = "datetime"
      /\ col \in NumberKind \cup {"Numeric"} => c.form = "number"
      /\ col = "Binary" => c.form # "offset"
  BY <1>1, FormOfColumn
<1>3. col = "Time" => c.frac = 0
  BY <1>1, PlainFields DEF Holds, Times, NumberKind
<1>4. ASSUME c.form = "offset" PROVE c.at \in Int /\ c.offset \in Int
  <2>1. col = "Varchar"
    BY <1>1, <1>2, <1>4 DEF Column, TemporalKind
  <2>2. c \in Texts
    BY <1>1, <2>1 DEF Holds, NumberKind
  <2>3. \A form, at, frac, offset, pad :
          /\ Content(form, at, frac, offset, pad).form = form
          /\ Content(form, at, frac, offset, pad).at = at
          /\ Content(form, at, frac, offset, pad).offset = offset
    BY DEF Content
  <2>4. c \in OffsetTexts
    <3>1. c \notin DateTexts
      BY <1>4, PlainFields DEF DateTexts
    <3>2. c \notin TimeTexts
      BY <1>4, <2>3 DEF TimeTexts
    <3>3. c \notin MomentTexts
      BY <1>4, <2>3 DEF MomentTexts
    <3>4. c \notin Numbers(4)
      BY <1>4, PlainFields DEF Numbers
    <3> QED
      BY <1>4, <2>2, <3>1, <3>2, <3>3, <3>4, PlainFields DEF Texts, TextOnly
  <2>5. SecondsOf(-MaxChrono, MaxChrono) \subseteq Int /\ TextOffsets \subseteq Int
    BY CalendarAssumption, OffsetAssumption, MinuteOffsets DEF SecondsOf, Offsets, TextOffsets
  <2> QED
    BY <2>4, <2>5 DEF OffsetTexts, Content
<1> QED
  BY <1>1, <1>2, <1>3, <1>4 DEF Column, TemporalKind, NumberKind

\* The date that a text or a structure says.
LEMMA DateOfContent ==
  ASSUME NEW T \in DateType, NEW kind, NEW c, ~IsNum(kind, c),
         kind = "Date" => c.form = "date",
         DecodeTemporal(T, kind, c).ok
  PROVE  /\ c.form \in {"date", "T", "offset"}
         /\ DecodeTemporal(T, kind, c).value.at =
              IF c.form = "date" THEN c.at ELSE c.at \div DaySeconds
<1>1. ~Error.ok /\ \A at, frac : When(at, frac).value.at = at
  BY DEF Error, When, Some, Moment
<1>2. ~IsText(kind, c, {"digits"}) /\ ~IsInt(kind, c)
  BY DEF IsNum, IsText, IsInt, NumberKind
<1>3. IsText(kind, c, {"date"}) <=> kind = "Text" /\ c.form = "date"
  BY DEF IsText
<1>4. CASE T = "NaiveDate"
  <2>1. DecodeTemporal(T, kind, c) = DecodeNaiveDate(kind, c)
    BY <1>4 DEF DecodeTemporal
  <2>2. kind = "Date" \/ IsText(kind, c, {"date"})
    BY <1>1, <1>2, <2>1 DEF DecodeNaiveDate
  <2>3. DecodeNaiveDate(kind, c) = When(c.at, 0)
    BY <1>2, <2>2 DEF DecodeNaiveDate
  <2> QED
    BY <1>1, <1>3, <2>1, <2>2, <2>3
<1>5. CASE T = "Date"
  <2>1. DecodeTemporal(T, kind, c) = DecodeDate(kind, c)
    BY <1>5 DEF DecodeTemporal
  <2>2. CASE kind = "Date" \/ IsText(kind, c, {"date"})
    <3>1. ~IsIso(kind, c) /\ c.form = "date"
      BY <1>3, <2>2 DEF IsIso, IsText
    <3>2. DecodeDate(kind, c) \in {When(c.at, 0), Error}
      BY <1>2, <2>2, <3>1 DEF DecodeDate
    <3> QED
      BY <1>1, <2>1, <3>1, <3>2
  <2>3. CASE ~(kind = "Date" \/ IsText(kind, c, {"date"}))
    <3>1. /\ IsIso(kind, c)
          /\ DecodeDate(kind, c) = When(c.at \div DaySeconds, 0)
      BY <1>1, <1>2, <2>1, <2>3 DEF DecodeDate
    <3>2. c.form \in {"T", "offset"}
      BY <3>1 DEF IsIso, IsText
    <3> QED
      BY <1>1, <2>1, <3>1, <3>2
  <2> QED
    BY <2>2, <2>3
<1>6. CASE T = "SysDate"
  <2>1. DecodeTemporal(T, kind, c) = DecodeSys(T, kind, c)
    BY <1>6 DEF DecodeTemporal
  <2>2. DecodeSys(T, kind, c) = IF kind = "Date" THEN When(c.at, c.frac) ELSE Error
    BY <1>6 DEF DecodeSys, TemporalColumn, DateType, TimeType
  <2> QED
    BY <1>1, <2>1, <2>2
<1> QED
  BY <1>4, <1>5, <1>6 DEF DateType

\* The date that a number says which is YYYYMMDD of a year both crates accept.
LEMMA DateOfCode ==
  ASSUME NEW T \in DateType, NEW kind, NEW c, IsNum(kind, c), InCodeRange(c.at),
         DecodeTemporal(T, kind, c).ok
  PROVE  DecodeTemporal(T, kind, c).value.at = CodeDay(c.at)
<1>1. ~Error.ok /\ \A at, frac : When(at, frac).value.at = at
  BY DEF Error, When, Some, Moment
<1>2. kind # "Date" /\ ~IsText(kind, c, {"date"}) /\ ~IsIso(kind, c)
  BY DEF IsNum, IsIso, IsText, NumberKind
<1>3. CASE T = "NaiveDate"
  <2>1. DecodeTemporal(T, kind, c) = DecodeNaiveDate(kind, c)
    BY <1>3 DEF DecodeTemporal
  <2>2. DecodeNaiveDate(kind, c) = When(CodeDay(c.at), 0)
    BY <1>2 DEF DecodeNaiveDate
  <2> QED
    BY <1>1, <2>1, <2>2
<1>4. CASE T = "Date"
  <2>1. DecodeTemporal(T, kind, c) = DecodeDate(kind, c)
    BY <1>4 DEF DecodeTemporal
  <2>2. DecodeDate(kind, c) = When(CodeDay(c.at), 0)
    BY <1>2 DEF DecodeDate
  <2> QED
    BY <1>1, <2>1, <2>2
<1>5. CASE T = "SysDate"
  <2>1. DecodeTemporal(T, kind, c) = DecodeSys(T, kind, c)
    BY <1>5 DEF DecodeTemporal
  <2>2. DecodeSys(T, kind, c) = Error
    BY <1>2, <1>5 DEF DecodeSys, TemporalColumn, DateType, TimeType
  <2> QED
    BY <1>1, <2>1, <2>2
<1> QED
  BY <1>3, <1>4, <1>5 DEF DateType

\* The time of day that a text or a structure says.
LEMMA TimeOfContent ==
  ASSUME NEW T \in TimeType, NEW kind, NEW c, ~IsNum(kind, c),
         kind = "Time" => c.frac = 0, DecodeTemporal(T, kind, c).ok
  PROVE  DecodeTemporal(T, kind, c).value = Moment(c.at, c.frac, 0)
<1>1. ~Error.ok /\ \A at, frac : When(at, frac).value = Moment(at, frac, 0)
  BY DEF Error, When, Some
<1>2. CASE T = "NaiveTime"
  <2>1. DecodeTemporal(T, kind, c) = DecodeNaiveTime(kind, c)
    BY <1>2 DEF DecodeTemporal
  <2>2. DecodeNaiveTime(kind, c) \in {When(c.at, c.frac), Error}
    BY DEF DecodeNaiveTime
  <2> QED
    BY <1>1, <2>1, <2>2
<1>3. CASE T = "Time"
  <2>1. DecodeTemporal(T, kind, c) = DecodeTime(kind, c)
    BY <1>3 DEF DecodeTemporal
  <2>2. CASE kind = "Time"
    <3>1. DecodeTime(kind, c) = When(c.at, 0)
      BY <2>2 DEF DecodeTime, IsText
    <3> QED
      BY <1>1, <2>1, <2>2, <3>1
  <2>3. CASE kind # "Time"
    <3>1. DecodeTime(kind, c) \in {When(c.at, c.frac), Error}
      BY <2>3 DEF DecodeTime
    <3> QED
      BY <1>1, <2>1, <3>1
  <2> QED
    BY <2>2, <2>3
<1>4. CASE T = "SysTime"
  <2>1. DecodeTemporal(T, kind, c) = DecodeSys(T, kind, c)
    BY <1>4 DEF DecodeTemporal
  <2>2. DecodeSys(T, kind, c) \in {When(c.at, c.frac), Error}
    BY DEF DecodeSys
  <2> QED
    BY <1>1, <2>1, <2>2
<1> QED
  BY <1>2, <1>3, <1>4 DEF TimeType

\* Two types that both read a row, of whichever crates, agree on it, but for
\* numbers out of the range of YYYYMMDD and offsets that are ignored.
THEOREM AgreementSafe == Spec => []CratesAgree
<1>1. TripInv => CratesAgree
  <2> DEFINE kind == row.kind
             c == row.content
  <2> SUFFICES ASSUME TripInv,
                      NEW r \in Readings(TemporalType), NEW s \in Readings(TemporalType),
                      ~(/\ IsNum(kind, c)
                        /\ ({r.type, s.type} \subseteq DateType => ~InCodeRange(c.at))),
                      ~("PrimitiveDateTime" \in {r.type, s.type} /\ c.offset # 0)
               PROVE  SameMoment(r, s)
    BY DEF CratesAgree
  <2>1. /\ phase = "fetched" /\ r.type \in TemporalType /\ s.type \in TemporalType
        /\ DecodeTemporal(r.type, kind, c).ok
        /\ r.value = DecodeTemporal(r.type, kind, c).value
        /\ DecodeTemporal(s.type, kind, c).ok
        /\ s.value = DecodeTemporal(s.type, kind, c).value
    BY ReadingFacts DEF Decode
  <2>2. /\ kind = "Date" => c.form = "date"
        /\ kind = "Time" => c.form = "time" /\ c.frac = 0
        /\ kind = "Timestamp" => c.form = "datetime"
        /\ c.form = "offset" => c.at \in Int /\ c.offset \in Int
    BY <2>1, KindOfContent
  <2> HIDE DEF kind, c
  <2>3. DateType \cap TimeType = {} /\ DateType \cap MomentType = {}
        /\ TimeType \cap MomentType = {} /\ LocalType \cap ZonedType = {}
    BY DEF DateType, TimeType, MomentType, LocalType, ZonedType
  <2>4. CASE r.type \in DateType /\ s.type \in DateType
    <3>1. SameMoment(r, s) <=> r.value.at = s.value.at
      BY <2>3, <2>4 DEF SameMoment, MomentType
    <3>2. CASE IsNum(kind, c)
      BY <2>1, <2>4, <3>1, <3>2, DateOfCode
    <3>3. CASE ~IsNum(kind, c)
      BY <2>1, <2>2, <2>4, <3>1, <3>3, DateOfContent
    <3> QED
      BY <3>2, <3>3
  <2>5. CASE r.type \in TimeType /\ s.type \in TimeType
    <3>1. SameMoment(r, s) <=> r.value = s.value
      BY <2>3, <2>5 DEF SameMoment, MomentType
    <3>2. ~IsNum(kind, c)
      BY <2>3, <2>5
    <3> QED
      BY <2>1, <2>2, <2>5, <3>1, <3>2, TimeOfContent
  <2>6. CASE r.type \in DateType /\ s.type \in LocalType
    <3>1. SameMoment(r, s) <=> r.value.at = s.value.at \div DaySeconds
      BY <2>3, <2>6 DEF SameMoment, MomentType
    <3>2. ~IsNum(kind, c)
      BY <2>3, <2>6 DEF MomentType
    <3>3. /\ c.form \in {"date", "T", "offset"}
          /\ r.value.at = IF c.form = "date" THEN c.at ELSE c.at \div DaySeconds
      BY <2>1, <2>2, <2>6, <3>2, DateOfContent
    <3>4. /\ c.form \in {"datetime", "T", "offset"}
          /\ c.form # "offset" => s.value.at = c.at
          /\ c.form = "offset" => \/ s.type \in ZonedType /\ s.value.at = c.at - c.offset
                                  \/ s.type = "PrimitiveDateTime" /\ s.value.at = c.at
      BY <2>1, <2>2, <2>6, <3>2, MomentRead DEF MomentType
    <3> QED
      BY <2>3, <2>6, <3>1, <3>3, <3>4
  <2>7. CASE r.type \in MomentType /\ s.type \in MomentType
    <3>1. SameMoment(r, s) <=> r.value.at = s.value.at /\ r.value.frac = s.value.frac
      BY <2>3, <2>7 DEF SameMoment, MomentType
    <3>2. ~IsNum(kind, c)
      BY <2>3, <2>7
    <3>3. ASSUME NEW q \in {r, s}
          PROVE  q.value.at = (IF c.form = "offset" THEN c.at - c.offset ELSE c.at)
                 /\ q.value.frac = c.frac
      <4>1. /\ q.value.frac = c.frac
            /\ c.form # "offset" => q.value.at = c.at
            /\ c.form = "offset" => \/ q.type \in ZonedType /\ q.value.at = c.at - c.offset
                                    \/ q.type = "PrimitiveDateTime" /\ q.value.at = c.at
        BY <2>1, <2>2, <2>7, <3>2, <3>3, MomentRead
      <4>2. q.type = "PrimitiveDateTime" /\ c.form = "offset" => c.at - c.offset = c.at
        BY <2>2, <3>3
      <4> QED
        BY <4>1, <4>2
    <3> QED
      BY <3>1, <3>3
  <2>8. CASE /\ ~(r.type \in DateType /\ s.type \in DateType)
             /\ ~(r.type \in TimeType /\ s.type \in TimeType)
             /\ ~(r.type \in DateType /\ s.type \in LocalType)
             /\ ~(r.type \in MomentType /\ s.type \in MomentType)
    BY <2>8 DEF SameMoment, MomentType
  <2> QED
    BY <2>4, <2>5, <2>6, <2>7, <2>8
<1> QED
  BY <1>1, Inductive, PTL

-----------------------------------------------------------------------------
(* Readers of their own values.                                            *)

FormOf(T) ==
  CASE T \in DateType -> "date" [] T \in TimeType -> "time"
    [] T \in WithOffset -> "offset" [] OTHER -> "datetime"

\* The types whose values time keeps within four-digit years.
FourDigits == {"Date", "PrimitiveDateTime", "OffsetDateTime"}
InFourDigits(T, at) == at \in IF T = "Date" THEN TimeDays ELSE TimeSeconds

LEMMA TemporalEncoded ==
  ASSUME NEW T \in TemporalType, NEW v \in Values(T)
  PROVE  /\ EncodeTemporal(T, v).content.form = FormOf(T)
         /\ T \in FourDigits => InFourDigits(T, EncodeTemporal(T, v).content.at)
<1>1. \A form, at, frac, offset, pad :
        /\ Content(form, at, frac, offset, pad).form = form
        /\ Content(form, at, frac, offset, pad).at = at
  BY DEF Content
<1>2. /\ T \in DateType => FormOf(T) = "date"
      /\ T \in TimeType => FormOf(T) = "time"
      /\ T \in WithOffset => FormOf(T) = "offset"
      /\ T \in LocalType \cup {"Local", "OffsetDateTime"} => FormOf(T) = "datetime"
  BY DEF FormOf, DateType, TimeType, WithOffset, LocalType
<1>3. \A at, frac : Structure(T, at, frac).content.form =
        IF T \in DateType THEN "date" ELSE IF T \in TimeType THEN "time" ELSE "datetime"
  BY PlainFields DEF Structure, Argument, DateType, TimeType
<1>4. CASE T \in SysType
  <2>1. EncodeTemporal(T, v) = Structure(T, v.at, v.frac)
    BY <1>4 DEF EncodeTemporal, SysType, TimeCrate
  <2> QED
    BY <1>2, <1>3, <1>4, <2>1 DEF SysType, DateType, TimeType, LocalType, FourDigits
<1>5. CASE T = "Date"
  <2>1. EncodeTemporal(T, v) = EncodeTime(T, v)
    BY <1>5 DEF EncodeTemporal, SysType, TimeCrate
  <2>2. EncodeTime(T, v).content = Plain("date", v.at, 0)
    BY <1>5 DEF EncodeTime, Argument
  <2>3. Values(T) = Moments(TimeDays, {0}, {0})
    BY <1>5 DEF Values, NumberType
  <2>4. v.at \in TimeDays
    BY <2>3 DEF Moments, Moment
  <2> QED
    BY <1>2, <1>5, <2>1, <2>2, <2>4, PlainFields DEF DateType, InFourDigits
<1>6. CASE T = "Time"
  <2>1. EncodeTemporal(T, v) = EncodeTime(T, v)
    BY <1>6 DEF EncodeTemporal, SysType, TimeCrate
  <2>2. EncodeTime(T, v).content = Content("time", v.at, v.frac, 0, Padded(v.at))
    BY <1>6 DEF EncodeTime, Argument
  <2> QED
    BY <1>1, <1>2, <1>6, <2>1, <2>2 DEF TimeType, FourDigits
<1>7. CASE T \in {"PrimitiveDateTime", "OffsetDateTime"}
  <2>1. EncodeTemporal(T, v) = EncodeTime(T, v)
    BY <1>7 DEF EncodeTemporal, SysType, TimeCrate
  <2>2. EncodeTime(T, v).content =
          Content("datetime", v.at, v.frac, 0, Padded(v.at % DaySeconds))
    BY <1>7 DEF EncodeTime, Argument
  <2>3. \E offsets : Values(T) = Moments(TimeSeconds, Fraction, offsets)
    BY <1>7 DEF Values, NumberType
  <2>4. v.at \in TimeSeconds
    BY <2>3 DEF Moments, Moment
  <2> QED
    BY <1>1, <1>2, <1>7, <2>1, <2>2, <2>4 DEF LocalType, InFourDigits
<1>8. CASE T \in {"NaiveDate", "NaiveTime", "NaiveDateTime", "Local"}
  <2>1. EncodeTemporal(T, v) = EncodeChrono(T, v)
    BY <1>8 DEF EncodeTemporal, SysType, TimeCrate
  <2>2. \E at, frac : EncodeChrono(T, v) = Structure(T, at, frac)
    BY <1>8 DEF EncodeChrono
  <2> QED
    BY <1>2, <1>3, <1>8, <2>1, <2>2 DEF DateType, TimeType, LocalType, FourDigits
<1>9. CASE T \in WithOffset
  <2>1. EncodeTemporal(T, v) = EncodeChrono(T, v)
    BY <1>9 DEF EncodeTemporal, SysType, TimeCrate, WithOffset
  <2>2. EncodeChrono(T, v).content =
          Content("offset", v.at + v.offset, v.frac, MinuteOffset(v.offset), TRUE)
    BY <1>9 DEF EncodeChrono, WithOffset, Argument
  <2>3. EncodeChrono(T, v).content.form = "offset"
    BY <2>2 DEF Content
  <2> QED
    BY <1>2, <1>9, <2>1, <2>3 DEF WithOffset, FourDigits
<1> QED
  BY <1>4, <1>5, <1>6, <1>7, <1>8, <1>9
     DEF TemporalType, DateType, TimeType, LocalType, ZonedType, SysType, WithOffset

\* A type reads a structure of its own kind, and a text of its own form with a
\* two-digit hour.
LEMMA OwnTemporalDecoded ==
  ASSUME NEW T \in TemporalType, NEW kind, NEW c,
         \/ kind = TemporalColumn(T)
         \/ kind = "Text" /\ T \notin SysType /\ c.form = FormOf(T),
         T \in FourDigits => InFourDigits(T, c.at),
         kind = "Text" /\ T \in {"Time", "PrimitiveDateTime", "OffsetDateTime"} => c.pad
  PROVE  DecodeTemporal(T, kind, c).ok
<1>1. \A at, frac : When(at, frac).ok
  BY DEF When, Some
<1>2. \A offset : Instant(c, offset).ok
  BY DEF Instant, Some
<1>3. ~IsNum(kind, c) /\ ~IsInt(kind, c)
  BY DEF IsNum, IsInt, IsText, NumberKind, TemporalColumn, FormOf
<1>4. \A forms : IsText(kind, c, forms) <=> kind = "Text" /\ c.form \in forms
  BY DEF IsText
<1>5. T \in DateType => kind = "Date" \/ IsText(kind, c, {"date"})
  BY <1>4 DEF TemporalColumn, FormOf, DateType, TimeType, WithOffset
<1>6. T \in TimeType => kind = "Time" \/ IsText(kind, c, {"time"})
  BY <1>4 DEF TemporalColumn, FormOf, DateType, TimeType, WithOffset
<1>7. T \in WithOffset => kind = "Timestamp" \/ IsText(kind, c, {"offset"})
  BY <1>4 DEF TemporalColumn, FormOf, DateType, TimeType, WithOffset
<1>8. T \in LocalType \cup {"Local", "OffsetDateTime"} =>
        kind = "Timestamp" \/ IsText(kind, c, {"datetime"})
  BY <1>4 DEF TemporalColumn, FormOf, DateType, TimeType, WithOffset, LocalType
<1>9. CASE T \in SysType
  <2>1. DecodeTemporal(T, kind, c) = DecodeSys(T, kind, c)
    BY <1>9 DEF DecodeTemporal, SysType
  <2> QED
    BY <1>1, <1>9, <2>1 DEF DecodeSys, TemporalColumn
<1>10. CASE T = "NaiveDate"
  <2>1. DecodeTemporal(T, kind, c) = DecodeNaiveDate(kind, c)
    BY <1>10 DEF DecodeTemporal
  <2> QED
    BY <1>1, <1>3, <1>5, <1>10, <2>1 DEF DecodeNaiveDate, DateType
<1>11. CASE T = "Date"
  <2>1. DecodeTemporal(T, kind, c) = DecodeDate(kind, c)
    BY <1>11 DEF DecodeTemporal
  <2>2. c.at \in TimeDays
    BY <1>11 DEF FourDigits, InFourDigits
  <2> QED
    BY <1>1, <1>3, <1>5, <1>11, <2>1, <2>2 DEF DecodeDate, DateType
<1>12. CASE T = "NaiveTime"
  <2>1. DecodeTemporal(T, kind, c) = DecodeNaiveTime(kind, c)
    BY <1>12 DEF DecodeTemporal
  <2> QED
    BY <1>1, <1>6, <1>12, <2>1 DEF DecodeNaiveTime, TimeType
<1>13. CASE T = "Time"
  <2>1. DecodeTemporal(T, kind, c) = DecodeTime(kind, c)
    BY <1>13 DEF DecodeTemporal
  <2>2. kind = "Time" \/ (IsText(kind, c, {"time"}) /\ c.pad)
    BY <1>4, <1>6, <1>13 DEF TimeType
  <2> QED
    BY <1>1, <1>3, <2>1, <2>2 DEF DecodeTime
<1>14. kind = "Timestamp" \/ IsText(kind, c, {"datetime"}) =>
         /\ DecodeNaiveDateTime(kind, c).ok
         /\ (kind = "Text" => c.pad) /\ c.at \in TimeSeconds =>
              DecodePrimitiveDateTime(kind, c).ok
  <2>1. /\ IsText(kind, c, {"datetime"}) => IsText(kind, c, {"datetime", "T"}) /\ c.form # "T"
        /\ IsText(kind, c, {"datetime"}) => kind = "Text"
    BY <1>4
  <2> QED
    BY <1>1, <1>3, <2>1 DEF DecodeNaiveDateTime, DecodePrimitiveDateTime, InFormat
<1>15. CASE T = "NaiveDateTime"
  <2>1. DecodeTemporal(T, kind, c) = DecodeNaiveDateTime(kind, c)
    BY <1>15 DEF DecodeTemporal
  <2> QED
    BY <1>8, <1>14, <1>15, <2>1 DEF LocalType
<1>16. CASE T \in {"PrimitiveDateTime", "OffsetDateTime"}
  <2>1. c.at \in TimeSeconds /\ (kind = "Text" => c.pad)
    BY <1>16 DEF FourDigits, InFourDigits
  <2>2. DecodePrimitiveDateTime(kind, c).ok
    BY <1>8, <1>14, <1>16, <2>1 DEF LocalType
  <2>3. DecodeOffsetDateTime(kind, c).ok
    BY <1>2, <2>2 DEF DecodeOffsetDateTime
  <2> QED
    BY <1>16, <2>2, <2>3 DEF DecodeTemporal
<1>17. CASE T \in {"Utc", "FixedOffset", "Local"}
  <2>1. DecodeTemporal(T, kind, c) = DecodeZoned(T, kind, c)
    BY <1>17 DEF DecodeTemporal
  <2>2. IsText(kind, c, {"offset"}) \/ DecodeNaiveDateTime(kind, c).ok
    BY <1>7, <1>8, <1>14, <1>17 DEF WithOffset
  <2> QED
    BY <1>2, <2>1, <2>2 DEF DecodeZoned, Some
<1> QED
  BY <1>9, <1>10, <1>11, <1>12, <1>13, <1>15, <1>16, <1>17
     DEF TemporalType, DateType, TimeType, LocalType, ZonedType, SysType

\* A content is read by the type that wrote it, from its own column and from a
\* text.
LEMMA OwnContentDecoded ==
  ASSUME NEW T \in ContentType, NEW v \in Values(T), NEW col \in {ContentColumn(T), "Varchar"},
         NEW kind, NEW sixteen, kind = IF col \in {"Numeric", "Varchar"} THEN "Text" ELSE col,
         NEW c, c = IF col \in NumberKind THEN Rounded(v, Precision[col]) ELSE v
  PROVE  DecodeContent(T, kind, c, sixteen).ok /\ kind \in ContentAccepts(T)
<1>1. \A w : Some(w).ok
  BY DEF Some
<1>2. CASE T \in {"f32", "f64"}
  <2>1. Values(T) = Numbers(Precision[T])
    BY <1>2 DEF Values, NumberType
  <2>2. v.form = "number"
    BY <2>1, PlainFields DEF Numbers
  <2>3. IsNum(kind, c)
    BY <1>2, <2>2 DEF IsNum, IsText, NumberKind, ContentColumn
  <2>4. DecodeContent(T, kind, c, sixteen) = DecodeFloat(T, kind, c)
    BY <1>2 DEF DecodeContent
  <2>5. ContentAccepts(T) = NumberKind \cup {"Text"}
    BY <1>2 DEF ContentAccepts, BasicAccepts
  <2> QED
    BY <1>1, <1>2, <2>3, <2>4, <2>5 DEF DecodeFloat, ContentColumn, NumberKind
<1>3. CASE T \in {"Decimal", "BigDecimal"}
  <2>1. Values(T) = Numbers(Precision[T])
    BY <1>3 DEF Values, NumberType
  <2>2. v.form = "number"
    BY <2>1, PlainFields DEF Numbers
  <2>3. kind = "Text" /\ IsText(kind, c, {"number", "digits"})
    BY <1>3, <2>2 DEF IsText, NumberKind, ContentColumn
  <2>4. DecodeDecimal(kind, c).ok /\ DecodeBigDecimal(kind, c).ok
    BY <1>1, <2>3 DEF DecodeDecimal, DecodeBigDecimal
  <2> QED
    BY <1>3, <2>3, <2>4 DEF DecodeContent, ContentAccepts, DecimalAccepts
<1>4. CASE T \in {"text", "bytes"}
  <2>1. DecodeContent(T, kind, c, sixteen) = Some(c)
    BY <1>4 DEF DecodeContent
  <2> QED
    BY <1>1, <1>4, <2>1 DEF ContentAccepts, BasicAccepts, ContentColumn
<1>5. CASE T = "Uuid"
  <2>1. v = Plain("uuid", 0, 0)
    BY <1>5 DEF Values, NumberType
  <2>2. kind = "Text" /\ c.form = "uuid"
    BY <1>5, <2>1, PlainFields DEF ContentColumn, NumberKind
  <2>3. DecodeUuid(c, sixteen).ok
    BY <1>1, <2>2 DEF DecodeUuid
  <2> QED
    BY <1>5, <2>2, <2>3 DEF DecodeContent, ContentAccepts, UuidAccepts
<1>6. CASE T = "Json"
  <2>1. Values(T) = {Plain("json", 0, 0)} \cup Numbers(2)
    BY <1>6 DEF Values, NumberType
  <2>2. v.form \in {"json", "number"}
    BY <2>1, PlainFields DEF Numbers
  <2>3. kind = "Text" /\ c.form \in {"json", "number"}
    BY <1>6, <2>2 DEF ContentColumn, NumberKind
  <2>4. c.form = "number" => DecodeFloat("Json", kind, c).ok
    BY <1>1, <2>3 DEF DecodeFloat, IsNum, IsText
  <2>5. DecodeJson(kind, c).ok
    BY <1>1, <2>3, <2>4 DEF DecodeJson, LeadingZero
  <2> QED
    BY <1>6, <2>3, <2>5 DEF DecodeContent, ContentAccepts, JsonAccepts
<1>7. CASE T = "Any"
  <2>1. kind = "Text"
    BY <1>7 DEF ContentColumn
  <2>2. DecodeAny(kind, c) = Some(c)
    BY <2>1 DEF DecodeAny, NumberKind
  <2> QED
    BY <1>1, <1>7, <2>1, <2>2 DEF DecodeContent, ContentAccepts
<1> QED
  BY <1>2, <1>3, <1>4, <1>5, <1>6, <1>7 DEF ContentType, NumberType

\* A column of dates or of text keeps the form, and one of timestamps or of text
\* the second, of what is stored in it.
LEMMA TextStored ==
  ASSUME NEW col, NEW p, NEW c \in Stored(p, col)
  PROVE  /\ col \in {"Date", "Varchar"} => c.form = p.content.form /\ c.at = p.content.at
         /\ col = "Timestamp" /\ p.content.form = "datetime" => c.at = p.content.at
<1> DEFINE Declared ==
             /\ p.content.form = "datetime"
             /\ col = "Timestamp" \/ (col = "Varchar" /\ p.kind = "Timestamp")
<1>1. CASE Declared
  <2>1. Stored(p, col) =
          {Plain("datetime", p.content.at, f) : f \in {p.content.frac, Micros(p.content.frac)}}
    BY <1>1 DEF Stored, NumberKind
  <2>2. PICK f : c = Plain("datetime", p.content.at, f)
    BY <2>1
  <2>3. c.form = "datetime" /\ c.at = p.content.at
    BY <2>2, PlainFields
  <2> QED
    BY <1>1, <2>3
<1>2. CASE col \in {"Date", "Varchar"} /\ ~Declared
  <2>1. Stored(p, col) = {p.content}
    BY <1>2 DEF Stored, NumberKind
  <2> QED
    BY <1>2, <2>1
<1> QED
  BY <1>1, <1>2

\* What a type writes into a column of its own type, or of text, it can read
\* back: compatible and Decode agree with Encode.
THEOREM OwnValueSafe == Spec => []OwnValueIsReadable
<1>1. TripInv => OwnValueIsReadable
  <2> DEFINE T == wrote.type
             v == wrote.value
             col == cell.col
             kind == row.kind
             c == row.content
  <2> SUFFICES ASSUME TripInv, phase = "fetched", T # "none",
                      col \in {OwnColumn(T), "Varchar"},
                      ~(/\ T \in {"Time", "PrimitiveDateTime", "OffsetDateTime"}
                        /\ col = "Varchar" /\ ~c.pad),
                      ~(T \in SysType /\ col = "Varchar")
               PROVE  Readable(T)
    BY DEF OwnValueIsReadable, SysType
  <2>1. /\ wrote # NoWrite /\ T \in Type /\ v \in Values(T)
        /\ c \in Stored(Encoded, col) /\ col \in Column
    BY RowFacts DEF TripInv, NoWrite
  <2>2. kind = IF col \in {"Numeric", "Varchar"} THEN "Text" ELSE col
    BY RowFacts
  <2>3. SUFFICES /\ kind \in Accepts(T) /\ Decode(T).ok
                 /\ T = "Any" => col \in AnyColumn
    BY DEF Readable, TryGet
  <2>4. CASE T \in TemporalType
    <3>1. Encoded = EncodeTemporal(T, v)
      BY <2>4 DEF Encoded
    <3> DEFINE p == Encoded.content
    <3>2. p.form = FormOf(T) /\ (T \in FourDigits => InFourDigits(T, p.at))
      BY <2>1, <2>4, <3>1, TemporalEncoded
    <3>3. col \in TemporalKind \cup {"Varchar"}
      BY <2>4 DEF OwnColumn, TemporalColumn, TemporalKind
    <3> HIDE DEF T, v, col, kind, c
    <3>4. /\ col \in {"Date", "Varchar"} => c.form = p.form /\ c.at = p.at
          /\ col = "Timestamp" /\ p.form = "datetime" => c.at = p.at
      BY <2>1, TextStored DEF col, c
    <3>5. \/ kind = TemporalColumn(T)
          \/ kind = "Text" /\ T \notin SysType /\ c.form = FormOf(T)
      BY <2>2, <2>4, <3>2, <3>4 DEF OwnColumn, TemporalColumn, T, col, c
    <3>6. T \in FourDigits => InFourDigits(T, c.at)
      <4>1. T = "Date" => c.at = p.at
        BY <2>4, <3>4 DEF OwnColumn, TemporalColumn, DateType, TimeType, T, col
      <4>2. T \in {"PrimitiveDateTime", "OffsetDateTime"} => p.form = "datetime"
        BY <3>2 DEF FormOf, DateType, TimeType, WithOffset
      <4>3. T \in {"PrimitiveDateTime", "OffsetDateTime"} => col \in {"Timestamp", "Varchar"}
        BY <2>4 DEF OwnColumn, TemporalColumn, DateType, TimeType, T, col
      <4> QED
        BY <3>2, <3>4, <4>1, <4>2, <4>3 DEF FourDigits
    <3>7. kind = "Text" /\ T \in {"Time", "PrimitiveDateTime", "OffsetDateTime"} => c.pad
      BY <2>2, <3>3 DEF TemporalKind, T, col, c
    <3>8. DecodeTemporal(T, kind, c).ok
      BY <2>4, <3>5, <3>6, <3>7, OwnTemporalDecoded DEF T
    <3>9. kind \in Accepts(T)
      <4>1. kind \in {TemporalColumn(T), "Text"} /\ (T \in SysType => kind = TemporalColumn(T))
        BY <3>5
      <4>2. TemporalColumn(T) \in TemporalKind
        BY DEF TemporalColumn, TemporalKind
      <4>3. kind \in TemporalAccepts(T)
        BY <4>1, <4>2 DEF TemporalAccepts, TimeAccepts, ChronoAccepts, TemporalColumn, DateType, TimeType
      <4> QED
        BY <2>4, <4>3 DEF Accepts, T
    <3> QED
      BY <2>4, <3>8, <3>9 DEF Decode, TemporalType, DateType, TimeType, LocalType, ZonedType, T, kind, c
  <2>5. CASE T \in ContentType
    <3>1. T \notin TemporalType
      BY <2>5 DEF ContentType, NumberType, TemporalType, DateType, TimeType, LocalType, ZonedType
    <3>2. Encoded.content = v
      BY <2>5, <3>1, ContentEncoded DEF Encoded
    <3>3. v.form \notin {"datetime", "time", "offset"}
      BY <2>1, <2>5, ContentValue, PlainFields DEF TextOnly
    <3>4. c = IF col \in NumberKind THEN Rounded(v, Precision[col]) ELSE v
      BY <2>1, <3>2, <3>3, ContentStored
    <3>5. col \in {ContentColumn(T), "Varchar"}
      BY <3>1 DEF OwnColumn
    <3>6. DecodeContent(T, kind, c, row.sixteen).ok /\ kind \in ContentAccepts(T)
      BY <2>1, <2>2, <2>5, <3>4, <3>5, OwnContentDecoded
    <3>7. T = "Any" => col \in AnyColumn
      BY <3>5 DEF ContentColumn, AnyColumn
    <3> QED
      BY <3>1, <3>6, <3>7 DEF Decode, Accepts
  <2> QED
    BY <2>1, <2>4, <2>5 DEF Type
<1> QED
  BY <1>1, Inductive, PTL
=============================================================================
