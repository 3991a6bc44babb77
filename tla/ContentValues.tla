--------------------------- MODULE ContentValues ---------------------------
(***************************************************************************)
(* The types that are neither integers nor dates: f32, f64, Decimal,       *)
(* BigDecimal, text (String, str), bytes (Vec<u8>, [u8]), Uuid, Json, and  *)
(* the dynamically typed values of SQLx's Any driver.  Their Rust values   *)
(* are contents as well.                                                   *)
(*                                                                         *)
(* A number has a whole part and a fraction; the fraction says how much    *)
(* precision it takes: 0 none, 1 that of f32, 2 of f64 (no more than the   *)
(* 15 digits Decimal::try_from keeps), 3 of Decimal, 4 of BigDecimal       *)
(* alone.  Rounding leaves the precision there is room for.                *)
(* Other contents: "uuid" the characters of an identifier, "json" a        *)
(* document that is not a number, "word" any other text, "blob" bytes that *)
(* are no text.  How long a text or bytes are is not part of a content.    *)
(***************************************************************************)
EXTENDS TemporalValues

NumberType == {"f32", "f64", "Decimal", "BigDecimal"}
ContentType == NumberType \cup {"text", "bytes", "Uuid", "Json", "Any"}

\* The precision each type and column has room for.
Precision ==
  [f32 |-> 1, f64 |-> 2, Decimal |-> 3, BigDecimal |-> 4, Json |-> 2, Any |-> 4,
   BigInt |-> 0, Real |-> 1, Double |-> 2, Numeric |-> 4, Varchar |-> 4]

Smaller(a, b) == IF a < b THEN a ELSE b
Rounded(c, precision) == [c EXCEPT !.frac = Smaller(c.frac, precision)]

TextOnly == {"uuid", "json", "word"}

\* The type_info of each type, as the column of that type.
ContentColumn(T) ==
  CASE T = "f32" -> "Real" [] T = "f64" -> "Double"
    [] T \in {"Decimal", "BigDecimal"} -> "Numeric"
    [] T = "bytes" -> "Binary" [] OTHER -> "Varchar"

\* T::compatible, on the kinds of fetched values.
BasicAccepts(T) ==
  CASE T \in {"f32", "f64"} -> NumberKind \cup {"Text"}
    [] T = "bytes" -> {"Binary", "Text"}
    [] OTHER -> {"Text"}

DecimalAccepts == {"Double", "Text"}
UuidAccepts == {"Binary", "Text"}
JsonAccepts == NumberKind \cup {"Binary", "Text"}

ContentAccepts(T) ==
  CASE T \in {"Decimal", "BigDecimal"} -> DecimalAccepts
    [] T = "Uuid" -> UuidAccepts
    [] T = "Json" -> JsonAccepts
    [] T = "Any" -> NumberKind \cup {"Binary", "Text"}
    [] OTHER -> BasicAccepts(T)

\* AnyTypeInfo::try_from on the columns of a row: one column of another type
\* fails the whole row.
AnyColumn == {"BigInt", "Real", "Double", "Varchar", "Binary"}

\* Mutant: bytes are bound as a text.
EncodeBytesAsText(T, v) ==
  CASE T \in {"f32", "f64"} -> Argument("Double", v)
    [] T = "bytes" -> Argument("Text", [v EXCEPT !.form = "word"])
    [] OTHER -> Argument("Text", v)

EncodeBasic(T, v) ==
  CASE T \in {"f32", "f64"} -> Argument("Double", v)
    [] T = "bytes" -> Argument("Binary", v)
    [] OTHER -> Argument("Text", v)

\* Mutant: decimals are bound as floats.
EncodeAsFloat(v) ==
  IF v.form = "number" THEN Argument("Double", Rounded(v, 2)) ELSE Argument("Text", v)

\* Decimal, BigDecimal, Uuid and Json are bound as what they are spelled.
EncodeSpelling(v) == Argument("Text", v)

\* map_arguments.
EncodeAny(v) ==
  CASE v.form = "number" /\ v.frac = 0 -> Argument("BigInt", v)
    [] v.form = "number" /\ v.frac > 0 -> Argument("Double", v)
    [] v.form = "blob" -> Argument("Binary", v)
    [] OTHER -> Argument("Text", v)

EncodeContent(T, v) ==
  CASE T \in {"Decimal", "BigDecimal", "Uuid", "Json"} -> EncodeSpelling(v)
    [] T = "Any" -> EncodeAny(v)
    [] OTHER -> EncodeBasic(T, v)

\* as_f64, and `as f32`.
DecodeFloat(T, kind, c) ==
  IF IsNum(kind, c) THEN Some(Rounded(c, Precision[T])) ELSE Error

\* The text itself is parsed; only what is no text is taken for a float.
DecodeDecimal(kind, c) ==
  IF kind = "BigInt" \/ IsText(kind, c, {"number", "digits"})
  THEN Some(Rounded(c, Precision["Decimal"]))
  ELSE DecodeFloat("f64", kind, c)

DecodeBigDecimal(kind, c) ==
  IF IsText(kind, c, {"number", "digits"}) THEN Some(c)
  ELSE DecodeFloat("f64", kind, c)

\* 16 bytes are taken as they are, whatever they say; only others are parsed.
DecodeUuid(c, sixteen) ==
  IF sixteen \/ c.form = "uuid" THEN Some(Plain("uuid", 0, 0)) ELSE Error

\* A JSON number has no leading zero.
LeadingZero(c) == c.form = "digits" /\ 10 * c.at < (MaxTime + 1) * Base

\* serde_json keeps the fraction of a number as an f64.
DecodeJson(kind, c) ==
  CASE c.form = "json" -> Some(c)
    [] LeadingZero(c) -> Error
    [] OTHER -> DecodeFloat("Json", kind, c)

\* AnyRow::map_from decodes by the kind of the value.
DecodeAny(kind, c) ==
  IF kind \in NumberKind THEN DecodeFloat("Any", kind, c) ELSE Some(c)

\* sixteen: the text or bytes c stands for are 16 bytes long.
DecodeContent(T, kind, c, sixteen) ==
  CASE T \in {"f32", "f64"} -> DecodeFloat(T, kind, c)
    [] T = "Decimal" -> DecodeDecimal(kind, c)
    [] T = "BigDecimal" -> DecodeBigDecimal(kind, c)
    [] T \in {"text", "bytes"} -> Some(c)
    [] T = "Uuid" -> DecodeUuid(c, sixteen)
    [] T = "Json" -> DecodeJson(kind, c)
    [] OTHER -> DecodeAny(kind, c)
=============================================================================
