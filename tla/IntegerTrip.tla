---------------------------- MODULE IntegerTrip ----------------------------
(***************************************************************************)
(* The journey of one integer or boolean: encoded by its Rust type, bound  *)
(* as an ODBC parameter, stored by the driver in a column, fetched from    *)
(* there unbuffered or buffered, and read back as any integer type or      *)
(* bool.  Rows that other programs wrote are fetched and read as well.     *)
(*                                                                         *)
(* Widths are constants, so that small instances are exhaustive.  A text   *)
(* is what it says: a number, a boolean word or anything else.  "Decimal"  *)
(* stands for NUMERIC and DECIMAL, "Double" for FLOAT and DOUBLE,          *)
(* "Varchar" for the six character types.                                  *)
(***************************************************************************)
EXTENDS Integers, FiniteSets

CONSTANTS
  Max8, Max16, Max32, Max64,  \* largest signed integer of each width
  MaxReads                    \* bound: reads of the cell

ASSUME WidthAssumption ==
  /\ {Max8, Max16, Max32, Max64} \subseteq Nat \ {0}
  /\ 2 * Max8 < Max16 /\ 2 * Max16 < Max32 /\ 2 * Max32 < Max64
ASSUME ReadsAssumption == MaxReads \in Nat

Signed(max) == (-max - 1)..max
Unsigned(max) == 0..(2 * max + 1)
Number == (-Max64 - 1)..(2 * Max64 + 1)

\* The values of each Rust type.
Range == [i8  |-> Signed(Max8),    i16 |-> Signed(Max16),
          i32 |-> Signed(Max32),   i64 |-> Signed(Max64),
          u8  |-> Unsigned(Max8),  u16 |-> Unsigned(Max16),
          u32 |-> Unsigned(Max32), u64 |-> Unsigned(Max64),
          bool |-> 0..1]
Type == DOMAIN Range
IntType == Type \ {"bool"}

IntColumn == {"TinyInt", "SmallInt", "Integer", "BigInt"}
DataType == IntColumn \cup {"Bit", "Real", "Double", "Decimal", "Varchar"}
Width == [TinyInt |-> Max8, SmallInt |-> Max16,
          Integer |-> Max32, BigInt |-> Max64]

\* T::type_info.
TypeInfo == [i8  |-> "TinyInt", i16 |-> "SmallInt",
             i32 |-> "Integer", i64 |-> "BigInt",
             u8  |-> "TinyInt", u16 |-> "SmallInt",
             u32 |-> "Integer", u64 |-> "BigInt", bool |-> "Bit"]

\* The integer columns each Rust integer accepts.
Accepts == [i8  |-> IntColumn, i16 |-> IntColumn,
            i32 |-> IntColumn, i64 |-> IntColumn, u8 |-> IntColumn,
            u16 |-> IntColumn \ {"TinyInt"},
            u32 |-> {"Integer", "BigInt"}, u64 |-> {"Integer", "BigInt"}]

\* Mutant: u16 accepts only the column of its own type.
CompatibleExactly(T, data_type) ==
  IF T = "bool"
  THEN data_type \in DataType \ {"Bit"}
  ELSE \/ data_type \in IF T = "u16" THEN {"SmallInt"} ELSE Accepts[T]
       \/ data_type \in {"Decimal", "Varchar"}

\* T::compatible: bool takes numeric and character types.
Compatible(T, data_type) ==
  IF T = "bool"
  THEN data_type \in DataType \ {"Bit"}
  ELSE data_type \in Accepts[T] \cup {"Decimal", "Varchar"}

-----------------------------------------------------------------------------
(* What a cell or a text says.                                             *)

Null == [tag |-> "null", n |-> 0]
Whole(n) == [tag |-> "whole", n |-> n]
Fraction(n) == [tag |-> "fraction", n |-> n]  \* n and a fraction
Word(b) == [tag |-> "word", n |-> b]          \* false, true, f, T
Other == [tag |-> "other", n |-> 0]

IsNumber(content) == content.tag \in {"whole", "fraction"}

Content ==
  {Null, Other} \cup {Word(b) : b \in 0..1}
    \cup {Whole(n) : n \in Number} \cup {Fraction(n) : n \in Number}

\* What a column can hold.
Holds(col, unsigned) ==
  {c \in Content :
     \/ c = Null \/ col = "Varchar"
     \/ col \in {"Real", "Double", "Decimal"} /\ IsNumber(c)
     \/ col = "Bit" /\ c.tag = "whole" /\ c.n \in 0..1
     \/ /\ col \in IntColumn /\ c.tag = "whole"
        /\ c.n \in IF unsigned THEN Unsigned(Width[col])
                    ELSE Signed(Width[col])}

VARIABLES
  at,     \* "client", "added", "stored", "fetched" or "failed"
  wrote,  \* history: the Rust type and the value a client wrote, if any
  arg,    \* the OdbcArgumentValue
  cell,   \* the database: column type, its signedness, content
  row,    \* the OdbcValueKind fetched; cut: shortened by the buffer
  seen,   \* history: reads [type, cut, out] of whatever was fetched
  reads   \* number of reads

vars == <<at, wrote, arg, cell, row, seen, reads>>

NoWrite == [type |-> "none", value |-> Null]
NoArg == [tag |-> "none", n |-> 0, type |-> "none"]
NoCell == [col |-> "none", unsigned |-> FALSE, content |-> Null]
NoRow == [kind |-> "none", content |-> Null, cut |-> FALSE]

Init ==
  /\ at = "client"
  /\ wrote = NoWrite /\ arg = NoArg /\ cell = NoCell /\ row = NoRow
  /\ seen = {} /\ reads = 0

-----------------------------------------------------------------------------
(* Writing.                                                                *)

Arg(tag, n) == [tag |-> tag, n |-> n, type |-> "none"]
NullArg(T) == [tag |-> "Null", n |-> 0, type |-> TypeInfo[T]]

\* Mutant: u64 is cast to i64.
EncodeWithCast(T, value) ==
  CASE value = Null -> NullArg(T)
    [] value # Null /\ T = "bool" -> Arg("Bit", value.n)
    [] OTHER -> Arg("Int", IF value.n \in Signed(Max64) THEN value.n
                           ELSE value.n - 2 * Max64 - 2)

\* Mutant: u64 is not told apart from the signed integers.
EncodeAllAsInt(T, value) ==
  CASE value = Null -> NullArg(T)
    [] value # Null /\ T = "bool" -> Arg("Bit", value.n)
    [] OTHER -> Arg("Int", value.n)

\* Encode for Option<T>: a typed NULL, a boolean, an unsigned integer that
\* only u64 can hold, or a signed integer.
Encode(T, value) ==
  CASE value = Null -> NullArg(T)
    [] value # Null /\ T = "bool" -> Arg("Bit", value.n)
    [] value # Null /\ T = "u64" /\ value.n > Max64 -> Arg("UInt", value.n)
    [] OTHER -> Arg("Int", value.n)

\* arguments.add(value).
Add(T, value) ==
  /\ at = "client"
  /\ at' = "added"
  /\ wrote' = [type |-> T, value |-> value]
  /\ arg' = Encode(T, value)
  /\ UNCHANGED <<cell, row, seen, reads>>

\* value_to_parameter keeps the number; the driver converts it to the column.
Parameter == IF arg.tag = "Null" THEN Null ELSE Whole(arg.n)

Store(col, unsigned) ==
  /\ at = "added"
  /\ Parameter \in Holds(col, unsigned)
  /\ at' = "stored"
  /\ cell' = [col |-> col, unsigned |-> unsigned, content |-> Parameter]
  /\ UNCHANGED <<wrote, arg, row, seen, reads>>

\* The column cannot hold the parameter, or the driver does not convert it.
Refuse ==
  /\ at = "added"
  /\ at' = "failed"
  /\ UNCHANGED <<wrote, arg, cell, row, seen, reads>>

\* A row that another program wrote.
Existing(col, unsigned) ==
  /\ at = "client"
  /\ \E content \in Holds(col, unsigned) :
       cell' = [col |-> col, unsigned |-> unsigned, content |-> content]
  /\ at' = "stored"
  /\ UNCHANGED <<wrote, arg, row, seen, reads>>

-----------------------------------------------------------------------------
(* Fetching.                                                               *)

\* The cell can be fetched, again and again, until the bound on reads.
Fetchable == at \in {"stored", "fetched"} /\ reads < MaxReads

\* fetch_value: the C type of the column's own width; everything that is not
\* a fixed-size type is fetched as text of any length.
UnbufferedKind(col) ==
  IF col \in {"Decimal", "Varchar"} THEN "Text" ELSE col

\* map_buffer_desc: every integer column is bound as i64.
BufferedKind(col) ==
  CASE col \in IntColumn -> "BigInt"
    [] col \in {"Decimal", "Varchar"} -> "Text"
    [] OTHER -> col

\* The C type of an integer kind is signed: the driver reports an error when
\* the number does not fit.
Fits(kind, content) ==
  kind \in IntColumn => content = Null \/ content.n \in Signed(Width[kind])

KindOf(kind, content) == IF content = Null THEN "Null" ELSE kind

FetchUnbuffered ==
  LET kind == UnbufferedKind(cell.col)
  IN  /\ Fetchable
      /\ Fits(kind, cell.content)
      /\ at' = "fetched"
      /\ row' = [kind |-> KindOf(kind, cell.content),
                 content |-> cell.content, cut |-> FALSE]
      /\ UNCHANGED <<wrote, arg, cell, seen, reads>>

FetchBuffered ==
  LET kind == BufferedKind(cell.col)
  IN  /\ Fetchable
      /\ Fits(kind, cell.content)
      /\ at' = "fetched"
      /\ row' = [kind |-> KindOf(kind, cell.content),
                 content |-> cell.content, cut |-> FALSE]
      /\ UNCHANGED <<wrote, arg, cell, seen, reads>>

\* What is left of a number of which the last digits are cut.
Shorter(n) ==
  {m \in Number : IF n >= 0 THEN m > 0 /\ 10 * m <= n
                            ELSE m < 0 /\ 10 * m >= n}

\* A buffer of max_column_size characters.  Drivers cut the fraction of a
\* decimal number, never its whole digits; of a text they cut anything.
Cut(col, content) ==
  CASE col = "Decimal" -> {Whole(content.n), content}
    [] col # "Decimal" /\ IsNumber(content) ->
         {Whole(content.n), content, Other}
           \cup {Whole(m) : m \in Shorter(content.n)}
    [] col # "Decimal" /\ content.tag = "word" -> {content, Other}
    [] OTHER -> {Other} \cup {Whole(n) : n \in Number}

FetchCut ==
  /\ Fetchable
  /\ BufferedKind(cell.col) = "Text" /\ cell.content # Null
  /\ \E content \in Cut(cell.col, cell.content) :
       row' = [kind |-> "Text", content |-> content, cut |-> TRUE]
  /\ at' = "fetched"
  /\ UNCHANGED <<wrote, arg, cell, seen, reads>>

\* The driver cannot convert the value: the fetch ends with its error.
FetchFails ==
  /\ Fetchable
  /\ \/ ~Fits(UnbufferedKind(cell.col), cell.content)
     \/ ~Fits(BufferedKind(cell.col), cell.content)
     \/ cell.col = "Decimal" /\ cell.content # Null  \* whole digits do not fit
  /\ at' = "stored" /\ row' = NoRow
  /\ UNCHANGED <<wrote, arg, cell, seen, reads>>

-----------------------------------------------------------------------------
(* Reading: try_get::<Option<T>>.                                          *)

\* OdbcValueKind::type_info.
ValueType == IF row.kind = "Text" THEN "Varchar" ELSE row.kind

Some(n) == [tag |-> "some", n |-> n]
NONE == [tag |-> "none", n |-> 0]
Error == [tag |-> "error", n |-> 0]

\* as_i64: an integer kind, or a text that says an integer, "42.000" too.
IsInteger ==
  \/ row.kind \in IntColumn
  \/ /\ row.kind = "Text" /\ row.content.tag = "whole"
     /\ row.content.n \in Range["i64"]

\* as_bool.
IsBoolean == row.kind # "Null" /\ row.content.tag # "other"
Truth ==
  IF row.content.n # 0 \/ row.content.tag = "fraction" THEN 1 ELSE 0

\* Mutant: the number is cast to the target type, which keeps its low bits.
DecodeWithCast(T) ==
  IF T = "bool"
  THEN IF IsBoolean THEN Some(Truth) ELSE Error
  ELSE IF IsInteger
       THEN Some(CHOOSE n \in Range[T] :
                   (n - row.content.n) % (2 * Width[TypeInfo[T]] + 2) = 0)
       ELSE Error

\* Decode: as_bool, or as_i64 and try_from.
Decode(T) ==
  IF T = "bool"
  THEN IF IsBoolean THEN Some(Truth) ELSE Error
  ELSE IF IsInteger /\ row.content.n \in Range[T]
       THEN Some(row.content.n) ELSE Error

\* NULL skips the type check and decodes as None.
TryGet(T) ==
  LET out == CASE row.kind = "Null" -> NONE
               [] row.kind # "Null" /\ ~Compatible(T, ValueType) -> Error
               [] OTHER -> Decode(T)
  IN  /\ at = "fetched" /\ reads < MaxReads
      /\ seen' = seen \cup {[type |-> T, cut |-> row.cut, out |-> out]}
      /\ reads' = reads + 1
      /\ UNCHANGED <<at, wrote, arg, cell, row>>

Next ==
  \/ \E T \in Type : \E n \in Range[T] : Add(T, Whole(n))
  \/ \E T \in Type : Add(T, Null)
  \/ \E col \in DataType, unsigned \in BOOLEAN :
       Store(col, unsigned) \/ Existing(col, unsigned)
  \/ Refuse
  \/ FetchUnbuffered \/ FetchBuffered \/ FetchCut \/ FetchFails
  \/ \E T \in Type : TryGet(T)

Spec == Init /\ [][Next]_vars

-----------------------------------------------------------------------------
(* Properties.                                                             *)

\* Every variable has its type: a signed argument and a fetched integer are
\* within their widths.
TypeOK ==
  /\ at \in {"client", "added", "stored", "fetched", "failed"}
  /\ wrote \in [type: Type \cup {"none"}, value: Content]
  /\ arg \in [tag: {"none", "Null", "Bit", "Int", "UInt"}, n: Number,
              type: DataType \cup {"none"}]
  /\ arg.tag = "Int" => arg.n \in Signed(Max64)
  /\ cell \in [col: DataType \cup {"none"}, unsigned: BOOLEAN, content: Content]
  /\ at \in {"stored", "fetched"} => cell.col # "none"
  /\ row \in [kind: DataType \cup {"none", "Null", "Text"},
              content: Content, cut: BOOLEAN]
  /\ row.kind \in IntColumn => row.content.n \in Signed(Width[row.kind])
  /\ seen \subseteq [type: Type, cut: BOOLEAN,
                     out: [tag: {"some", "none", "error"}, n: Number]]
  /\ reads \in 0..MaxReads

Sound(r) == ~r.cut /\ r.out # Error

\* What a client wrote is what everybody reads, whatever the type it was
\* written as, the column, the mode of fetching and the type it is read as:
\* an integer is never wrapped, sign-changed or taken for NULL on its way.
WrittenIsRead ==
  \A r \in seen :
    wrote.type # "none" /\ Sound(r) =>
      CASE wrote.value = Null -> r.out = NONE
        [] wrote.value # Null /\ r.type = "bool" ->
             r.out = Some(IF wrote.value.n # 0 THEN 1 ELSE 0)
        [] OTHER -> r.out = Some(wrote.value.n)

\* Two reads of a cell, in any two modes and as any two types, agree when both
\* return a value, also for rows this crate did not write.
ReadsAgree ==
  \A r, s \in seen :
    Sound(r) /\ Sound(s) =>
      /\ r.out = NONE <=> s.out = NONE
      /\ r.type # "bool" /\ s.type # "bool" => r.out = s.out
      /\ r.type # "bool" /\ s.type = "bool" /\ r.out # NONE
           => s.out = Some(IF r.out.n # 0 THEN 1 ELSE 0)

\* An integer written to a signed column of its own type can be read back as
\* that type in both modes, although they deliver different kinds.
OwnColumnReadable ==
  wrote.type \in IntType /\ cell.col = TypeInfo[wrote.type] /\ ~cell.unsigned
    => \A r \in seen : r.type = wrote.type => r.out # Error

\* A boolean in a BIT column can be read as a boolean: a BIT value is one of
\* those the decoder is tested with.
BitReadsAsBool ==
  \A r \in seen : cell.col = "Bit" /\ r.type = "bool" => r.out # Error

\* Only text and binary values are cut: what is read as an integer from any
\* other column is the number in it.
OnlyTextIsCut ==
  \A r \in seen :
    cell.col # "Varchar" /\ r.type # "bool" /\ r.out.tag = "some"
      => cell.content = Whole(r.out.n)
=============================================================================
