------------------------- MODULE IntegerTripProofs -------------------------
(***************************************************************************)
(* Proofs about IntegerTrip for every width and every number of reads:     *)
(* what was written is what is read, and reads of one cell agree.          *)
(***************************************************************************)
EXTENDS IntegerTrip, TLAPS

-----------------------------------------------------------------------------
(* Widths and contents.                                                    *)

\* Every value of a Rust type is a number, and all but u64 fit in an i64.
LEMMA Ranges ==
  /\ \A T \in Type : Range[T] \subseteq Number
  /\ \A T \in Type \ {"u64"} : Range[T] \subseteq Signed(Max64)
  /\ Signed(Max64) \subseteq Number
  /\ 0 \in Number /\ 1 \in Number
  /\ 0..1 \subseteq Number
<1>1. Type = {"i8", "i16", "i32", "i64", "u8", "u16", "u32", "u64", "bool"}
  BY DEF Type, Range
<1>2. /\ Range["i8"] = Signed(Max8) /\ Range["u8"] = Unsigned(Max8)
      /\ Range["i16"] = Signed(Max16) /\ Range["u16"] = Unsigned(Max16)
      /\ Range["i32"] = Signed(Max32) /\ Range["u32"] = Unsigned(Max32)
      /\ Range["i64"] = Signed(Max64) /\ Range["u64"] = Unsigned(Max64)
      /\ Range["bool"] = 0..1
  BY DEF Range
<1>3. /\ {Max8, Max16, Max32, Max64} \subseteq Nat \ {0}
      /\ 2 * Max8 < Max16 /\ 2 * Max16 < Max32 /\ 2 * Max32 < Max64
  BY WidthAssumption
<1>4. \A max \in {Max8, Max16, Max32} :
        /\ Signed(max) \subseteq Signed(Max64)
        /\ Unsigned(max) \subseteq Signed(Max64)
  BY <1>3 DEF Signed, Unsigned
<1>5. Signed(Max64) \subseteq Number /\ Unsigned(Max64) \subseteq Number
  BY <1>3 DEF Signed, Unsigned, Number
<1>6. 0..1 \subseteq Signed(Max64) /\ 0 \in Number /\ 1 \in Number
  BY <1>3 DEF Signed, Number
<1>7. \A T \in Type \ {"u64"} : Range[T] \subseteq Signed(Max64)
  BY <1>1, <1>2, <1>4, <1>6
<1> QED BY <1>1, <1>2, <1>5, <1>6, <1>7

\* Every value of an integer column is a number; a signed one fits in an i64.
LEMMA Columns ==
  \A col \in IntColumn :
    /\ Signed(Width[col]) \subseteq Signed(Max64)
    /\ Signed(Width[col]) \subseteq Number
    /\ Unsigned(Width[col]) \subseteq Number
BY WidthAssumption DEF IntColumn, Width, Signed, Unsigned, Number

\* Contents are told apart by their tags and numbers.
LEMMA Contents ==
  /\ Null \in Content /\ Other \in Content
  /\ \A n \in Number : Whole(n) \in Content
  /\ \A c \in Content :
       /\ c.n \in Number
       /\ c.tag \in {"null", "whole", "fraction", "word", "other"}
       /\ c.tag = "null" => c = Null
       /\ c.tag = "whole" => c = Whole(c.n)
<1>1. /\ Null \in Content /\ Other \in Content
      /\ \A n \in Number : Whole(n) \in Content
  BY DEF Content
<1>2. ASSUME NEW c \in Content
      PROVE  /\ c.n \in Number
             /\ c.tag \in {"null", "whole", "fraction", "word", "other"}
             /\ c.tag = "null" => c = Null
             /\ c.tag = "whole" => c = Whole(c.n)
  BY Ranges DEF Content, Null, Other, Whole, Fraction, Word
<1> QED BY <1>1, <1>2

\* What is left of a content is a content, never NULL.
LEMMA CutContents ==
  ASSUME NEW col \in DataType, NEW content \in Content, content # Null
  PROVE  Cut(col, content) \subseteq Content
BY Contents, Ranges DEF Cut, Shorter, IsNumber

\* A fetch of an integer column yields an integer kind within its width.
LEMMA FetchedKind ==
  ASSUME NEW col \in DataType, NEW content \in Content,
         NEW kind \in {UnbufferedKind(col), BufferedKind(col)},
         Fits(kind, content)
  PROVE  /\ KindOf(kind, content) \in DataType \cup {"Null", "Text"}
         /\ KindOf(kind, content) = "Null" <=> content = Null
         /\ KindOf(kind, content) \in IntColumn =>
              col \in IntColumn /\ content.n \in Signed(Width[kind])
         /\ KindOf(kind, content) \in {kind, "Null"}
BY DEF UnbufferedKind, BufferedKind, KindOf, Fits, DataType, IntColumn

-----------------------------------------------------------------------------
(* Type correctness.                                                       *)

\* Encoding keeps the number; a signed argument fits in an i64.
LEMMA Encoded ==
  ASSUME NEW T \in Type,
         NEW value \in {Null} \cup {Whole(n) : n \in Range[T]}
  PROVE  LET e == Encode(T, value)
         IN  /\ e \in [tag: {"none", "Null", "Bit", "Int", "UInt"},
                       n: Number, type: DataType \cup {"none"}]
             /\ e.tag = "Int" => e.n \in Signed(Max64)
             /\ value = (IF e.tag = "Null" THEN Null ELSE Whole(e.n))
<1>1. CASE value = Null
  <2>1. TypeInfo[T] \in DataType
    BY DEF Type, Range, TypeInfo, DataType, IntColumn
  <2> QED BY <1>1, <2>1, Ranges DEF Encode, NullArg
<1>2. ASSUME NEW n \in Range[T], value = Whole(n)
      PROVE  LET e == Encode(T, value)
             IN  /\ e \in [tag: {"none", "Null", "Bit", "Int", "UInt"},
                           n: Number, type: DataType \cup {"none"}]
                 /\ e.tag = "Int" => e.n \in Signed(Max64)
                 /\ value = (IF e.tag = "Null" THEN Null ELSE Whole(e.n))
  <2>1. value # Null /\ value.n = n /\ n \in Number
    BY <1>2, Ranges DEF Whole, Null
  <2>2. CASE T = "bool"
    BY <1>2, <2>1, <2>2 DEF Encode, Arg
  <2>3. CASE T = "u64" /\ n > Max64
    BY <1>2, <2>1, <2>3 DEF Encode, Arg
  <2>4. CASE T # "bool" /\ ~(T = "u64" /\ n > Max64)
    <3>1. CASE T = "u64"
      <4>1. n \in Unsigned(Max64) /\ n <= Max64 /\ Max64 \in Nat
        BY <1>2, <2>4, <3>1, WidthAssumption DEF Range, Unsigned
      <4>2. n \in Signed(Max64)
        BY <4>1 DEF Unsigned, Signed
      <4> QED BY <1>2, <2>1, <2>4, <3>1, <4>2 DEF Encode, Arg
    <3>2. CASE T # "u64"
      <4>1. n \in Signed(Max64)
        BY <1>2, <3>2, Ranges
      <4> QED BY <1>2, <2>1, <2>4, <3>2, <4>1 DEF Encode, Arg
    <3> QED BY <3>1, <3>2
  <2> QED BY <2>2, <2>3, <2>4
<1> QED BY <1>1, <1>2

\* What is decoded is a number.
LEMMA Decoded ==
  ASSUME NEW T \in Type
  PROVE  /\ Decode(T) \in [tag: {"some", "none", "error"}, n: Number]
         /\ NONE \in [tag: {"some", "none", "error"}, n: Number]
         /\ Error \in [tag: {"some", "none", "error"}, n: Number]
BY Ranges DEF Decode, Some, NONE, Error, Truth

\* Every reachable state of a trip is well typed.
THEOREM Typing == Spec => []TypeOK
<1>1. Init => TypeOK
  BY Ranges, Contents, ReadsAssumption
     DEF Init, TypeOK, NoWrite, NoArg, NoCell, NoRow, IntColumn
<1>2. TypeOK /\ [Next]_vars => TypeOK'
  <2> SUFFICES ASSUME TypeOK, [Next]_vars PROVE TypeOK'
    OBVIOUS
  <2>1. ASSUME NEW T \in Type,
               NEW value \in {Null} \cup {Whole(n) : n \in Range[T]},
               Add(T, value)
        PROVE  TypeOK'
    <3>1. value \in Content
      BY Contents, Ranges
    <3> QED BY <2>1, <3>1, Encoded DEF Add, TypeOK
  <2>2. ASSUME NEW col \in DataType, NEW unsigned \in BOOLEAN,
               Store(col, unsigned) \/ Existing(col, unsigned)
        PROVE  TypeOK'
    <3>1. Holds(col, unsigned) \subseteq Content /\ col # "none"
      BY DEF Holds, DataType, IntColumn
    <3>2. cell' \in [col: DataType \cup {"none"}, unsigned: BOOLEAN,
                     content: Content]
      BY <2>2, <3>1 DEF Store, Existing
    <3>3. cell'.col = col
      BY <2>2 DEF Store, Existing
    <3> QED BY <2>2, <3>1, <3>2, <3>3 DEF Store, Existing, TypeOK
  <2>3. CASE Refuse
    BY <2>3 DEF Refuse, TypeOK
  <2>4. at \in {"stored", "fetched"} =>
          cell.col \in DataType /\ cell.content \in Content /\ cell.col # "none"
    BY DEF TypeOK
  <2>5. ASSUME NEW kind \in {UnbufferedKind(cell.col), BufferedKind(cell.col)},
               Fetchable, Fits(kind, cell.content), at' = "fetched",
               row' = [kind |-> KindOf(kind, cell.content),
                       content |-> cell.content, cut |-> FALSE],
               UNCHANGED <<wrote, arg, cell, seen, reads>>
        PROVE  TypeOK'
    <3>1. cell.col \in DataType /\ cell.content \in Content /\ cell.col # "none"
      BY <2>4, <2>5 DEF Fetchable
    <3>2. /\ KindOf(kind, cell.content) \in DataType \cup {"Null", "Text"}
          /\ KindOf(kind, cell.content) \in IntColumn =>
               /\ KindOf(kind, cell.content) = kind
               /\ cell.content.n \in Signed(Width[kind])
      BY <2>5, <3>1, FetchedKind DEF DataType, IntColumn
    <3> QED BY <2>5, <3>1, <3>2 DEF TypeOK
  <2>6. CASE FetchUnbuffered \/ FetchBuffered
    BY <2>5, <2>6 DEF FetchUnbuffered, FetchBuffered
  <2>7. CASE FetchCut
    <3>1. cell.col \in DataType /\ cell.content \in Content /\ cell.col # "none"
      BY <2>4, <2>7 DEF FetchCut, Fetchable
    <3>2. PICK content \in Cut(cell.col, cell.content) :
            row' = [kind |-> "Text", content |-> content, cut |-> TRUE]
      BY <2>7 DEF FetchCut
    <3>3. content \in Content
      BY <2>7, <3>1, <3>2, CutContents DEF FetchCut
    <3> QED BY <2>7, <3>1, <3>2, <3>3 DEF FetchCut, TypeOK, IntColumn
  <2>8. CASE FetchFails
    BY <2>4, <2>8, Contents
       DEF FetchFails, Fetchable, TypeOK, NoRow, IntColumn, DataType
  <2>9. ASSUME NEW T \in Type, TryGet(T) PROVE TypeOK'
    <3>1. PICK out \in [tag: {"some", "none", "error"}, n: Number] :
            seen' = seen \cup {[type |-> T, cut |-> row.cut, out |-> out]}
      BY <2>9, Decoded DEF TryGet
    <3>2. reads' \in 0..MaxReads
      BY <2>9, ReadsAssumption DEF TryGet, TypeOK
    <3> QED BY <2>9, <3>1, <3>2 DEF TryGet, TypeOK
  <2>10. CASE UNCHANGED vars
    BY <2>10 DEF vars, TypeOK
  <2> QED BY <2>1, <2>2, <2>3, <2>6, <2>7, <2>8, <2>9, <2>10 DEF Next
<1> QED BY <1>1, <1>2, PTL DEF Spec

-----------------------------------------------------------------------------
(* What is written is what is read.                                        *)

Truthful(content) == IF content.n # 0 \/ content.tag = "fraction" THEN 1 ELSE 0

\* A sound read says what is in the cell.
SaysCell(r) ==
  Sound(r) =>
    /\ r.out = NONE <=> cell.content = Null
    /\ r.out # NONE /\ r.type = "bool" =>
         r.out = Some(Truthful(cell.content))
    /\ r.out # NONE /\ r.type # "bool" =>
         /\ r.out = Some(r.out.n)
         /\ cell.content = Whole(r.out.n)

\* The row is the cell, unless it was cut.
RowOfCell ==
  at = "fetched" =>
    /\ row.kind # "none"
    /\ row.kind = "Null" <=> cell.content = Null
    /\ ~row.cut => row.content = cell.content
    /\ row.kind \in IntColumn => row.content.tag = "whole" /\ ~row.cut

\* The cell holds what was written.
CellOfWrite ==
  /\ at = "client" => wrote = NoWrite
  /\ at = "added" => Parameter = wrote.value
  /\ at \in {"stored", "fetched"} =>
       /\ cell.content \in Holds(cell.col, cell.unsigned)
       /\ wrote.type # "none" => cell.content = wrote.value
  /\ wrote.type # "none" => wrote.value.tag \in {"null", "whole"}
  /\ at \notin {"stored", "fetched"} => seen = {}

TripInv ==
  /\ TypeOK /\ CellOfWrite /\ RowOfCell
  /\ \A r \in seen : SaysCell(r)

\* A sound outcome of reading the row says what is in the cell.
LEMMA ReadsCell ==
  ASSUME TypeOK, RowOfCell, at = "fetched", NEW T \in Type, NEW out,
         out = (CASE row.kind = "Null" -> NONE
                  [] row.kind # "Null" /\ ~Compatible(T, ValueType) -> Error
                  [] OTHER -> Decode(T))
  PROVE  SaysCell([type |-> T, cut |-> row.cut, out |-> out])
<1> SUFFICES ASSUME ~row.cut, out # Error
             PROVE  /\ out = NONE <=> cell.content = Null
                    /\ out # NONE /\ T = "bool" =>
                         out = Some(Truthful(cell.content))
                    /\ out # NONE /\ T # "bool" =>
                         out = Some(out.n) /\ cell.content = Whole(out.n)
  BY DEF SaysCell, Sound
<1>1. row.content = cell.content /\ (row.kind = "Null" <=> cell.content = Null)
  BY DEF RowOfCell
<1>2. CASE row.kind = "Null"
  BY <1>1, <1>2
<1>3. CASE row.kind # "Null"
  <2>1. out = Decode(T)
    BY <1>3
  <2>2. CASE T = "bool"
    BY <1>1, <1>3, <2>1, <2>2
       DEF Decode, Some, NONE, Error, Truth, Truthful
  <2>3. CASE T # "bool"
    <3>1. IsInteger /\ out = Some(row.content.n)
      BY <2>1, <2>3 DEF Decode
    <3>2. row.content.tag = "whole" /\ row.content \in Content
      BY <3>1 DEF IsInteger, RowOfCell, TypeOK
    <3>3. row.content = Whole(row.content.n)
      BY <3>2, Contents
    <3> QED BY <1>1, <1>3, <2>3, <3>1, <3>3 DEF Some, NONE
  <2> QED BY <2>2, <2>3
<1> QED BY <1>2, <1>3

\* The invariant that ties the value written, the cell, the row and the reads
\* together holds in every reachable state.
THEOREM Inductive == Spec => []TripInv
<1>1. Init => TripInv
  <2> SUFFICES ASSUME Init PROVE CellOfWrite /\ RowOfCell /\ seen = {} /\ TypeOK
    BY DEF TripInv
  <2>1. TypeOK
    BY Ranges, Contents, ReadsAssumption
       DEF Init, TypeOK, NoWrite, NoArg, NoCell, NoRow, IntColumn
  <2> QED BY <2>1 DEF Init, CellOfWrite, RowOfCell, NoWrite
<1>2. TripInv /\ TypeOK' /\ [Next]_vars => TripInv'
  <2> SUFFICES ASSUME TripInv, TypeOK', [Next]_vars
               PROVE  /\ CellOfWrite' /\ RowOfCell'
                      /\ \A r \in seen' : SaysCell(r)'
    BY DEF TripInv
  <2> USE DEF TripInv
  <2>1. ASSUME NEW T \in Type,
               NEW value \in {Null} \cup {Whole(n) : n \in Range[T]},
               Add(T, value)
        PROVE  TripInv'
    <3>1. Parameter' = wrote'.value
      BY <2>1, Encoded DEF Add, Parameter
    <3>2. value.tag \in {"null", "whole"}
      BY <2>1 DEF Null, Whole
    <3> QED BY <2>1, <3>1, <3>2 DEF Add, CellOfWrite, RowOfCell
  <2>2. ASSUME NEW col \in DataType, NEW unsigned \in BOOLEAN,
               Store(col, unsigned) \/ Existing(col, unsigned)
        PROVE  TripInv'
    <3>1. cell'.content \in Holds(cell'.col, cell'.unsigned)
      BY <2>2 DEF Store, Existing
    <3>2. wrote'.type # "none" => cell'.content = wrote'.value
      BY <2>2 DEF Store, Existing, CellOfWrite, NoWrite
    <3> QED BY <2>2, <3>1, <3>2 DEF Store, Existing, CellOfWrite, RowOfCell
  <2>3. CASE Refuse
    BY <2>3 DEF Refuse, CellOfWrite, RowOfCell
  <2>4. ASSUME at \in {"stored", "fetched"}, at' \in {"stored", "fetched"},
               RowOfCell', UNCHANGED <<wrote, arg, cell, seen, reads>>
        PROVE  TripInv'
    <3>1. CellOfWrite'
      BY <2>4 DEF CellOfWrite, Holds
    <3>2. \A r \in seen' : SaysCell(r)'
      BY <2>4 DEF SaysCell
    <3> QED BY <2>4, <3>1, <3>2
  <2>5. ASSUME NEW kind \in {UnbufferedKind(cell.col), BufferedKind(cell.col)},
               Fetchable, Fits(kind, cell.content), at' = "fetched",
               row' = [kind |-> KindOf(kind, cell.content),
                       content |-> cell.content, cut |-> FALSE],
               UNCHANGED <<wrote, arg, cell, seen, reads>>
        PROVE  TripInv'
    <3>1. /\ cell.col \in DataType /\ cell.content \in Content
          /\ cell.content \in Holds(cell.col, cell.unsigned)
      BY <2>5 DEF Fetchable, TypeOK, CellOfWrite
    <3>2. /\ KindOf(kind, cell.content) \in DataType \cup {"Null", "Text"}
          /\ KindOf(kind, cell.content) = "Null" <=> cell.content = Null
          /\ KindOf(kind, cell.content) \in IntColumn => cell.col \in IntColumn
      BY <2>5, <3>1, FetchedKind
    <3>3. KindOf(kind, cell.content) \in IntColumn => cell.content.tag = "whole"
      BY <3>1, <3>2 DEF Holds, IntColumn
    <3>4. RowOfCell'
      BY <2>5, <3>2, <3>3 DEF RowOfCell, DataType, IntColumn
    <3> QED BY <2>4, <2>5, <3>4 DEF Fetchable
  <2>6. CASE FetchUnbuffered \/ FetchBuffered
    BY <2>5, <2>6 DEF FetchUnbuffered, FetchBuffered
  <2>7. CASE FetchCut
    <3>1. RowOfCell'
      BY <2>7 DEF FetchCut, RowOfCell, IntColumn
    <3> QED BY <2>4, <2>7, <3>1 DEF FetchCut, Fetchable
  <2>8. CASE FetchFails
    <3>1. RowOfCell'
      BY <2>8 DEF FetchFails, RowOfCell
    <3> QED BY <2>4, <2>8, <3>1 DEF FetchFails, Fetchable
  <2>9. ASSUME NEW T \in Type, TryGet(T) PROVE TripInv'
    <3>1. PICK out :
            /\ out = (CASE row.kind = "Null" -> NONE
                        [] row.kind # "Null" /\ ~Compatible(T, ValueType)
                             -> Error
                        [] OTHER -> Decode(T))
            /\ seen' = seen \cup {[type |-> T, cut |-> row.cut, out |-> out]}
      BY <2>9 DEF TryGet
    <3>2. SaysCell([type |-> T, cut |-> row.cut, out |-> out])
      BY <2>9, <3>1, ReadsCell DEF TryGet
    <3>3. \A r \in seen' : SaysCell(r)'
      BY <2>9, <3>1, <3>2 DEF TryGet, SaysCell
    <3>4. CellOfWrite' /\ RowOfCell'
      BY <2>9 DEF TryGet, CellOfWrite, RowOfCell, Holds
    <3> QED BY <3>3, <3>4
  <2>10. CASE UNCHANGED vars
    BY <2>10 DEF vars, CellOfWrite, RowOfCell, SaysCell, Parameter, Holds
  <2> QED BY <2>1, <2>2, <2>3, <2>6, <2>7, <2>8, <2>9, <2>10 DEF Next
<1> QED BY <1>1, <1>2, Typing, PTL DEF Spec

\* What a client wrote is what everybody reads: no width, column, mode of
\* fetching or target type wraps an integer or loses a NULL.
THEOREM WriteSafe == Spec => []WrittenIsRead
<1>1. TripInv => WrittenIsRead
  <2> SUFFICES ASSUME TripInv, NEW r \in seen, wrote.type # "none", Sound(r)
               PROVE  CASE wrote.value = Null -> r.out = NONE
                        [] wrote.value # Null /\ r.type = "bool" ->
                             r.out = Some(IF wrote.value.n # 0 THEN 1 ELSE 0)
                        [] OTHER -> r.out = Some(wrote.value.n)
    BY DEF WrittenIsRead
  <2>1. SaysCell(r) /\ cell.content = wrote.value
    BY DEF TripInv, CellOfWrite
  <2>2. wrote.value.tag \in {"null", "whole"} /\ wrote.value \in Content
    BY DEF TripInv, CellOfWrite, TypeOK
  <2>3. CASE wrote.value = Null
    BY <2>1, <2>3 DEF SaysCell
  <2>4. CASE wrote.value # Null
    <3>1. wrote.value.tag = "whole"
      BY <2>2, <2>4, Contents
    <3> QED BY <2>1, <2>4, <3>1 DEF SaysCell, Truthful, Whole
  <2> QED BY <2>3, <2>4
<1> QED BY <1>1, Inductive, PTL

\* Two reads of a cell agree, in any modes and as any types.
THEOREM ReadsSafe == Spec => []ReadsAgree
<1>1. TripInv => ReadsAgree
  <2> SUFFICES ASSUME TripInv, NEW r \in seen, NEW s \in seen,
                      Sound(r), Sound(s)
               PROVE  /\ r.out = NONE <=> s.out = NONE
                      /\ r.type # "bool" /\ s.type # "bool" => r.out = s.out
                      /\ r.type # "bool" /\ s.type = "bool" /\ r.out # NONE
                           => s.out = Some(IF r.out.n # 0 THEN 1 ELSE 0)
    BY DEF ReadsAgree
  <2>1. SaysCell(r) /\ SaysCell(s)
    BY DEF TripInv
  <2>2. r.out = NONE <=> s.out = NONE
    BY <2>1 DEF SaysCell
  <2>3. CASE r.out = NONE
    BY <2>2, <2>3
  <2>4. CASE r.out # NONE
    <3>1. CASE r.type # "bool" /\ s.type # "bool"
      <4>1. Whole(r.out.n) = Whole(s.out.n)
        BY <2>1, <2>2, <2>4, <3>1 DEF SaysCell
      <4>2. r.out.n = s.out.n
        BY <4>1 DEF Whole
      <4>3. r.out = Some(r.out.n) /\ s.out = Some(s.out.n)
        BY <2>1, <2>2, <2>4, <3>1 DEF SaysCell
      <4> QED BY <2>2, <3>1, <4>2, <4>3
    <3>2. CASE r.type # "bool" /\ s.type = "bool"
      <4>1. cell.content = Whole(r.out.n)
        BY <2>1, <2>4, <3>2 DEF SaysCell
      <4>2. Truthful(cell.content) = (IF r.out.n # 0 THEN 1 ELSE 0)
        BY <4>1 DEF Truthful, Whole
      <4>3. s.out = Some(Truthful(cell.content))
        BY <2>1, <2>2, <2>4, <3>2 DEF SaysCell
      <4> QED BY <2>2, <3>2, <4>2, <4>3
    <3> QED BY <2>2, <3>1, <3>2
  <2> QED BY <2>3, <2>4
<1> QED BY <1>1, Inductive, PTL

-----------------------------------------------------------------------------
(* A column of the type's own can be read back.                            *)

\* The value written is one of its type, and is fetched from a column of that
\* type in its own kind or as a BIGINT.
Own == wrote.type \in IntType /\ cell.col = TypeInfo[wrote.type] /\ ~cell.unsigned

OwnInv ==
  /\ wrote.type # "none" =>
       wrote.value \in {Null} \cup {Whole(n) : n \in Range[wrote.type]}
  /\ Own /\ at = "fetched" => row.kind \in {cell.col, "BigInt", "Null"}
  /\ OwnColumnReadable

\* Each integer type accepts the kinds in which its own column is fetched.
LEMMA OwnKinds ==
  ASSUME NEW T \in IntType
  PROVE  /\ T \in Type /\ T # "bool" /\ T # "none"
         /\ TypeInfo[T] \in IntColumn /\ "BigInt" \in IntColumn
         /\ Compatible(T, TypeInfo[T]) /\ Compatible(T, "BigInt")
<1>1. IntType = {"i8", "i16", "i32", "i64", "u8", "u16", "u32", "u64"}
  BY DEF IntType, Type, Range
<1>2. \A U \in IntType : U \in Type /\ U # "bool" /\ U # "none"
  BY <1>1 DEF IntType
<1>3. \A U \in IntType : TypeInfo[U] \in IntColumn /\ TypeInfo[U] \in Accepts[U]
  BY <1>1 DEF TypeInfo, IntColumn, Accepts
<1>4. \A U \in IntType : "BigInt" \in Accepts[U]
  BY <1>1 DEF IntColumn, Accepts
<1> QED
  BY <1>2, <1>3, <1>4 DEF Compatible, IntColumn

LEMMA OwnStep == ASSUME TripInv, OwnInv, TypeOK', [Next]_vars PROVE OwnInv'
<1> USE DEF TripInv
<1>1. ASSUME NEW T \in Type, NEW value \in {Null} \cup {Whole(n) : n \in Range[T]},
             Add(T, value)
      PROVE  OwnInv'
  <2>1. at' = "added" /\ wrote'.type = T /\ wrote'.value = value
    BY <1>1 DEF Add
  <2>2. seen' = {}
    BY <1>1 DEF Add, CellOfWrite
  <2> QED
    BY <2>1, <2>2 DEF OwnInv, Own, OwnColumnReadable
<1>2. ASSUME NEW col \in DataType, NEW unsigned \in BOOLEAN,
             Store(col, unsigned) \/ Existing(col, unsigned)
      PROVE  OwnInv'
  <2>1. at' = "stored" /\ seen' = {} /\ UNCHANGED wrote
    BY <1>2 DEF Store, Existing, CellOfWrite
  <2> QED
    BY <2>1 DEF OwnInv, Own, OwnColumnReadable
<1>3. CASE Refuse
  BY <1>3 DEF Refuse, OwnInv, Own, OwnColumnReadable
<1>4. ASSUME FetchUnbuffered \/ FetchBuffered \/ FetchCut PROVE OwnInv'
  <2>1. /\ UNCHANGED <<wrote, cell, seen>> /\ at' = "fetched"
    BY <1>4 DEF FetchUnbuffered, FetchBuffered, FetchCut
  <2>2. ASSUME Own PROVE row'.kind \in {cell.col, "BigInt", "Null"}
    <3>1. cell.col \in IntColumn
      BY <2>2, OwnKinds DEF Own
    <3> QED
      BY <1>4, <3>1 DEF FetchUnbuffered, FetchBuffered, FetchCut, UnbufferedKind,
                        BufferedKind, KindOf, IntColumn
  <2> QED
    BY <2>1, <2>2 DEF OwnInv, Own, OwnColumnReadable
<1>5. CASE FetchFails
  BY <1>5 DEF FetchFails, OwnInv, Own, OwnColumnReadable
<1>6. ASSUME NEW T \in Type, TryGet(T) PROVE OwnInv'
  <2>1. PICK out :
          /\ out = (CASE row.kind = "Null" -> NONE
                      [] row.kind # "Null" /\ ~Compatible(T, ValueType) -> Error
                      [] OTHER -> Decode(T))
          /\ seen' = seen \cup {[type |-> T, cut |-> row.cut, out |-> out]}
    BY <1>6 DEF TryGet
  <2>2. UNCHANGED <<at, wrote, cell, row>> /\ at = "fetched"
    BY <1>6 DEF TryGet
  <2>3. ASSUME Own, T = wrote.type PROVE out # Error
    <3>1. /\ T # "bool" /\ T # "none" /\ row.kind \in IntColumn \cup {"Null"}
          /\ row.kind # "Null" => Compatible(T, row.kind)
      BY <2>2, <2>3, OwnKinds DEF Own, OwnInv
    <3>2. CASE row.kind = "Null"
      BY <2>1, <3>2 DEF NONE, Error
    <3>3. CASE row.kind # "Null"
      <4>1. row.kind \in IntColumn /\ ValueType = row.kind
        BY <3>1, <3>3 DEF ValueType, IntColumn
      <4>2. row.content = wrote.value /\ wrote.value # Null
        BY <2>2, <2>3, <3>1, <3>3 DEF CellOfWrite, RowOfCell
      <4>3. row.content.n \in Range[T]
        BY <2>3, <3>1, <4>2 DEF OwnInv, Whole
      <4>4. out = Some(row.content.n)
        BY <2>1, <3>1, <3>3, <4>1, <4>3 DEF Decode, IsInteger
      <4> QED
        BY <4>4 DEF Some, Error
    <3> QED
      BY <3>2, <3>3
  <2> QED
    BY <2>1, <2>2, <2>3 DEF OwnInv, Own, OwnColumnReadable
<1>7. CASE UNCHANGED vars
  BY <1>7 DEF vars, OwnInv, Own, OwnColumnReadable
<1>8. CASE \E T \in Type : (\E n \in Range[T] : Add(T, Whole(n))) \/ Add(T, Null)
  BY <1>1, <1>8
<1> QED
  BY <1>2, <1>3, <1>4, <1>5, <1>6, <1>7, <1>8 DEF Next

\* What is written to a signed column of its own type can be read back as that
\* type, whatever the mode it is fetched in.
THEOREM OwnColumnSafe == Spec => []OwnColumnReadable
<1>1. Init => OwnInv
  BY DEF Init, OwnInv, Own, OwnColumnReadable, NoWrite, NoCell
<1>2. TripInv /\ TypeOK' /\ OwnInv /\ [Next]_vars => OwnInv'
  BY OwnStep
<1>3. OwnInv => OwnColumnReadable
  BY DEF OwnInv
<1> QED
  BY <1>1, <1>2, <1>3, Inductive, Typing, PTL DEF Spec
=============================================================================
