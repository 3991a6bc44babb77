\* Widths of two to five bits; two reads of every cell.
CONSTANTS
  Max8 = 1
  Max16 = 3
  Max32 = 7
  Max64 = 15
  MaxReads = 2
SPECIFICATION Spec
CHECK_DEADLOCK FALSE
INVARIANTS
  TypeOK
  WrittenIsRead
  ReadsAgree
  OwnColumnReadable
