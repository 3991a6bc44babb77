\* The widths of IntegerTrip.cfg; one read is enough.
CONSTANTS
  Max8 = 1
  Max16 = 3
  Max32 = 7
  Max64 = 15
  MaxReads = 1
SPECIFICATION Spec
CHECK_DEADLOCK FALSE
INVARIANT
  OnlyTextIsCut
