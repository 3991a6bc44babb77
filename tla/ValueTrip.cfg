\* Years of two days of three seconds, minutes of two; i16 years -4..3, four-digit
\* years -2..2.
CONSTANTS
  Days = 2
  DaySeconds = 3
  MinuteSeconds = 2
  TwoDigits = 1
  MaxYear16 = 3
  MaxChrono = 5
  MaxTime = 2
  EpochYear = 1
  FirstYear = 1
  LastYear = 1
  Base = 4
  LocalOffset = 1
  MaxOffset = 2
SPECIFICATION Spec
CHECK_DEADLOCK FALSE
INVARIANTS
  TypeOK
  DateIsRead
  TimeIsRead
  InstantIsRead
  OwnValueIsReadable
  CratesAgree
  
  ContentIsRead
