\* Rows, results, errors and early drops through a channel of two items.
CONSTANTS
  Scripts <- MCScripts
  Capacity = 2
  BatchSize = 2
SPECIFICATION LiveSpec
INVARIANTS
  TypeOK
  InOrder
  NoSilentTruncation
  EndMeansReleased
  NoneMeansNoRow
PROPERTIES
  AbandonedRowsNotRead
  ImplementsRowStream
  WorkerFinishesUnlessHeld
  DropReleases
  PollingEnds
