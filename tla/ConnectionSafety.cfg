\* Two cached statements among three texts, three overlapping executions.
CONSTANTS
  q1 = q1
  q2 = q2
  q3 = q3
  Sql = {q1, q2, q3}
  CacheSize = 2
  ChanSize = 1
  MaxItems = 2
  MaxExec = 3
  MaxStmt = 4
SPECIFICATION Spec
SYMMETRY SqlSymmetry
INVARIANTS
  TypeOK
  CacheSound
  OneUserPerStatement
  FailedPrepareIsForgotten
  PoisonIsContained
