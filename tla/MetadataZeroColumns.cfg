\* The zero-columns claim of the tests.
CONSTANTS
  MaxCols = 1
  MaxParams = 1
SPECIFICATION Spec
INVARIANTS
  ErrorIsNotZeroColumns
