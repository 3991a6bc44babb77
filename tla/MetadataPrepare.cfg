\* Every outcome of the metadata calls for up to four columns and parameters.
CONSTANTS
  MaxCols = 4
  MaxParams = 4
SPECIFICATION Spec
INVARIANTS
  AllColumnsOrNone
  DeferralIsValidated
