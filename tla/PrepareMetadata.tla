-------------------------- MODULE PrepareMetadata --------------------------
(***************************************************************************)
(* The metadata part of prepare_blocking: num_params, collect_columns and, *)
(* when a driver does not describe result columns before execution,        *)
(* validate_parameter_metadata.  Every driver call may fail.               *)
(***************************************************************************)
EXTENDS Integers, Sequences

CONSTANTS
  MaxCols,    \* bound: result columns
  MaxParams   \* bound: parameters

ASSUME BoundsAssumption == MaxCols \in Nat /\ MaxParams \in Nat

VARIABLES
  at,           \* the next driver call, or "done"
  parameters,   \* what num_params returned
  count,        \* what num_result_cols returned
  columns,      \* ordinals described so far; in the end, those returned
  checked,      \* parameters described so far
  failed,       \* a driver call about columns failed
  result        \* "none", "ok" or "err"

vars == <<at, parameters, count, columns, checked, failed, result>>

Init ==
  /\ at = "num_params"
  /\ parameters = 0 /\ count = 0 /\ columns = <<>> /\ checked = 0
  /\ failed = FALSE
  /\ result = "none"

Return(r) == at' = "done" /\ result' = r

NumParams ==
  /\ at = "num_params"
  /\ \/ /\ parameters' \in 0..MaxParams
        /\ at' = "num_result_cols"
        /\ UNCHANGED result
     \/ Return("err") /\ UNCHANGED parameters
  /\ UNCHANGED <<count, columns, checked, failed>>

\* Mutant: the columns described before the error are returned.
ColumnErrorKeepsColumns ==
  /\ failed' = TRUE
  /\ IF parameters > 0 THEN at' = "describe_param" /\ UNCHANGED result
                       ELSE Return("err")
  /\ UNCHANGED columns

\* Mutant: every column error counts as deferred metadata.
ColumnErrorAlwaysDeferred ==
  /\ failed' = TRUE
  /\ at' = "describe_param" /\ UNCHANGED result
  /\ columns' = <<>>

\* collect_prepared_columns: an error about columns is final without
\* parameters; with parameters, their description decides.
ColumnError ==
  /\ failed' = TRUE
  /\ IF parameters > 0 THEN at' = "describe_param" /\ UNCHANGED result
                       ELSE Return("err")
  /\ columns' = <<>>

NumResultCols ==
  /\ at = "num_result_cols"
  /\ \/ /\ count' \in 0..MaxCols
        /\ at' = "describe_col"
        /\ UNCHANGED <<columns, failed, result>>
     \/ count' \in {-1, 0} /\ ColumnError      \* a negative count, or a failed call
  /\ UNCHANGED <<parameters, checked>>

DescribeCol ==
  /\ at = "describe_col" /\ Len(columns) < count
  /\ \/ /\ columns' = Append(columns, Len(columns))
        /\ UNCHANGED <<at, failed, result>>
     \/ ColumnError
  /\ UNCHANGED <<parameters, count, checked>>

AllColumns ==
  /\ at = "describe_col" /\ Len(columns) = count
  /\ Return("ok")
  /\ UNCHANGED <<parameters, count, columns, checked, failed>>

\* validate_parameter_metadata, for index in 1..=parameter_count.
DescribeParam ==
  /\ at = "describe_param" /\ checked < parameters
  /\ \/ checked' = checked + 1 /\ UNCHANGED <<at, result>>
     \/ Return("err") /\ UNCHANGED checked
  /\ UNCHANGED <<parameters, count, columns, failed>>

Deferred ==
  /\ at = "describe_param" /\ checked = parameters
  /\ Return("ok")
  /\ UNCHANGED <<parameters, count, columns, checked, failed>>

Done == at = "done" /\ UNCHANGED vars

Next ==
  \/ NumParams \/ NumResultCols \/ DescribeCol \/ AllColumns
  \/ DescribeParam \/ Deferred \/ Done

Spec == Init /\ [][Next]_vars

-----------------------------------------------------------------------------

\* A statement is prepared with all the columns the driver counted, in order,
\* or with none at all: an error half way never leaves a partial list.
AllColumnsOrNone ==
  result = "ok" =>
    \/ ~failed /\ columns = [i \in 1..count |-> i - 1]
    \/ failed /\ columns = <<>>

\* A column error is forgiven only when the driver described every one of at
\* least one parameter, so an unusable statement is not mistaken for a
\* deferred one.
DeferralIsValidated ==
  result = "ok" /\ failed => parameters > 0 /\ checked = parameters

\* What the test prepare_missing_table_does_not_return_empty_metadata asserts:
\* prepare must not turn a metadata error into zero columns.
ErrorIsNotZeroColumns ==
  result = "ok" /\ columns = <<>> => ~failed
=============================================================================
