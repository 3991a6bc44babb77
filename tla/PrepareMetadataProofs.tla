------------------------ MODULE PrepareMetadataProofs ------------------------
(***************************************************************************)
(* The properties of PrepareMetadata for any number of columns and         *)
(* parameters.                                                             *)
(***************************************************************************)
EXTENDS PrepareMetadata, TLAPS

Typed ==
  /\ parameters \in Nat /\ count \in Int /\ checked \in Nat
  /\ columns \in Seq(Nat)
  /\ failed \in BOOLEAN

\* The columns described so far are the first ones; an error forgets them and
\* goes on only to describe the parameters, of which there are some.
IInv ==
  /\ Typed
  /\ \/ columns = <<>>
     \/ ~failed /\ at \in {"describe_col", "done"}
  /\ \A i \in 1..Len(columns) : columns[i] = i - 1
  /\ at = "describe_col" => count >= 0 /\ Len(columns) <= count /\ ~failed
  /\ at = "num_params" => ~failed /\ result = "none"
  /\ at = "num_result_cols" => ~failed /\ columns = <<>> /\ result = "none"
  /\ at = "describe_col" => result = "none"
  /\ at = "describe_param" => /\ failed /\ columns = <<>> /\ result = "none"
                              /\ parameters > 0
  /\ AllColumnsOrNone /\ DeferralIsValidated

\* The inductive invariant holds in every reachable state.
THEOREM Inductive == Spec => []IInv
<1>1. Init => IInv
  <2> SUFFICES ASSUME Init PROVE IInv
    OBVIOUS
  <2>1. columns = <<>> /\ columns \in Seq(Nat) /\ Len(columns) = 0
    BY DEF Init
  <2>2. AllColumnsOrNone /\ DeferralIsValidated
    BY DEF Init, AllColumnsOrNone, DeferralIsValidated
  <2>3. Typed
    <3>1. failed \in BOOLEAN
      BY Zenon DEF Init
    <3> QED
      BY <2>1, <3>1 DEF Init, Typed
  <2>4. \A i \in 1..Len(columns) : columns[i] = i - 1
    BY <2>1
  <2> QED
    BY <2>1, <2>2, <2>3, <2>4 DEF Init, IInv
<1>2. IInv /\ [Next]_vars => IInv'
  <2> SUFFICES ASSUME IInv, [Next]_vars PROVE IInv'
    OBVIOUS
  <2>a. Typed /\ MaxCols \in Nat /\ MaxParams \in Nat
    BY BoundsAssumption DEF IInv
  <2>b. ASSUME ColumnError, at \in {"num_result_cols", "describe_col"},
               count' \in Int, UNCHANGED <<parameters, checked>>
        PROVE  IInv'
    <3>1. columns' = <<>> /\ columns' \in Seq(Nat) /\ Len(columns') = 0
      BY <2>b DEF ColumnError
    <3> QED
      BY <2>b, <2>a, <3>1
         DEF ColumnError, Return, IInv, Typed, AllColumnsOrNone, DeferralIsValidated
  <2>1. CASE NumParams
    BY <2>1, <2>a DEF NumParams, Return, IInv, Typed, AllColumnsOrNone, DeferralIsValidated
  <2>2. CASE NumResultCols
    <3>1. CASE count' \in 0..MaxCols /\ at' = "describe_col"
               /\ UNCHANGED <<columns, failed, result, parameters, checked>>
      BY <2>2, <3>1, <2>a DEF NumResultCols, IInv, Typed, AllColumnsOrNone, DeferralIsValidated
    <3>2. CASE count' \in {-1, 0} /\ ColumnError
      BY <2>2, <3>2, <2>b DEF NumResultCols
    <3> QED
      BY <2>2, <3>1, <3>2 DEF NumResultCols
  <2>3. CASE DescribeCol
    <3>1. CASE columns' = Append(columns, Len(columns)) /\ UNCHANGED <<at, failed, result>>
      <4>1. /\ columns' \in Seq(Nat) /\ Len(columns') = Len(columns) + 1
            /\ \A i \in 1..Len(columns') : columns'[i] = i - 1
        <5>1. columns \in Seq(Nat) /\ Len(columns) \in Nat
          BY <2>a DEF Typed
        <5> QED
          BY <3>1, <5>1 DEF IInv
      <4>2. Len(columns') <= count /\ at = "describe_col" /\ ~failed /\ result = "none"
        BY <2>3, <4>1, <2>a DEF DescribeCol, IInv, Typed
      <4> QED
        BY <2>3, <3>1, <4>1, <4>2, <2>a
           DEF DescribeCol, IInv, Typed, AllColumnsOrNone, DeferralIsValidated
    <3>2. CASE ColumnError
      BY <2>3, <3>2, <2>a, <2>b DEF DescribeCol, Typed
    <3> QED
      BY <2>3, <3>1, <3>2 DEF DescribeCol
  <2>4. CASE AllColumns
    <3>1. columns = [i \in 1..count |-> i - 1]
      BY <2>4, <2>a DEF AllColumns, IInv, Typed
    <3> QED
      BY <2>4, <2>a, <3>1
         DEF AllColumns, Return, IInv, Typed, AllColumnsOrNone, DeferralIsValidated
  <2>5. CASE DescribeParam
    BY <2>5, <2>a DEF DescribeParam, Return, IInv, Typed, AllColumnsOrNone, DeferralIsValidated
  <2>6. CASE Deferred
    BY <2>6, <2>a DEF Deferred, Return, IInv, Typed, AllColumnsOrNone, DeferralIsValidated
  <2>7. CASE Done \/ UNCHANGED vars
    BY <2>7 DEF Done, vars, IInv, Typed, AllColumnsOrNone, DeferralIsValidated
  <2> QED
    BY <2>1, <2>2, <2>3, <2>4, <2>5, <2>6, <2>7 DEF Next
<1> QED
  BY <1>1, <1>2, PTL DEF Spec

\* A statement is prepared with all of its columns or with none.
THEOREM ColumnsAreWhole == Spec => []AllColumnsOrNone
<1>1. IInv => AllColumnsOrNone
  BY DEF IInv
<1> QED
  BY <1>1, Inductive, PTL

\* A column error is forgiven only after all parameters were described.
THEOREM DeferralsAreValidated == Spec => []DeferralIsValidated
<1>1. IInv => DeferralIsValidated
  BY DEF IInv
<1> QED
  BY <1>1, Inductive, PTL
=============================================================================
