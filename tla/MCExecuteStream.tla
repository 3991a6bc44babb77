-------------------------- MODULE MCExecuteStream --------------------------
(* Driver answers for TLC: no cursor, alone or before rows; an empty        *)
(* result; results longer than the channel and than a batch; several result *)
(* sets, with an empty one and one without columns between them.            *)
EXTENDS ExecuteStream

MCScripts ==
  { <<"count">>,
    <<"count", "row", "end">>,
    <<"end">>,
    <<"row", "row", "row", "row", "end">>,
    <<"end", "row", "end">>,
    <<"row", "end", "nocols", "row", "row", "end">>,
    <<"row", "row", "row", "end", "nocols", "end">> }
============================================================================
