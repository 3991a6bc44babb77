-------------------------- MODULE MCOdbcConnection --------------------------
(* OdbcConnection on a few statement texts and executions, for TLC.         *)
EXTENDS OdbcConnection, TLC

\* Statement texts are interchangeable: no action or property names one.
SqlSymmetry == Permutations(Sql)
=============================================================================
