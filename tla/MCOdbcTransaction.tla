------------------------ MODULE MCOdbcTransaction ------------------------
(* OdbcTransaction on a small set of statements, for TLC.                 *)
EXTENDS OdbcTransaction, TLC

\* Statements are interchangeable: no action or property names one.
StmtSymmetry == Permutations(Stmt)
==========================================================================
