---------------------------- MODULE MCDataSources ----------------------------
(***************************************************************************)
(* A small instance of DataSources: every kind of data source, a limit of  *)
(* zero and one above, a list with a name and without.                     *)
(***************************************************************************)
EXTENDS DataSources

CONSTANT normal
=============================================================================
