------------------------ MODULE MCSimplexConnection ------------------------
(* The instance of SimplexConnection that TLC checks.                      *)
EXTENDS SimplexConnection
=============================================================================
