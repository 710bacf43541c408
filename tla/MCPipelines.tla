------------------------------ MODULE MCPipelines ------------------------------
(***************************************************************************)
(* A small instance of Pipelines for TLC.                                  *)
(***************************************************************************)
EXTENDS Pipelines, TLC

CONSTANTS i1, i2, f1, f2

TwoIncremental == {i1, i2}
TwoFullRefresh == {f1, f2}

=============================================================================
