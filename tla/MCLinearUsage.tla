--------------------------- MODULE MCLinearUsage ----------------------------
(***************************************************************************)
(* Programs of a few nodes over one parameter.                             *)
(***************************************************************************)
EXTENDS LinearUsage

MCVars == {"x"}
=============================================================================
