----------------------------- MODULE MCIrBuild ------------------------------
(***************************************************************************)
(* Two versions of a contract, two bodies, each right for one version, so  *)
(* that a stale body is wrong for the current one.  The second version is  *)
(* analyzable in one instance.  In the other its text does not parse and   *)
(* is written all the same; a write that fails leaves the file as it was,  *)
(* which is what happens to a stub, so the steps of a stub are among its.  *)
(***************************************************************************)
EXTENDS IrBuild

MCSpecs == {"s1", "s2"}
MCBodies == {"b1", "b2"}
MCImplements == [s \in MCSpecs |-> IF s = "s1" THEN {"b1"} ELSE {"b2"}]
MCHeuristic == [s \in MCSpecs |-> IF s = "s1" THEN "b1" ELSE "b2"]
MCHeuristicUnparsed == [s \in MCSpecs |-> IF s = "s1" THEN "b1" ELSE Unusable]
=============================================================================
