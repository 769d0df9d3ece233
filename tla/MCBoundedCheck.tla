--------------------------- MODULE MCBoundedCheck ---------------------------
(***************************************************************************)
(* Instances of BoundedCheck for TLC: every system over three states.      *)
(***************************************************************************)
EXTENDS BoundedCheck

MCStates == 0..2
MCStart == {0}

\* The comparisons x == 0, x == 2 and x >= 1.
MCAtoms == {{0}, {2}, {1, 2}}

NoLoss == [starts |-> {}, edges |-> {}, text |-> {}]
AnyStart == [NoLoss EXCEPT !.starts = States]

\* The constraint on what follows x == 1 is lost, the others are asserted.
AnyEdgeOfOne == [NoLoss EXCEPT !.edges = {1} \X States]
NoNegation == [NoLoss EXCEPT !.text = {"negation"}]
NoProperty == [NoLoss EXCEPT !.text = {"property", "negation"}]

MCLosses == {NoLoss, AnyStart, AnyEdgeOfOne, NoNegation, NoProperty}

=============================================================================
