---------------------------- MODULE MCCvc5Shell -----------------------------
(***************************************************************************)
(* Contracts of up to four clauses over pipes that hold less than one      *)
(* script and one query's output.                                          *)
(***************************************************************************)
EXTENDS Cvc5Shell

MCBodies == 1..8

C(kind, body, always, never, gate, bv) ==
  [kind |-> kind, body |-> body, always |-> always, never |-> never, gate |-> gate, bv |-> bv]

EnsTrue == C("ensures", 1, TRUE, FALSE, "ok", "none")
EnsFalse == C("ensures", 2, FALSE, FALSE, "ok", "none")
InvFalse == C("invariant", 3, FALSE, TRUE, "ok", "none")
MustNot == C("must_not", 4, FALSE, TRUE, "ok", "trust")
Unmodelable == C("rule", 5, TRUE, FALSE, "unmodelable", "none")
DivTrue == C("ensures", 6, TRUE, FALSE, "ok", "check")
DivFalse == C("ensures", 7, FALSE, FALSE, "unencodable", "check")
DivTrust == C("ensures", 8, FALSE, FALSE, "ok", "trust")

Pool == {EnsTrue, EnsFalse, InvFalse, MustNot, Unmodelable, DivTrue, DivFalse, DivTrust}

MCContracts ==
  [1..1 -> Pool] \cup [1..2 -> Pool]
  \cup {<<EnsTrue, c, d>> : c \in {InvFalse, Unmodelable, MustNot}, d \in {EnsFalse, EnsTrue}}
  \cup {<<EnsTrue, InvFalse, MustNot, c>> : c \in {EnsFalse, DivTrue}}
=============================================================================
