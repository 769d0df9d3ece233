--------------------------- MODULE MCVerifyCache ----------------------------
(***************************************************************************)
(* Two runs over the versions of one small file: an edit may change a      *)
(* clause, the IR sidecar, or only what the cache key leaves out.          *)
(***************************************************************************)
EXTENDS VerifyCache, FiniteSets, TLC

MCNames == {"A", "B"}
MCBodies == {1, 2}
MCIrBodies == {"ir1"}
MCContexts == {"nat", "int"}

Ens(body, needs_ir) == [kind |-> "ensures", body |-> body, needs_ir |-> needs_ir]
Inv(body) == [kind |-> "invariant", body |-> body, needs_ir |-> FALSE]

J(name, clauses, ir, ctx) == [name |-> name, clauses |-> clauses, ir |-> ir, ctx |-> ctx]

\* A contract over its result and one that also has an invariant.
OverResult(ir, ctx) == J("A", <<Ens(1, TRUE)>>, ir, ctx)
WithInvariant == J("B", <<Ens(1, TRUE), Inv(2)>>, "none", "nat")

\* Without a sidecar; with one; with one and, say, another parameter type;
\* or a contract with an invariant besides.
MCSources == {<<OverResult("none", "nat")>>, <<OverResult("ir1", "nat")>>,
              <<OverResult("ir1", "int")>>, <<WithInvariant>>}

MCHolds(j, i) ==
  /\ j.ctx = "nat"
  /\ j.clauses[i].kind = "invariant" \/ ~j.clauses[i].needs_ir \/ j.ir # "none"

\* The runs are interchangeable.
RunSymmetry == Permutations(Runs)

MCSize(a) ==
  1 + Cardinality(DOMAIN a) + Cardinality({i \in DOMAIN a : a[i] \in {"counterexample", "unknown"}})
=============================================================================
