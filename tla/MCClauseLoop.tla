---------------------------- MODULE MCClauseLoop ----------------------------
(***************************************************************************)
(* Small instances of ClauseLoop: every one-job file of up to three        *)
(* clauses from a pool that has each kind, each gate and each truth a      *)
(* clause can have, and two-job files that share the session cache.        *)
(***************************************************************************)
EXTENDS ClauseLoop

C(kind, body, always, never) ==
  [kind |-> kind, body |-> body, always |-> always, never |-> never, alone |-> FALSE,
   unmodelable |-> FALSE, ref |-> "inputs", restates |-> "nothing", nres |-> 0]

MCBodies == 1..11
MCNames == {"A", "B"}

EnsTrue == [C("ensures", 1, TRUE, FALSE) EXCEPT !.alone = TRUE]
EnsFalse == C("ensures", 2, FALSE, FALSE)
InvFalse == C("invariant", 3, FALSE, TRUE)
InvRestates == [C("invariant", 4, TRUE, FALSE) EXCEPT !.restates = "requires"]
MustNot == C("must_not", 5, FALSE, TRUE)
Decreases == C("decreases", 6, TRUE, FALSE)
EnsResult == [C("ensures", 7, FALSE, FALSE) EXCEPT !.ref = "result"]
Unmodelable == [C("rule", 8, FALSE, TRUE) EXCEPT !.unmodelable = TRUE]
Feature == [C("feature", 9, FALSE, FALSE) EXCEPT !.nres = 1]
Feature2 == [C("feature", 9, FALSE, FALSE) EXCEPT !.nres = 2]
RuleMoot == C("rule", 11, TRUE, TRUE)   \* the requires contradict each other
EnsCeiling == [C("ensures", 10, TRUE, FALSE) EXCEPT !.alone = TRUE, !.restates = "nat_ceiling"]

Pool == {EnsTrue, EnsFalse, InvFalse, InvRestates, MustNot, Decreases, EnsResult,
         Unmodelable, Feature, RuleMoot}

UpTo(S, k) == UNION {[1..n -> S] : n \in 0..k}

OneJob(name, cs, ir) == [name |-> name, clauses |-> cs, has_ir |-> ir]

MCFiles ==
  {<<OneJob("A", cs, FALSE)>> : cs \in UpTo(Pool, 2)}
  \cup {<<OneJob("A", <<Feature>> \o cs, FALSE)>> : cs \in [1..2 -> {EnsTrue, InvRestates, EnsResult}]}
  \cup {<<OneJob("A", cs, FALSE)>> : cs \in [1..3 -> {EnsTrue, EnsFalse, InvFalse, EnsResult}]}
  \cup {<<OneJob("A", <<EnsTrue>>, ir), OneJob("B", <<Feature2, c, d>>, ir)>> :
           ir \in BOOLEAN, c \in {EnsResult, EnsCeiling}, d \in {EnsTrue, MustNot}}

MCAdvanced == {<<>>, <<"timeout", "counterexample">>}
=============================================================================
