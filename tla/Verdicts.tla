------------------------------ MODULE Verdicts ------------------------------
(***************************************************************************)
(* The vocabulary every verification component shares: clause kinds, what  *)
(* a solver can answer, what a verification reports, and the pure policy   *)
(* functions of assura-smt/src/policy that map one to the other.           *)
(*                                                                         *)
(* A verdict is abstracted to its constructor.  The description string,    *)
(* the model text and the unsat core are carried by no property.           *)
(***************************************************************************)
EXTENDS Naturals, Sequences

\* ClauseKind, restricted to the kinds the verifier distinguishes.  "feature"
\* is ClauseKind::Other; "requires" stands for every kind that is neither
\* verifiable nor a feature (requires, input, output, modifies, ...).
VerifiableKinds == {"ensures", "invariant", "rule", "must_not", "decreases"}
ClauseKinds == VerifiableKinds \cup {"feature", "requires"}

\* VerificationResult, by constructor.
Tags == {"verified", "counterexample", "unknown", "timeout"}

\* ClauseSatOutcome: the answer of one check-sat.
Outcomes == {"sat", "unsat", "unknown", "timeout"}

\* What a clause claims, stated apart from how it is checked: an ensures,
\* rule or decreases claims its body always holds, a must_not that it never
\* does, an invariant that it can.
Claim(c) ==
  CASE c.kind = "must_not" -> c.never
    [] c.kind = "invariant" -> ~c.never
    [] OTHER -> c.always

is_verifiable_clause_kind(kind) == kind \in VerifiableKinds

\* Mutant: must_not is negated like ensures.
MutantPolarity(kind) ==
  CASE kind \in {"ensures", "rule", "must_not"} -> "negate_body"
    [] kind = "invariant" -> "assert_body"
    [] kind = "decreases" -> "negate_nonneg"
    [] OTHER -> "none"

\* How the body is asserted before check-sat.
clause_check_polarity(kind) ==
  CASE kind \in {"ensures", "rule"} -> "negate_body"
    [] kind \in {"invariant", "must_not"} -> "assert_body"
    [] kind = "decreases" -> "negate_nonneg"
    [] OTHER -> "none"

clause_uses_satisfiability_semantics(kind) == kind = "invariant"

interpret_clause_check_result(kind, outcome) ==
  CASE outcome = "unsat" ->
         IF clause_uses_satisfiability_semantics(kind) THEN "counterexample" ELSE "verified"
    [] outcome = "sat" ->
         IF clause_uses_satisfiability_semantics(kind) THEN "verified" ELSE "counterexample"
    [] OTHER -> outcome

\* What a session-cache entry is turned back into: a stored counterexample has
\* lost its model and comes back as Unknown("cached: counterexample").
result_from_session_cache_tag(tag) == IF tag = "counterexample" THEN "unknown" ELSE tag

-----------------------------------------------------------------------------
(* portfolio_policy.rs, over results that carry a tag (and, for the tie    *)
(* rule to be visible, the solver they came from).                         *)

portfolio_result_priority(r) ==
  CASE r.tag = "verified" -> 3
    [] r.tag = "counterexample" -> 2
    [] r.tag = "unknown" -> 1
    [] OTHER -> 0

pick_better_portfolio_result(primary, secondary) ==
  IF portfolio_result_priority(primary) >= portfolio_result_priority(secondary)
  THEN primary ELSE secondary

\* Zip by position, keep the longer vector's tail.
merge_portfolio_results(primary, secondary) ==
  [n \in 1..(IF Len(primary) >= Len(secondary) THEN Len(primary) ELSE Len(secondary)) |->
     IF n > Len(primary) THEN secondary[n]
     ELSE IF n > Len(secondary) THEN primary[n]
     ELSE pick_better_portfolio_result(primary[n], secondary[n])]
=============================================================================
