----------------------------- MODULE ClauseLoop -----------------------------
(***************************************************************************)
(* The serial Z3 verification of one file: verify_impl_with_timeout walks  *)
(* the file's jobs, and for each one verify_clauses_with_types dispatches  *)
(* the feature clauses, asserts the contract's assumptions once on one     *)
(* incremental solver, and takes every verifiable clause through the gate  *)
(* unmodelable -> session cache -> solver -> cache store, pushing a solver *)
(* frame before the clause and popping it after.  Vacuity is stamped on    *)
(* the finished slice of results and the skipped clauses are appended.     *)
(*                                                                         *)
(* A clause is abstracted to its kind, the identity of its body, how the   *)
(* gates classify it, and the facts about its body a solver can discover:  *)
(*   always  the body follows from the job's assumptions (for decreases:   *)
(*           the measure is non-negative)                                  *)
(*   never   the body contradicts the job's assumptions                    *)
(*   alone   the body follows without the user's requires.                 *)
(***************************************************************************)
EXTENDS Verdicts, FiniteSets

CONSTANTS
  Files,             \* the files to verify: sets of sequences of jobs
  Bodies, Names,     \* clause bodies (with their spans) and declaration names
  IrAttempted,       \* a source path or inline extras were given (#703)
  AdvancedResults    \* tag sequences the advanced passes may report

Clause == [kind : ClauseKinds, body : Bodies,
           always : BOOLEAN, never : BOOLEAN, alone : BOOLEAN,
           unmodelable : BOOLEAN,
           ref : {"inputs", "result", "result_length_nonneg"},
           restates : {"nothing", "requires", "nat_ceiling"},
           nres : 0..2]

Job == [name : Names, clauses : Seq(Clause), has_ir : BOOLEAN]

\* Two clauses of one file with the same declaration name, kind and body are
\* the same question: the resolver rejects duplicate names (A02003), so they
\* are clauses of one declaration and share its assumptions.
KeyDecides(f) ==
  \A j, k \in DOMAIN f :
    \A c \in DOMAIN f[j].clauses, d \in DOMAIN f[k].clauses :
      LET a == f[j].clauses[c]  b == f[k].clauses[d] IN
      (f[j].name = f[k].name /\ a.kind = b.kind /\ a.body = b.body)
        => a.always = b.always /\ a.never = b.never

ASSUME FilesAssumption == \A f \in Files : f \in Seq(Job) /\ KeyDecides(f)
ASSUME IrAssumption == IrAttempted \in BOOLEAN
ASSUME AdvancedAssumption == AdvancedResults \subseteq Seq(Tags)

VARIABLES
  file,      \* the typed file under verification
  job,       \* index of the current job
  pc,        \* "job", "features", "clauses" or "done"
  todo,      \* clause indices of the current loop not handled yet
  vacuity_from, \* number of results before the clause loop of this job
  stack,     \* the solver's assertion frames above the contract's prelude
  session,   \* SessionCache: entries by clause_session_cache_key
  results    \* the growing Vec<VerificationResult>

vars == <<file, job, pc, todo, vacuity_from, stack, session, results>>

Sources == {"feature", "clause", "skip", "advanced"}
Reasons == {"none", "restates a requires", "nat wrap ceiling", "holds without the requires"}

\* One reported result: its verdict and, for the properties, where it came from.
Result == [src : Sources, job : Nat, of : Nat, tag : Tags, vacuous_reason : Reasons]

NewResult(src, i, tag) ==
  [src |-> src, job |-> job, of |-> i, tag |-> tag, vacuous_reason |-> "none"]

-----------------------------------------------------------------------------
(* What verify_impl_with_timeout passes to verify_clauses_with_types.      *)

ClausesOf(j) == file[j].clauses

ensures_needs_ir_for_unconstrained_result(c) == c.kind = "ensures" /\ c.ref = "result"

\* The clauses answered Unknown without the solver (unconstrained_result_unknowns).
Skipped(j) ==
  IF file[j].has_ir \/ ~IrAttempted THEN {}
  ELSE {i \in DOMAIN ClausesOf(j) :
          ensures_needs_ir_for_unconstrained_result(ClausesOf(j)[i])}

\* The clauses handed to the clause loop.  When something is skipped and no
\* ensures or invariant is left, the loop is not entered at all.
Work(j) ==
  LET filtered == DOMAIN ClausesOf(j) \ Skipped(j) IN
  IF /\ Skipped(j) # {}
     /\ \A i \in filtered : ClausesOf(j)[i].kind \notin {"ensures", "invariant"}
  THEN {} ELSE filtered

Features(j) == {i \in Work(j) : ClausesOf(j)[i].kind = "feature"}
Verifiable(j) == {i \in Work(j) : is_verifiable_clause_kind(ClausesOf(j)[i].kind)}

use_incremental_clause_push_pop(j) == Cardinality(Verifiable(j)) > 1

\* The loops run in clause order.
IsNext(i) == i \in todo /\ \A k \in todo : i <= k

-----------------------------------------------------------------------------
(* The solver, as the backend uses it: check-sat over the prelude and      *)
(* every assertion still on the stack.  It may give up, and its sat/unsat  *)
(* is right for one clause's assertion; over the assertions of several     *)
(* clauses the answer says nothing about any one of them.                  *)

Asserted(frames) == UNION {frames[n] : n \in DOMAIN frames}

IsUnsat(a) ==
  IF a.polarity = "assert_body" THEN ClausesOf(job)[a.of].never ELSE ClausesOf(job)[a.of].always

check_sat(frames) ==
  {"timeout", "unknown"} \cup
  (IF \E a \in Asserted(frames) : Asserted(frames) = {a}
   THEN {IF IsUnsat(a) THEN "unsat" ELSE "sat" : a \in Asserted(frames)}
   ELSE {"sat", "unsat"})

push(frames) == Append(frames, {})
pop(frames) == SubSeq(frames, 1, Len(frames) - 1)
assert(frames, a) == [frames EXCEPT ![Len(frames)] = @ \cup {a}]

clause_session_cache_key(i) ==
  <<file[job].name, ClausesOf(job)[i].kind, ClausesOf(job)[i].body>>

-----------------------------------------------------------------------------
Init ==
  /\ file \in Files
  /\ job = 1
  /\ pc = "job"
  /\ todo = {}
  /\ vacuity_from = 0
  /\ stack = <<{}>>
  /\ session = <<>>
  /\ results = <<>>

\* The next job: a fresh solver with the contract's assumptions asserted, and
\* the feature clauses first (prepare_contract_clauses).
BeginJob ==
  /\ pc = "job"
  /\ job \in DOMAIN file
  /\ pc' = "features"
  /\ todo' = Features(job)
  /\ stack' = <<{}>>
  /\ UNCHANGED <<file, job, vacuity_from, session, results>>

\* One ClauseKind::Other clause: its checker reports nres results.
DispatchFeature ==
  /\ pc = "features"
  /\ \E i \in todo :
       /\ IsNext(i)
       /\ \E tags \in [1..ClausesOf(job)[i].nres -> Tags] :
            results' = results \o [n \in DOMAIN tags |-> NewResult("feature", i, tags[n])]
       /\ todo' = todo \ {i}
  /\ UNCHANGED <<file, job, pc, vacuity_from, stack, session>>

\* Features done: the clause loop starts where the results now end.
EnterClauseLoop ==
  /\ pc = "features"
  /\ todo = {}
  /\ pc' = "clauses"
  /\ todo' = Verifiable(job)
  /\ vacuity_from' = Len(results)
  /\ UNCHANGED <<file, job, stack, session, results>>

\* Mutant: the gate skips the clause without pushing its Unknown.
MutantUnmodelablePrecheck ==
  /\ pc = "clauses"
  /\ \E i \in todo :
       /\ IsNext(i)
       /\ ClausesOf(job)[i].unmodelable
       /\ todo' = todo \ {i}
  /\ UNCHANGED <<file, job, pc, vacuity_from, stack, session, results>>

\* Gate 1: a body the encoder cannot express is Unknown and never cached.
UnmodelablePrecheck ==
  /\ pc = "clauses"
  /\ \E i \in todo :
       /\ IsNext(i)
       /\ ClausesOf(job)[i].unmodelable
       /\ results' = Append(results, NewResult("clause", i, "unknown"))
       /\ todo' = todo \ {i}
  /\ UNCHANGED <<file, job, pc, vacuity_from, stack, session>>

\* Gate 2: an earlier answer for the same key.
SessionCacheLookup ==
  /\ pc = "clauses"
  /\ \E i \in todo :
       /\ IsNext(i)
       /\ ~ClausesOf(job)[i].unmodelable
       /\ clause_session_cache_key(i) \in DOMAIN session
       /\ results' = Append(results, NewResult("clause", i,
             result_from_session_cache_tag(session[clause_session_cache_key(i)])))
       /\ todo' = todo \ {i}
  /\ UNCHANGED <<file, job, pc, vacuity_from, stack, session>>

\* What the solver frames look like when a clause is checked, and afterwards.
CheckedFrames(i) ==
  assert(IF use_incremental_clause_push_pop(job) THEN push(stack) ELSE stack,
         [polarity |-> clause_check_polarity(ClausesOf(job)[i].kind), of |-> i])

\* Mutant: the pop after the check is missing.
MutantRestoredFrames(i) == CheckedFrames(i)

\* Mutant: the pop is not guarded by use_push_pop.
MutantUnguardedPop(i) == pop(CheckedFrames(i))

RestoredFrames(i) ==
  IF use_incremental_clause_push_pop(job) THEN pop(CheckedFrames(i)) ELSE CheckedFrames(i)

\* Gates 3 and 4: push, assert by polarity, check, report, store, pop.
SolverWork ==
  /\ pc = "clauses"
  /\ \E i \in todo :
       /\ IsNext(i)
       /\ ~ClausesOf(job)[i].unmodelable
       /\ clause_session_cache_key(i) \notin DOMAIN session
       /\ \E outcome \in check_sat(CheckedFrames(i)) :
            LET tag == interpret_clause_check_result(ClausesOf(job)[i].kind, outcome)
                key == clause_session_cache_key(i) IN
            /\ results' = Append(results, NewResult("clause", i, tag))
            /\ session' = [k \in DOMAIN session \cup {key} |->
                             IF k = key THEN tag ELSE session[k]]
       /\ stack' = RestoredFrames(i)
       /\ todo' = todo \ {i}
  /\ UNCHANGED <<file, job, pc, vacuity_from>>

-----------------------------------------------------------------------------
(* stamp_vacuity: the n-th verifiable clause is zipped with the n-th result *)
(* of the slice, provided the lengths match.                                *)

clause_vacuity_reason(c) ==
  CASE c.kind \in {"ensures", "invariant"} /\ c.restates = "requires" -> "restates a requires"
    [] c.kind = "ensures" /\ c.restates = "nat_ceiling" -> "nat wrap ceiling"
    [] OTHER -> "none"

\* The members of S in increasing order (there is exactly one such sequence).
Ascending(S) ==
  {s \in [1..Cardinality(S) -> S] : \A m, n \in DOMAIN s : m < n => s[m] < s[n]}

\* `proved` are the clauses whose second, requires-free query came back unsat.
StampedReason(i, r, proved) ==
  IF r.tag # "verified" THEN r.vacuous_reason
  ELSE IF clause_vacuity_reason(ClausesOf(job)[i]) # "none" THEN clause_vacuity_reason(ClausesOf(job)[i])
  ELSE IF i \in proved THEN "holds without the requires"
  ELSE r.vacuous_reason

\* Mutant: the slice of results starts one result too early.
MutantZippedWith(n) == n - vacuity_from + 1

ZippedWith(n) == n - vacuity_from

\* Mutant: a vacuous Verified is withdrawn to Unknown instead of marked.
MutantStampVacuity(rs, verifiable, proved) ==
  IF Len(verifiable) # Len(rs) - vacuity_from THEN rs
  ELSE [n \in DOMAIN rs |->
          IF /\ ZippedWith(n) \in DOMAIN verifiable
             /\ StampedReason(verifiable[ZippedWith(n)], rs[n], proved) # "none"
          THEN [rs[n] EXCEPT !.tag = "unknown"]
          ELSE rs[n]]

stamp_vacuity(rs, verifiable, proved) ==
  IF Len(verifiable) # Len(rs) - vacuity_from THEN rs
  ELSE [n \in DOMAIN rs |->
          IF ZippedWith(n) \in DOMAIN verifiable
          THEN [rs[n] EXCEPT !.vacuous_reason = StampedReason(verifiable[ZippedWith(n)], rs[n], proved)]
          ELSE rs[n]]

\* Clauses whose requires-free query can come back unsat.
HoldsAlone(j) == {i \in Verifiable(j) : ClausesOf(j)[i].kind = "ensures" /\ ClausesOf(j)[i].alone}

\* The clause loop is over: stamp vacuity (a timeout of the second query
\* leaves a clause unmarked), append the skipped clauses' Unknowns in clause
\* order, take the next job.
FinishJob ==
  /\ pc = "clauses"
  /\ todo = {}
  /\ \E verifiable \in Ascending(Verifiable(job)), skipped \in Ascending(Skipped(job)),
        proved \in SUBSET HoldsAlone(job) :
       results' = stamp_vacuity(results, verifiable, proved)
                    \o [n \in DOMAIN skipped |-> NewResult("skip", skipped[n], "unknown")]
  /\ job' = job + 1
  /\ pc' = "job"
  /\ UNCHANGED <<file, todo, vacuity_from, stack, session>>

\* run_advanced_passes after the last job.
AdvancedPasses ==
  /\ pc = "job"
  /\ job \notin DOMAIN file
  /\ \E tags \in AdvancedResults :
       results' = results \o [n \in DOMAIN tags |-> NewResult("advanced", n, tags[n])]
  /\ pc' = "done"
  /\ UNCHANGED <<file, job, todo, vacuity_from, stack, session>>

Next ==
  \/ BeginJob
  \/ DispatchFeature
  \/ EnterClauseLoop
  \/ UnmodelablePrecheck
  \/ SessionCacheLookup
  \/ SolverWork
  \/ FinishJob
  \/ AdvancedPasses

Spec == Init /\ [][Next]_vars

-----------------------------------------------------------------------------
(* Properties.                                                             *)

ClauseOf(r) == file[r.job].clauses[r.of]

\* Every variable has its type, the clauses left are clauses of the job at
\* hand, and the solver keeps its bottom frame, the one that holds the
\* contract's prelude: no pop of verify_clauses_with_types is without its push.
TypeOK ==
  /\ file \in Files
  /\ job \in 1..(Len(file) + 1)
  /\ pc \in {"job", "features", "clauses", "done"}
  /\ todo \in SUBSET Nat
  /\ pc = "features" => job \in DOMAIN file /\ todo \subseteq Features(job)
  /\ pc = "clauses" => job \in DOMAIN file /\ todo \subseteq Verifiable(job)
  /\ vacuity_from \in Nat
  /\ stack \in Seq(SUBSET [polarity : {"negate_body", "assert_body", "negate_nonneg"}, of : Nat])
  /\ stack # <<>>
  /\ DOMAIN session \subseteq Names \X VerifiableKinds \X Bodies
  /\ \A k \in DOMAIN session : session[k] \in Tags
  /\ results \in Seq(Result)

\* A clause reported Verified makes a true claim and one reported as a
\* Counterexample a false one, whichever way the answer came: from this
\* clause's solver query, through the incremental frames shared with the
\* clauses before it, or from the session cache (verify_clauses_with_types).
VerdictIsRight ==
  \A n \in DOMAIN results :
    results[n].src = "clause" =>
      /\ results[n].tag = "verified" => Claim(ClauseOf(results[n]))
      /\ results[n].tag = "counterexample" => ~Claim(ClauseOf(results[n]))

\* When a clause is about to be encoded, no assertion of an earlier clause of
\* the contract is left on the solver: every push has been popped, on every
\* path through the loop body (the push/pop pair of verify_clauses_with_types).
NoAssertionLeaks == pc = "clauses" /\ todo # {} => Asserted(stack) = {}

\* Results n of the finished jobs, by origin.
ReportedFor(j, src) == {n \in DOMAIN results : results[n].job = j /\ results[n].src = src}

\* A finished job has exactly one result for each clause the loop was given,
\* in clause order, nres results for each feature clause before them and one
\* Unknown for each skipped clause after them.
AnsweredInOrder ==
  \A j \in DOMAIN file : (j < job) =>
    /\ \A src \in {"clause", "skip"} :
         LET at == ReportedFor(j, src) IN
         /\ {results[n].of : n \in at} = (IF src = "clause" THEN Verifiable(j) ELSE Skipped(j))
         /\ \A m, n \in at : m < n => results[m].of < results[n].of
    /\ \A i \in Features(j) :
         Cardinality({n \in ReportedFor(j, "feature") : results[n].of = i}) = file[j].clauses[i].nres
    /\ \A f \in ReportedFor(j, "feature"), c \in ReportedFor(j, "clause") : f < c
    /\ \A f \in ReportedFor(j, "feature") \cup ReportedFor(j, "clause"), s \in ReportedFor(j, "skip") : f < s

\* A vacuity mark sits on the result of the clause it was computed for: only
\* Verified results carry one, a syntactic reason is that clause's own, and
\* "holds without the requires" only a clause that really does
\* (stamp_vacuity's zip of clauses with a slice of the results).
VacuityOnOwnClause ==
  \A n \in DOMAIN results :
    LET r == results[n] IN
    r.vacuous_reason # "none" =>
      /\ r.src = "clause" /\ r.tag = "verified"
      /\ \/ r.vacuous_reason = clause_vacuity_reason(ClauseOf(r))
         \/ r.vacuous_reason = "holds without the requires"
            /\ ClauseOf(r).kind = "ensures" /\ ClauseOf(r).alone

\* No finished job leaves a verifiable clause without a result
\* (clause_policy.rs: the kinds "that get per-clause SMT validity/sat checks").
EveryVerifiableClauseAnswered ==
  \A j \in DOMAIN file : (j < job) =>
    \A i \in DOMAIN file[j].clauses :
      is_verifiable_clause_kind(file[j].clauses[i].kind) =>
        \E n \in DOMAIN results : results[n].job = j /\ results[n].of = i

\* What the loop reports, as the abstract report sees it.
About(r) ==
  IF r.src # "clause" THEN "external"
  ELSE IF Claim(ClauseOf(r)) THEN "true_claim" ELSE "false_claim"

Abstract ==
  INSTANCE HonestReport
    WITH report <- [n \in DOMAIN results |-> [about |-> About(results[n]), tag |-> results[n].tag]]

\* The clause loop implements the honest, append-only report: stamping and
\* later jobs never change or withdraw a verdict given earlier.
ImplementsHonestReport == Abstract!Spec
=============================================================================
