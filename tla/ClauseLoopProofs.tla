-------------------------- MODULE ClauseLoopProofs --------------------------
(***************************************************************************)
(* For every set of files: the clause loop keeps its types, leaks no       *)
(* assertion from one clause to the next, reports no wrong verdict,        *)
(* answers the clauses of a job in their order, marks as vacuous only what *)
(* it examined, and implements HonestReport.                               *)
(*                                                                         *)
(* VerdictIsRight alone is not inductive.  A cached verdict is right only  *)
(* because every session entry is (SessionRight), and a solver answer is   *)
(* about its own clause only because the frames are back at the prelude    *)
(* when the clause is reached (StackAtBase).  The order of the results is  *)
(* OrderInv: the results since vacuity_from are those of the clauses no    *)
(* longer in todo, in increasing order, and there is one such enumeration. *)
(***************************************************************************)
EXTENDS ClauseLoop, FiniteSetTheorems, SequenceTheorems, WellFoundedInduction, TLAPS

\* While a clause is still to be handled the solver holds the prelude alone.
StackAtBase == (pc = "features" \/ (pc = "clauses" /\ todo # {})) =>
                 Len(stack) = 1 /\ stack[1] = {}

KeyOf(j, i) == <<file[j].name, file[j].clauses[i].kind, file[j].clauses[i].body>>

RightTag(c, tag) ==
  /\ tag = "verified" => Claim(c)
  /\ tag = "counterexample" => ~Claim(c)

\* A session entry is the right answer to every clause with that key.
SessionRight ==
  \A j \in DOMAIN file : \A i \in DOMAIN file[j].clauses :
    KeyOf(j, i) \in DOMAIN session => RightTag(file[j].clauses[i], session[KeyOf(j, i)])

\* A result about a clause names a verifiable clause of the file.
ResultsLocated ==
  \A n \in DOMAIN results :
    results[n].src = "clause" =>
      /\ results[n].job \in DOMAIN file
      /\ results[n].of \in DOMAIN file[results[n].job].clauses

IInv ==
  /\ TypeOK
  /\ StackAtBase
  /\ SessionRight
  /\ ResultsLocated
  /\ VerdictIsRight

-----------------------------------------------------------------------------
(* Facts about the operators.                                              *)

\* A file is a sequence of jobs whose clauses are well formed.
LEMMA FileType ==
  ASSUME NEW f \in Files
  PROVE  /\ f \in Seq(Job)
         /\ KeyDecides(f)
         /\ \A j \in DOMAIN f : f[j] \in Job /\ f[j].clauses \in Seq(Clause)
         /\ \A j \in DOMAIN f : \A i \in DOMAIN f[j].clauses : f[j].clauses[i] \in Clause
<1>1. f \in Seq(Job) /\ KeyDecides(f)
  BY FilesAssumption
<1>2. \A j \in DOMAIN f : f[j] \in Job
  BY <1>1
<1>3. \A j \in DOMAIN f : f[j].clauses \in Seq(Clause)
  BY <1>2 DEF Job
<1>4. \A j \in DOMAIN f : \A i \in DOMAIN f[j].clauses : f[j].clauses[i] \in Clause
  BY <1>3
<1> QED
  BY <1>1, <1>2, <1>3, <1>4

\* interpret_clause_check_result and the cache round trip yield verdicts.
LEMMA TagTypes ==
  /\ \A kind, outcome : outcome \in Outcomes => interpret_clause_check_result(kind, outcome) \in Tags
  /\ \A tag \in Tags : result_from_session_cache_tag(tag) \in Tags
BY DEF interpret_clause_check_result, result_from_session_cache_tag, Outcomes, Tags

\* Going through the session cache never makes a right verdict wrong.
LEMMA CacheRoundTripRight ==
  ASSUME NEW c, NEW tag \in Tags, RightTag(c, tag)
  PROVE  RightTag(c, result_from_session_cache_tag(tag))
BY DEF RightTag, result_from_session_cache_tag, Tags

\* A sat or unsat answer to one clause's own assertion is turned into the
\* right verdict, for each of the four polarities.
LEMMA InterpretRight ==
  ASSUME NEW c \in Clause, is_verifiable_clause_kind(c.kind),
         NEW unsat \in BOOLEAN,
         unsat <=> (IF clause_check_polarity(c.kind) = "assert_body" THEN c.never ELSE c.always),
         NEW outcome \in {"timeout", "unknown", IF unsat THEN "unsat" ELSE "sat"}
  PROVE  RightTag(c, interpret_clause_check_result(c.kind, outcome))
<1>1. c.kind \in VerifiableKinds /\ c.always \in BOOLEAN /\ c.never \in BOOLEAN
  BY DEF Clause, is_verifiable_clause_kind
<1>2. CASE c.kind = "invariant"
  BY <1>1, <1>2 DEF RightTag, Claim, interpret_clause_check_result,
     clause_uses_satisfiability_semantics, clause_check_polarity
<1>3. CASE c.kind = "must_not"
  BY <1>1, <1>3 DEF RightTag, Claim, interpret_clause_check_result,
     clause_uses_satisfiability_semantics, clause_check_polarity
<1>4. CASE c.kind \in {"ensures", "rule", "decreases"}
  BY <1>1, <1>4 DEF RightTag, Claim, interpret_clause_check_result,
     clause_uses_satisfiability_semantics, clause_check_polarity
<1> QED
  BY <1>1, <1>2, <1>3, <1>4 DEF VerifiableKinds

\* The clause sets of a job are sets of its clause indices.
LEMMA IndexSets ==
  ASSUME TypeOK, job \in DOMAIN file
  PROVE  /\ Work(job) \subseteq DOMAIN ClausesOf(job)
         /\ Features(job) \subseteq DOMAIN ClausesOf(job)
         /\ Verifiable(job) \subseteq DOMAIN ClausesOf(job)
         /\ Skipped(job) \subseteq DOMAIN ClausesOf(job)
         /\ DOMAIN ClausesOf(job) \subseteq Nat
         /\ IsFiniteSet(Verifiable(job)) /\ Cardinality(Verifiable(job)) \in Nat
         /\ IsFiniteSet(Skipped(job)) /\ Cardinality(Skipped(job)) \in Nat
<1>1. ClausesOf(job) \in Seq(Clause)
  BY FileType DEF TypeOK, ClausesOf
<1>2. DOMAIN ClausesOf(job) = 1..Len(ClausesOf(job)) /\ Len(ClausesOf(job)) \in Nat
  BY <1>1
<1>3. /\ Skipped(job) \subseteq DOMAIN ClausesOf(job)
      /\ Work(job) \subseteq DOMAIN ClausesOf(job)
  BY DEF Skipped, Work
<1>4. /\ Features(job) \subseteq DOMAIN ClausesOf(job)
      /\ Verifiable(job) \subseteq DOMAIN ClausesOf(job)
  BY <1>3 DEF Features, Verifiable
<1>5. IsFiniteSet(DOMAIN ClausesOf(job))
  BY <1>2, FS_Interval
<1>6. IsFiniteSet(Verifiable(job)) /\ IsFiniteSet(Skipped(job))
  BY <1>3, <1>4, <1>5, FS_Subset
<1>7. Cardinality(Verifiable(job)) \in Nat /\ Cardinality(Skipped(job)) \in Nat
  BY <1>6, FS_CardinalityType
<1>8. DOMAIN ClausesOf(job) \subseteq Nat
  BY <1>2
<1> QED
  BY <1>3, <1>4, <1>6, <1>7, <1>8

\* A contract that is verified without push and pop has one verifiable clause,
\* so nothing follows the clause whose assertion stays on the solver.
LEMMA SingleClauseEndsLoop ==
  ASSUME TypeOK, pc = "clauses", ~use_incremental_clause_push_pop(job), NEW i \in todo
  PROVE  todo \ {i} = {}
<1>1. job \in DOMAIN file /\ todo \subseteq Verifiable(job)
  BY DEF TypeOK
<1>2. IsFiniteSet(Verifiable(job)) /\ Cardinality(Verifiable(job)) \in Nat
  BY <1>1, IndexSets
<1>3. Cardinality(Verifiable(job)) <= 1
  BY <1>2 DEF use_incremental_clause_push_pop
<1>4. i \in Verifiable(job)
  BY <1>1
<1>5. IsFiniteSet(Verifiable(job) \ {i})
      /\ Cardinality(Verifiable(job) \ {i}) = Cardinality(Verifiable(job)) - 1
  BY <1>2, <1>4, FS_RemoveElement
<1>6. Cardinality(Verifiable(job) \ {i}) = 0
  BY <1>2, <1>3, <1>5, FS_CardinalityType
<1>7. Verifiable(job) \ {i} = {}
  BY <1>5, <1>6, FS_EmptySet
<1> QED
  BY <1>1, <1>7

\* Appending to a sequence of one element.
LEMMA AppendToOne ==
  ASSUME NEW T, NEW s \in Seq(T), Len(s) = 1, NEW e \in T
  PROVE  /\ Append(s, e) \in Seq(T)
         /\ Len(Append(s, e)) = 2
         /\ Append(s, e)[1] = s[1]
         /\ Append(s, e)[2] = e
<1>1. Append(s, e) \in Seq(T)
  BY AppendProperties
<1>2. Len(Append(s, e)) = Len(s) + 1
  BY AppendProperties
<1>3. Append(s, e)[Len(s) + 1] = e
  BY AppendProperties
<1>4. Append(s, e)[1] = s[1]
  BY AppendProperties
<1> QED
  BY <1>1, <1>2, <1>3, <1>4

Assertion(i) == [polarity |-> clause_check_polarity(ClausesOf(job)[i].kind), of |-> i]

\* Starting from the bare prelude, a clause is checked against its own
\* assertion alone, and the frames return to the prelude if they were pushed.
LEMMA FramesOfOneClause ==
  ASSUME NEW S, stack \in Seq(SUBSET S), Len(stack) = 1, stack[1] = {},
         NEW i, Assertion(i) \in S
  PROVE  /\ Asserted(CheckedFrames(i)) = {Assertion(i)}
         /\ RestoredFrames(i) \in Seq(SUBSET S)
         /\ Len(RestoredFrames(i)) = 1
         /\ use_incremental_clause_push_pop(job) => RestoredFrames(i)[1] = {}
<1> DEFINE a == Assertion(i)
           checked == CheckedFrames(i)
<1>1. CASE use_incremental_clause_push_pop(job)
  <2>1. /\ push(stack) \in Seq(SUBSET S)
        /\ Len(push(stack)) = 2
        /\ push(stack)[1] = {} /\ push(stack)[2] = {}
    <3>1. {} \in SUBSET S
      OBVIOUS
    <3> QED
      BY <3>1, AppendToOne DEF push
  <2>2. checked = assert(push(stack), a)
    BY <1>1 DEF CheckedFrames, Assertion
  <2>3. checked = [push(stack) EXCEPT ![2] = @ \cup {a}]
    BY <2>1, <2>2 DEF assert
  <2>4. checked \in Seq(SUBSET S) /\ Len(checked) = 2 /\ checked[1] = {} /\ checked[2] = {a}
    BY <2>1, <2>3
  <2>5. Asserted(checked) = {a}
    BY <2>4 DEF Asserted
  <2>6. RestoredFrames(i) = SubSeq(checked, 1, 1)
    BY <1>1, <2>4 DEF RestoredFrames, pop
  <2>7. SubSeq(checked, 1, 1) \in Seq(SUBSET S) /\ Len(SubSeq(checked, 1, 1)) = 1
        /\ SubSeq(checked, 1, 1)[1] = {}
    BY <2>4, SubSeqProperties
  <2> QED
    BY <2>5, <2>6, <2>7
<1>2. CASE ~use_incremental_clause_push_pop(job)
  <2>1. checked = [stack EXCEPT ![1] = @ \cup {a}]
    BY <1>2 DEF CheckedFrames, assert, Assertion
  <2>2. checked \in Seq(SUBSET S) /\ Len(checked) = 1 /\ checked[1] = {a}
    BY <2>1
  <2>3. Asserted(checked) = {a}
    BY <2>2 DEF Asserted
  <2>4. RestoredFrames(i) = checked
    BY <1>2 DEF RestoredFrames
  <2> QED
    BY <1>2, <2>2, <2>3, <2>4
<1> QED
  BY <1>1, <1>2

\* Stamping vacuity changes nothing of a result but its vacuous_reason.
LEMMA StampKeepsVerdicts ==
  ASSUME NEW rs \in Seq(Result), NEW order, NEW proved
  PROVE  LET stamped == stamp_vacuity(rs, order, proved) IN
         /\ stamped \in Seq(Result)
         /\ Len(stamped) = Len(rs)
         /\ \A n \in DOMAIN rs : /\ stamped[n].src = rs[n].src
                                 /\ stamped[n].job = rs[n].job
                                 /\ stamped[n].of = rs[n].of
                                 /\ stamped[n].tag = rs[n].tag
<1> DEFINE reason(n) == StampedReason(order[ZippedWith(n)], rs[n], proved)
           stamped == stamp_vacuity(rs, order, proved)
<1>1. \A n \in DOMAIN rs : rs[n] \in Result
  OBVIOUS
<1>2. \A n \in DOMAIN rs : reason(n) \in Reasons
  <2> SUFFICES ASSUME NEW n \in DOMAIN rs PROVE reason(n) \in Reasons
    OBVIOUS
  <2>1. rs[n].vacuous_reason \in Reasons
    BY <1>1 DEF Result
  <2>2. clause_vacuity_reason(ClausesOf(job)[order[ZippedWith(n)]]) \in Reasons
    BY DEF clause_vacuity_reason, Reasons
  <2> QED
    BY <2>1, <2>2 DEF StampedReason, Reasons
<1>3. CASE Len(order) # Len(rs) - vacuity_from
  BY <1>3 DEF stamp_vacuity
<1>4. CASE Len(order) = Len(rs) - vacuity_from
  <2>1. stamped = [n \in DOMAIN rs |->
                     IF ZippedWith(n) \in DOMAIN order
                     THEN [rs[n] EXCEPT !.vacuous_reason = reason(n)]
                     ELSE rs[n]]
    BY <1>4 DEF stamp_vacuity
  <2>2. ASSUME NEW n \in DOMAIN rs
        PROVE  /\ stamped[n] \in Result
               /\ stamped[n].src = rs[n].src
               /\ stamped[n].job = rs[n].job
               /\ stamped[n].of = rs[n].of
               /\ stamped[n].tag = rs[n].tag
    <3>1. rs[n] \in Result /\ reason(n) \in Reasons
      BY <1>1, <1>2
    <3>2. stamped[n] \in {rs[n], [rs[n] EXCEPT !.vacuous_reason = reason(n)]}
      BY <2>1
    <3> HIDE DEF reason, stamped
    <3> QED
      BY <3>1, <3>2 DEF Result
  <2>3. DOMAIN stamped = 1..Len(rs) /\ Len(rs) \in Nat
    BY <2>1
  <2> HIDE DEF stamped, reason
  <2>4. stamped \in [1..Len(rs) -> Result]
    <3>1. stamped = [n \in DOMAIN rs |-> stamped[n]]
      BY <2>1
    <3> QED
      BY <2>2, <2>3, <3>1
  <2>5. stamped \in Seq(Result) /\ Len(stamped) = Len(rs)
    BY <2>3, <2>4
  <2> QED
    BY <2>2, <2>5 DEF stamped
<1> QED
  BY <1>3, <1>4

\* A result that is right about the clause it names.
RightResult(r) ==
  r.src = "clause" =>
    /\ r.job \in DOMAIN file
    /\ r.of \in DOMAIN file[r.job].clauses
    /\ RightTag(file[r.job].clauses[r.of], r.tag)

SameVerdict(r, s) == r.src = s.src /\ r.job = s.job /\ r.of = s.of /\ r.tag = s.tag

\* Results that repeat an earlier verdict or are right keep what is known of
\* all of them.
LEMMA ResultsStayRight ==
  ASSUME ResultsLocated, VerdictIsRight, file' = file,
         \A n \in DOMAIN results' :
            \/ n \in DOMAIN results /\ SameVerdict(results'[n], results[n])
            \/ RightResult(results'[n])
  PROVE  ResultsLocated' /\ VerdictIsRight'
<1>1. \A n \in DOMAIN results : RightResult(results[n])
  BY DEF ResultsLocated, VerdictIsRight, RightResult, RightTag, ClauseOf
<1>2. \A n \in DOMAIN results' : RightResult(results'[n])
  BY <1>1 DEF RightResult, SameVerdict
<1>3. \A r : ClauseOf(r)' = ClauseOf(r)
  BY DEF ClauseOf
<1>4. ResultsLocated'
  BY <1>2 DEF ResultsLocated, RightResult
<1>5. VerdictIsRight'
  BY <1>2 DEF VerdictIsRight, RightResult, RightTag, ClauseOf, Claim
<1> QED
  BY <1>4, <1>5

LEMMA FunctionIsSeq ==
  ASSUME NEW T, NEW m \in Nat, NEW s \in [1..m -> T]
  PROVE  s \in Seq(T)
BY SeqDef

LEMMA ReportedResult ==
  ASSUME job \in Nat, NEW src \in Sources, NEW i \in Nat, NEW tag \in Tags
  PROVE  NewResult(src, i, tag) \in Result
BY DEF NewResult, Result, Reasons

\* One more result at the end.
LEMMA OneMoreResult ==
  ASSUME results \in Seq(Result), NEW r \in Result, results' = Append(results, r)
  PROVE  /\ results' \in Seq(Result)
         /\ \A n \in DOMAIN results' :
              \/ n \in DOMAIN results /\ SameVerdict(results'[n], results[n])
              \/ results'[n] = r
<1>1. results' \in Seq(Result)
  BY AppendProperties
<1>2. Len(results') = Len(results) + 1
  BY AppendProperties
<1>3. results'[Len(results) + 1] = r
  BY AppendProperties
<1>4. \A n \in 1..Len(results) : results'[n] = results[n]
  BY AppendProperties
<1>5. \A n \in DOMAIN results' : n \in DOMAIN results \/ n = Len(results) + 1
  BY <1>1, <1>2
<1> QED
  BY <1>1, <1>3, <1>4, <1>5 DEF SameVerdict

\* Several more results at the end of a sequence that repeats the verdicts.
LEMMA MoreResults ==
  ASSUME results \in Seq(Result),
         NEW kept \in Seq(Result), Len(kept) = Len(results),
         \A n \in DOMAIN results : SameVerdict(kept[n], results[n]),
         NEW rs \in Seq(Result),
         \A n \in DOMAIN rs : rs[n].src # "clause",
         results' = kept \o rs
  PROVE  /\ results' \in Seq(Result)
         /\ \A n \in DOMAIN results' :
              \/ n \in DOMAIN results /\ SameVerdict(results'[n], results[n])
              \/ RightResult(results'[n])
<1>1. results' \in Seq(Result)
  OBVIOUS
<1>2. \A n \in DOMAIN results' :
        \/ n \in DOMAIN kept /\ results'[n] = kept[n]
        \/ n - Len(kept) \in DOMAIN rs /\ results'[n] = rs[n - Len(kept)]
  OBVIOUS
<1>3. DOMAIN kept = DOMAIN results
  OBVIOUS
<1> QED
  BY <1>1, <1>2, <1>3 DEF RightResult

-----------------------------------------------------------------------------
(* The invariant.                                                          *)

LEMMA InitIInv == Init => IInv
<1> SUFFICES ASSUME Init PROVE IInv
  OBVIOUS
<1>1. results = <<>> /\ DOMAIN results = {} /\ DOMAIN session = {}
  BY DEF Init
<1>2. /\ stack \in Seq(SUBSET [polarity : {"negate_body", "assert_body", "negate_nonneg"}, of : Nat])
      /\ stack # <<>>
  BY DEF Init
<1>3. file \in Seq(Job) /\ job \in 1..(Len(file) + 1)
  BY FileType DEF Init
<1>4. TypeOK
  BY <1>1, <1>2, <1>3 DEF Init, TypeOK
<1>5. StackAtBase
  BY DEF Init, StackAtBase
<1>6. SessionRight /\ ResultsLocated /\ VerdictIsRight
  BY <1>1 DEF SessionRight, ResultsLocated, VerdictIsRight
<1> QED
  BY <1>4, <1>5, <1>6 DEF IInv

\* What is left to show for a step that leaves the file and the session alone.
LEMMA SessionKept ==
  ASSUME SessionRight, file' = file, session' = session
  PROVE  SessionRight'
BY DEF SessionRight, KeyOf, RightTag, Claim

LEMMA NextIInv == IInv /\ [Next]_vars => IInv'
<1> SUFFICES ASSUME IInv, [Next]_vars PROVE IInv'
  OBVIOUS
<1> USE DEF IInv
<1> DEFINE Assertions == [polarity : {"negate_body", "assert_body", "negate_nonneg"}, of : Nat]
<1>0. /\ file \in Seq(Job) /\ DOMAIN file = 1..Len(file) /\ Len(file) \in Nat /\ job \in Nat
      /\ results \in Seq(Result)
  BY FileType DEF TypeOK
<1>1. CASE BeginJob
  <2> USE <1>1 DEF BeginJob
  <2>1. stack' \in Seq(SUBSET Assertions) /\ Len(stack') = 1 /\ stack'[1] = {} /\ stack' # <<>>
    OBVIOUS
  <2>2. Features(job) \subseteq Nat /\ Features(job)' = Features(job) /\ job' \in DOMAIN file'
    BY IndexSets DEF Features, Work, Skipped, ClausesOf
  <2>3. TypeOK'
    BY <2>1, <2>2 DEF TypeOK
  <2>4. StackAtBase'
    BY <2>1 DEF StackAtBase
  <2>5. ResultsLocated' /\ VerdictIsRight'
    BY ResultsStayRight DEF SameVerdict
  <2> QED
    BY <2>3, <2>4, <2>5, SessionKept
<1>2. CASE DispatchFeature
  <2> USE <1>2 DEF DispatchFeature
  <2>1. PICK i \in todo : \E tags \in [1..ClausesOf(job)[i].nres -> Tags] :
          /\ results' = results \o [n \in DOMAIN tags |-> NewResult("feature", i, tags[n])]
          /\ todo' = todo \ {i}
    OBVIOUS
  <2>2. PICK tags \in [1..ClausesOf(job)[i].nres -> Tags] :
          results' = results \o [n \in DOMAIN tags |-> NewResult("feature", i, tags[n])]
    BY <2>1
  <2> DEFINE rs == [n \in DOMAIN tags |-> NewResult("feature", i, tags[n])]
  <2>3. i \in Nat /\ ClausesOf(job)[i].nres \in Nat
    <3>1. i \in DOMAIN ClausesOf(job) /\ i \in Nat /\ job \in DOMAIN file
      BY IndexSets DEF TypeOK
    <3>2. ClausesOf(job)[i] \in Clause
      BY <3>1, FileType DEF TypeOK, ClausesOf
    <3> QED
      BY <3>1, <3>2 DEF Clause
  <2>4. rs \in Seq(Result) /\ \A n \in DOMAIN rs : rs[n].src # "clause"
    <3>1. DOMAIN tags = 1..ClausesOf(job)[i].nres
      OBVIOUS
    <3>2. \A n \in DOMAIN tags : NewResult("feature", i, tags[n]) \in Result
      BY <1>0, <2>3, ReportedResult DEF Sources
    <3>3. rs \in [1..ClausesOf(job)[i].nres -> Result]
      BY <3>1, <3>2
    <3>4. rs \in Seq(Result)
      BY <2>3, <3>3, FunctionIsSeq
    <3> QED
      BY <3>4 DEF NewResult
  <2>5. /\ results' \in Seq(Result)
        /\ \A n \in DOMAIN results' :
              \/ n \in DOMAIN results /\ SameVerdict(results'[n], results[n])
              \/ RightResult(results'[n])
    <3> HIDE DEF rs
    <3>1. results' = results \o rs
      BY <2>2 DEF rs
    <3> QED
      BY <1>0, <2>4, <3>1, MoreResults DEF SameVerdict
  <2>6. TypeOK'
    BY <2>1, <2>5 DEF TypeOK, Features, Work, Skipped, ClausesOf
  <2>7. StackAtBase'
    BY DEF StackAtBase
  <2>8. ResultsLocated' /\ VerdictIsRight'
    BY <2>5, ResultsStayRight
  <2> QED
    BY <2>6, <2>7, <2>8, SessionKept
<1>3. CASE EnterClauseLoop
  <2> USE <1>3 DEF EnterClauseLoop
  <2>1. Verifiable(job) \subseteq Nat /\ Verifiable(job)' = Verifiable(job) /\ job' \in DOMAIN file'
    BY IndexSets DEF TypeOK, Verifiable, Work, Skipped, ClausesOf
  <2>2. TypeOK'
    BY <1>0, <2>1 DEF TypeOK
  <2>3. StackAtBase'
    BY DEF StackAtBase
  <2>4. ResultsLocated' /\ VerdictIsRight'
    BY ResultsStayRight DEF SameVerdict
  <2> QED
    BY <2>2, <2>3, <2>4, SessionKept
<1>4. CASE UnmodelablePrecheck
  <2> USE <1>4 DEF UnmodelablePrecheck
  <2>1. PICK i \in todo : /\ results' = Append(results, NewResult("clause", i, "unknown"))
                          /\ todo' = todo \ {i}
    OBVIOUS
  <2>2. job \in DOMAIN file /\ i \in DOMAIN ClausesOf(job) /\ i \in Nat
    BY IndexSets DEF TypeOK
  <2>3. NewResult("clause", i, "unknown") \in Result
    BY <1>0, <2>2, ReportedResult DEF Sources, Tags
  <2>4. RightResult(NewResult("clause", i, "unknown"))
    BY <2>2 DEF RightResult, NewResult, RightTag, ClausesOf
  <2>5. /\ results' \in Seq(Result)
        /\ ResultsLocated' /\ VerdictIsRight'
    BY <1>0, <2>1, <2>3, <2>4, OneMoreResult, ResultsStayRight
  <2>6. TypeOK'
    BY <2>1, <2>5 DEF TypeOK, Verifiable, Work, Skipped, ClausesOf
  <2>7. StackAtBase'
    BY <2>1 DEF StackAtBase
  <2> QED
    BY <2>5, <2>6, <2>7, SessionKept
<1>5. CASE SessionCacheLookup
  <2> USE <1>5 DEF SessionCacheLookup
  <2>1. PICK i \in todo :
          /\ clause_session_cache_key(i) \in DOMAIN session
          /\ results' = Append(results, NewResult("clause", i,
                          result_from_session_cache_tag(session[clause_session_cache_key(i)])))
          /\ todo' = todo \ {i}
    OBVIOUS
  <2> DEFINE tag == session[clause_session_cache_key(i)]
  <2>2. job \in DOMAIN file /\ i \in DOMAIN ClausesOf(job) /\ i \in Nat
    BY IndexSets DEF TypeOK
  <2>3. tag \in Tags
    BY <2>1 DEF TypeOK
  <2>4. RightTag(ClausesOf(job)[i], tag)
    BY <2>1, <2>2 DEF SessionRight, KeyOf, clause_session_cache_key, ClausesOf
  <2> HIDE DEF tag
  <2>5. /\ result_from_session_cache_tag(tag) \in Tags
        /\ RightTag(ClausesOf(job)[i], result_from_session_cache_tag(tag))
    BY <2>3, <2>4, TagTypes, CacheRoundTripRight
  <2>6. NewResult("clause", i, result_from_session_cache_tag(tag)) \in Result
    BY <1>0, <2>2, <2>5, ReportedResult DEF Sources
  <2>7. RightResult(NewResult("clause", i, result_from_session_cache_tag(tag)))
    BY <2>2, <2>5 DEF RightResult, NewResult, ClausesOf
  <2>8. /\ results' \in Seq(Result)
        /\ ResultsLocated' /\ VerdictIsRight'
    BY <1>0, <2>1, <2>6, <2>7, OneMoreResult, ResultsStayRight DEF tag
  <2>9. TypeOK'
    BY <2>1, <2>8 DEF TypeOK, Verifiable, Work, Skipped, ClausesOf
  <2>10. StackAtBase'
    BY <2>1 DEF StackAtBase
  <2> QED
    BY <2>8, <2>9, <2>10, SessionKept
<1>6. CASE SolverWork
  <2> USE <1>6 DEF SolverWork
  <2>1. PICK i \in todo :
          /\ \E outcome \in check_sat(CheckedFrames(i)) :
               LET tag == interpret_clause_check_result(ClausesOf(job)[i].kind, outcome)
                   key == clause_session_cache_key(i) IN
               /\ results' = Append(results, NewResult("clause", i, tag))
               /\ session' = [k \in DOMAIN session \cup {key} |->
                                IF k = key THEN tag ELSE session[k]]
          /\ stack' = RestoredFrames(i)
          /\ todo' = todo \ {i}
    OBVIOUS
  <2> DEFINE c == ClausesOf(job)[i]
             key == clause_session_cache_key(i)
  <2>2. PICK outcome \in check_sat(CheckedFrames(i)) :
          /\ results' = Append(results, NewResult("clause", i, interpret_clause_check_result(c.kind, outcome)))
          /\ session' = [k \in DOMAIN session \cup {key} |->
                           IF k = key THEN interpret_clause_check_result(c.kind, outcome)
                           ELSE session[k]]
    BY <2>1
  <2> DEFINE tag == interpret_clause_check_result(c.kind, outcome)
  <2>3. /\ job \in DOMAIN file /\ i \in DOMAIN ClausesOf(job) /\ i \in Nat
        /\ is_verifiable_clause_kind(c.kind)
    BY IndexSets DEF TypeOK, Verifiable
  <2>4. c \in Clause /\ file[job] \in Job
    BY <2>3, FileType DEF TypeOK, ClausesOf
  <2>5. Assertion(i) \in Assertions
    BY <2>3 DEF Assertion, clause_check_polarity, is_verifiable_clause_kind, VerifiableKinds
  <2>6. stack \in Seq(SUBSET Assertions) /\ Len(stack) = 1 /\ stack[1] = {}
    BY DEF TypeOK, StackAtBase
  <2>7. /\ Asserted(CheckedFrames(i)) = {Assertion(i)}
        /\ RestoredFrames(i) \in Seq(SUBSET Assertions)
        /\ Len(RestoredFrames(i)) = 1
        /\ use_incremental_clause_push_pop(job) => RestoredFrames(i)[1] = {}
    <3> HIDE DEF Assertions
    <3> QED
      BY <2>5, <2>6, FramesOfOneClause
  <2>8. outcome \in {"timeout", "unknown", IF IsUnsat(Assertion(i)) THEN "unsat" ELSE "sat"}
    BY <2>2, <2>7 DEF check_sat
  <2>9. IsUnsat(Assertion(i)) <=> (IF clause_check_polarity(c.kind) = "assert_body"
                                   THEN c.never ELSE c.always)
    BY DEF IsUnsat, Assertion
  <2>10. tag \in Tags /\ RightTag(c, tag)
    <3>1. outcome \in Outcomes
      BY <2>8 DEF Outcomes
    <3> HIDE DEF c
    <3>2. PICK unsat \in BOOLEAN : unsat <=> IsUnsat(Assertion(i))
      OBVIOUS
    <3>3. outcome \in {"timeout", "unknown", IF unsat THEN "unsat" ELSE "sat"}
      BY <2>8, <3>2
    <3>4. RightTag(c, tag)
      BY <2>3, <2>4, <2>9, <3>2, <3>3, InterpretRight
    <3> QED
      BY <3>1, <3>4, TagTypes
  <2> HIDE DEF tag, c
  <2>11. /\ results' = Append(results, NewResult("clause", i, tag))
         /\ session' = [k \in DOMAIN session \cup {key} |-> IF k = key THEN tag ELSE session[k]]
    BY <2>2 DEF tag
  <2>12. /\ results' \in Seq(Result)
         /\ ResultsLocated' /\ VerdictIsRight'
    <3>1. NewResult("clause", i, tag) \in Result
      BY <1>0, <2>3, <2>10, ReportedResult DEF Sources
    <3>2. RightResult(NewResult("clause", i, tag))
      BY <2>3, <2>10 DEF RightResult, NewResult, ClausesOf, c
    <3> QED
      BY <1>0, <2>11, <3>1, <3>2, OneMoreResult, ResultsStayRight
  <2>13. key \in Names \X VerifiableKinds \X Bodies
    BY <2>3, <2>4 DEF clause_session_cache_key, Job, Clause, is_verifiable_clause_kind, c, ClausesOf
  <2>14. /\ DOMAIN session' \subseteq Names \X VerifiableKinds \X Bodies
         /\ \A k \in DOMAIN session' : session'[k] \in Tags
    <3> HIDE DEF key
    <3>1. DOMAIN session' = DOMAIN session \cup {key}
      BY <2>11
    <3>2. \A k \in DOMAIN session' : session'[k] = IF k = key THEN tag ELSE session[k]
      BY <2>11
    <3> QED
      BY <2>10, <2>13, <3>1, <3>2 DEF TypeOK
  <2>15a. RestoredFrames(i) # <<>>
    BY <2>7
  <2>15. TypeOK'
    BY <2>1, <2>7, <2>12, <2>14, <2>15a DEF TypeOK, Verifiable, Work, Skipped, ClausesOf
  <2>16. StackAtBase'
    BY <2>1, <2>7, SingleClauseEndsLoop DEF StackAtBase
  <2>17. SessionRight'
    <3> SUFFICES ASSUME NEW j \in DOMAIN file, NEW d \in DOMAIN file[j].clauses,
                        KeyOf(j, d) \in DOMAIN session'
                 PROVE  RightTag(file[j].clauses[d], session'[KeyOf(j, d)])
      BY DEF SessionRight, KeyOf, RightTag, Claim
    <3>1. CASE KeyOf(j, d) = key
      <4>1. /\ file[j].name = file[job].name
            /\ file[j].clauses[d].kind = c.kind
            /\ file[j].clauses[d].body = c.body
        BY <3>1 DEF KeyOf, clause_session_cache_key, ClausesOf, c
      <4>2. file[j].clauses[d].always = c.always /\ file[j].clauses[d].never = c.never
        <5>1. KeyDecides(file)
          BY FileType DEF TypeOK
        <5> QED
          BY <2>3, <4>1, <5>1 DEF KeyDecides, ClausesOf, c
      <4>3. RightTag(file[j].clauses[d], tag)
        BY <2>10, <4>1, <4>2 DEF RightTag, Claim
      <4>4. session'[KeyOf(j, d)] = tag
        BY <2>11, <3>1
      <4> QED
        BY <4>3, <4>4
    <3>2. CASE KeyOf(j, d) # key
      <4>1. KeyOf(j, d) \in DOMAIN session /\ session'[KeyOf(j, d)] = session[KeyOf(j, d)]
        BY <2>11, <3>2
      <4> QED
        BY <4>1 DEF SessionRight
    <3> QED
      BY <3>1, <3>2
  <2> QED
    BY <2>12, <2>15, <2>16, <2>17
<1>7. CASE FinishJob
  <2> USE <1>7 DEF FinishJob
  <2>1. PICK verifiable \in Ascending(Verifiable(job)), skipped \in Ascending(Skipped(job)),
             proved \in SUBSET HoldsAlone(job) :
          results' = stamp_vacuity(results, verifiable, proved)
                       \o [n \in DOMAIN skipped |-> NewResult("skip", skipped[n], "unknown")]
    OBVIOUS
  <2> DEFINE kept == stamp_vacuity(results, verifiable, proved)
             rs == [n \in DOMAIN skipped |-> NewResult("skip", skipped[n], "unknown")]
  <2>2. job \in DOMAIN file /\ Cardinality(Skipped(job)) \in Nat /\ Skipped(job) \subseteq Nat
    BY IndexSets DEF TypeOK
  <2>3. skipped \in [1..Cardinality(Skipped(job)) -> Skipped(job)]
    BY DEF Ascending
  <2>4. rs \in Seq(Result) /\ \A n \in DOMAIN rs : rs[n].src # "clause"
    <3>1. \A n \in DOMAIN skipped : NewResult("skip", skipped[n], "unknown") \in Result
      BY <1>0, <2>2, <2>3, ReportedResult DEF Sources, Tags
    <3>2. rs \in [1..Cardinality(Skipped(job)) -> Result]
      BY <2>3, <3>1
    <3>3. rs \in Seq(Result)
      BY <2>2, <3>2, FunctionIsSeq
    <3> QED
      BY <3>3 DEF NewResult
  <2>5. /\ kept \in Seq(Result) /\ Len(kept) = Len(results)
        /\ \A n \in DOMAIN results : SameVerdict(kept[n], results[n])
    BY <1>0, StampKeepsVerdicts DEF SameVerdict
  <2> HIDE DEF kept, rs
  <2>6. results' = kept \o rs
    BY <2>1 DEF kept, rs
  <2>7. /\ results' \in Seq(Result)
        /\ ResultsLocated' /\ VerdictIsRight'
    BY <1>0, <2>4, <2>5, <2>6, MoreResults, ResultsStayRight
  <2>8. TypeOK'
    BY <1>0, <2>2, <2>7 DEF TypeOK
  <2>9. StackAtBase'
    BY DEF StackAtBase
  <2> QED
    BY <2>7, <2>8, <2>9, SessionKept
<1>8. CASE AdvancedPasses
  <2> USE <1>8 DEF AdvancedPasses
  <2>1. PICK tags \in AdvancedResults :
          results' = results \o [n \in DOMAIN tags |-> NewResult("advanced", n, tags[n])]
    OBVIOUS
  <2> DEFINE rs == [n \in DOMAIN tags |-> NewResult("advanced", n, tags[n])]
  <2>2. tags \in Seq(Tags) /\ DOMAIN tags = 1..Len(tags) /\ Len(tags) \in Nat
    BY AdvancedAssumption
  <2>3. rs \in Seq(Result) /\ \A n \in DOMAIN rs : rs[n].src # "clause"
    <3>1. \A n \in DOMAIN tags : NewResult("advanced", n, tags[n]) \in Result
      BY <1>0, <2>2, ReportedResult DEF Sources
    <3>2. rs \in [1..Len(tags) -> Result]
      BY <2>2, <3>1
    <3>3. rs \in Seq(Result)
      BY <2>2, <3>2, FunctionIsSeq
    <3> QED
      BY <3>3 DEF NewResult
  <2> HIDE DEF rs
  <2>4. results' = results \o rs
    BY <2>1 DEF rs
  <2>5. /\ results' \in Seq(Result)
        /\ ResultsLocated' /\ VerdictIsRight'
    BY <1>0, <2>3, <2>4, MoreResults, ResultsStayRight DEF SameVerdict
  <2>6. TypeOK'
    BY <2>5 DEF TypeOK
  <2>7. StackAtBase'
    BY DEF StackAtBase
  <2> QED
    BY <2>5, <2>6, <2>7, SessionKept
<1>9. CASE UNCHANGED vars
  <2> USE <1>9 DEF vars
  <2>1. TypeOK'
    BY DEF TypeOK, Features, Verifiable, Work, Skipped, ClausesOf
  <2>2. StackAtBase'
    BY DEF StackAtBase
  <2>3. ResultsLocated' /\ VerdictIsRight'
    BY ResultsStayRight DEF SameVerdict
  <2> QED
    BY <2>1, <2>2, <2>3, SessionKept
<1> QED
  BY <1>1, <1>2, <1>3, <1>4, <1>5, <1>6, <1>7, <1>8, <1>9 DEF Next

\* Every variable of the serial verification keeps its type, for every file.
THEOREM TypeCorrect == Spec => []TypeOK
<1>1. IInv => TypeOK
  BY DEF IInv
<1> QED
  BY <1>1, InitIInv, NextIInv, PTL DEF Spec

\* The serial clause loop never reports Verified of a false claim or
\* Counterexample of a true one, whatever the clauses of the file are and
\* however the solver gives up.
THEOREM VerdictsAreRight == Spec => []VerdictIsRight
<1>1. IInv => VerdictIsRight
  BY DEF IInv
<1> QED
  BY <1>1, InitIInv, NextIInv, PTL DEF Spec

\* No assertion of one clause is still on the solver when the next is encoded.
THEOREM AssertionsNeverLeak == Spec => []NoAssertionLeaks
<1>1. IInv => NoAssertionLeaks
  <2> SUFFICES ASSUME IInv, pc = "clauses", todo # {} PROVE Asserted(stack) = {}
    BY DEF NoAssertionLeaks
  <2>1. Len(stack) = 1 /\ stack[1] = {} /\ DOMAIN stack = 1..1
    BY DEF IInv, StackAtBase, TypeOK
  <2> QED
    BY <2>1 DEF Asserted
<1> QED
  BY <1>1, InitIInv, NextIInv, PTL DEF Spec

-----------------------------------------------------------------------------
(* Increasing enumerations of a set of clause indices.                     *)

\* A nonempty set of numbers has a least one.
LEMMA LeastNumber ==
  ASSUME NEW S \in SUBSET Nat, S # {}
  PROVE  \E n \in S : \A m \in S : n <= m
<1> DEFINE R == {ss \in Nat \X Nat : ss[1] < ss[2]}
<1>1. OpToRel(<, Nat) = R
  BY Zenon DEF OpToRel
<1>2. IsWellFoundedOn(R, Nat)
  BY <1>1, NatLessThanWellFounded, Zenon
<1> HIDE DEF R
<1>3. PICK n \in S : \A m \in S : ~ (<<m, n>> \in R)
  BY <1>2, WFMin
<1>4. \A m \in S : ~(m < n)
  BY <1>3 DEF R
<1> QED
  BY <1>4

Increasing(s, n) == \A i, k \in 1..n : i < k => s[i] < s[k]

Enumerates(s, n, S) ==
  /\ Increasing(s, n)
  /\ \A i \in 1..n : s[i] \in S
  /\ \A x \in S : \E i \in 1..n : s[i] = x

\* Two increasing enumerations of one set agree.
LEMMA OneEnumeration ==
  ASSUME NEW n \in Nat, NEW S \in SUBSET Nat, NEW a, NEW b, Enumerates(a, n, S), Enumerates(b, n, S)
  PROVE  \A i \in 1..n : a[i] = b[i]
<1> DEFINE D == {i \in 1..n : a[i] # b[i]}
<1> SUFFICES ASSUME D # {} PROVE FALSE
  OBVIOUS
<1>1. PICK i \in D : \A k \in D : i <= k
  <2>1. D \in SUBSET Nat
    OBVIOUS
  <2> HIDE DEF D
  <2> QED
    BY <2>1, LeastNumber
<1>2. \A k \in 1..n : k < i => a[k] = b[k]
  BY <1>1
<1>3. i \in 1..n /\ a[i] # b[i] /\ a[i] \in Nat /\ b[i] \in Nat
  BY <1>1 DEF Enumerates
<1>4. ASSUME NEW c, NEW d, Enumerates(c, n, S), Enumerates(d, n, S), c[i] < d[i],
             \A k \in 1..n : k < i => c[k] = d[k]
      PROVE  FALSE
  <2>1. PICK k \in 1..n : c[i] = d[k]
    BY <1>3, <1>4 DEF Enumerates
  <2>2. d[i] \in Nat /\ d[k] \in Nat /\ c[i] \in Nat
    BY <1>3, <1>4 DEF Enumerates
  <2>3. ~(i < k) /\ i # k
    <3>1. i < k => d[i] < d[k]
      BY <1>3, <1>4 DEF Enumerates, Increasing
    <3> QED
      BY <1>4, <2>1, <2>2, <3>1
  <2>4. k < i
    BY <1>3, <2>3
  <2>5. c[k] < c[i] /\ c[k] = d[k]
    BY <1>3, <1>4, <2>4 DEF Enumerates, Increasing
  <2> QED
    BY <2>1, <2>2, <2>5
<1>5. a[i] < b[i] \/ b[i] < a[i]
  BY <1>3
<1> QED
  BY <1>2, <1>4, <1>5

\* Ascending enumerates all of a finite set.
LEMMA AscendingIsOnto ==
  ASSUME NEW S \in SUBSET Nat, IsFiniteSet(S), NEW s \in Ascending(S)
  PROVE  /\ Cardinality(S) \in Nat /\ DOMAIN s = 1..Cardinality(S) /\ s \in Seq(Nat)
         /\ Len(s) = Cardinality(S)
         /\ Enumerates(s, Cardinality(S), S)
<1> DEFINE n == Cardinality(S)
<1>1. n \in Nat
  BY FS_CardinalityType
<1>2. s \in [1..n -> S] /\ \A i, k \in 1..n : i < k => s[i] < s[k]
  BY DEF Ascending
<1>3. s \in Injection(1..n, S)
  <2>1. \A i, k \in 1..n : s[i] = s[k] => i = k
    <3> SUFFICES ASSUME NEW i \in 1..n, NEW k \in 1..n, s[i] = s[k], i # k PROVE FALSE
      OBVIOUS
    <3>1. i < k \/ k < i
      BY <1>1
    <3>2. s[i] \in Nat /\ s[k] \in Nat
      BY <1>2
    <3> QED
      BY <1>2, <3>1, <3>2
  <2> QED
    BY <1>2, <2>1 DEF Injection, IsInjective
<1>4. Cardinality(1..n) = n
  BY <1>1, FS_Interval
<1>5. s \in Surjection(1..n, S)
  BY <1>3, <1>4, FS_Injection
<1>6. \A x \in S : \E i \in 1..n : s[i] = x
  BY <1>2, <1>5 DEF Surjection
<1>7. s \in Seq(Nat) /\ Len(s) = n
  <2>1. s \in [1..n -> Nat]
    BY <1>2
  <2> HIDE DEF n
  <2> QED
    BY <1>1, <2>1, FunctionIsSeq
<1> QED
  BY <1>1, <1>2, <1>6, <1>7 DEF Increasing, Enumerates

-----------------------------------------------------------------------------
(* The order of the results.  AnsweredInOrder speaks of finished jobs; the *)
(* invariant adds where the results of the current job are, and that every *)
(* result so far belongs to it or to an earlier one.                       *)

FeatureAt(j, i) == {n \in ReportedFor(j, "feature") : results[n].of = i}

\* The nres results of a feature clause stand side by side.
FeatureAnswered(j, i) ==
  \E p \in Nat : FeatureAt(j, i) = (p + 1)..(p + file[j].clauses[i].nres)

JobAnswered(j) ==
  /\ {results[n].of : n \in ReportedFor(j, "clause")} = Verifiable(j)
  /\ {results[n].of : n \in ReportedFor(j, "skip")} = Skipped(j)
  /\ \A m, n \in ReportedFor(j, "clause") : m < n => results[m].of < results[n].of
  /\ \A m, n \in ReportedFor(j, "skip") : m < n => results[m].of < results[n].of
  /\ \A i \in Features(j) : FeatureAnswered(j, i)
  /\ \A f \in ReportedFor(j, "feature"), c \in ReportedFor(j, "clause") : f < c
  /\ \A f \in ReportedFor(j, "feature") \cup ReportedFor(j, "clause"), s \in ReportedFor(j, "skip") : f < s

\* In job j the features not in todo are answered, and no clause is.
InFeatures(j) ==
  /\ ReportedFor(j, "clause") = {} /\ ReportedFor(j, "skip") = {}
  /\ \A i \in Features(j) : IF i \in todo THEN FeatureAt(j, i) = {} ELSE FeatureAnswered(j, i)

\* In job j the results from vacuity_from on are those of the clauses before
\* the ones in todo, in clause order.
InClauses(j) ==
  /\ vacuity_from <= Len(results)
  /\ ReportedFor(j, "clause") = (vacuity_from + 1)..Len(results)
  /\ ReportedFor(j, "feature") \subseteq 1..vacuity_from
  /\ ReportedFor(j, "skip") = {}
  /\ \A i \in Features(j) : FeatureAnswered(j, i)
  /\ {results[n].of : n \in (vacuity_from + 1)..Len(results)} = Verifiable(j) \ todo
  /\ \A m, n \in (vacuity_from + 1)..Len(results) : m < n => results[m].of < results[n].of
  /\ \A n \in (vacuity_from + 1)..Len(results), i \in todo : results[n].of < i

\* All jobs before j are answered, and nothing is reported for later ones.
AnsweredUpTo(j) ==
  /\ \A k \in DOMAIN file : k < j => JobAnswered(k)
  /\ \A n \in DOMAIN results : results[n].job <= j /\ (pc = "job" => results[n].job < j)
  /\ pc = "features" => InFeatures(j)
  /\ pc = "clauses" => InClauses(j)

OrderInv == (\E j \in Nat : j = job /\ AnsweredUpTo(j)) /\ VacuityOnOwnClause

\* A step that keeps the verdicts so far and adds results of the current job.
Grows ==
  /\ results' \in Seq(Result) /\ Len(results) <= Len(results')
  /\ \A n \in 1..Len(results) : SameVerdict(results'[n], results[n])
  /\ \A n \in (Len(results) + 1)..Len(results') : results'[n].job = job

\* Where the reports of one kind are after such a step.
LEMMA ReportsGrow ==
  ASSUME IInv, Grows, NEW j, NEW src
  PROVE  /\ ReportedFor(j, src) \subseteq 1..Len(results) /\ Len(results) \in Nat
         /\ ReportedFor(j, src)' =
              ReportedFor(j, src) \cup
                {n \in (Len(results) + 1)..Len(results') : results'[n].job = j /\ results'[n].src = src}
         /\ \A n \in ReportedFor(j, src) : results'[n].of = results[n].of
         /\ j # job => ReportedFor(j, src)' = ReportedFor(j, src)
<1>1. /\ DOMAIN results = 1..Len(results) /\ DOMAIN results' = 1..Len(results')
      /\ Len(results) \in Nat /\ Len(results') \in Nat
  BY DEF IInv, TypeOK, Grows
<1>2. 1..Len(results') = (1..Len(results)) \cup ((Len(results) + 1)..Len(results'))
  BY <1>1 DEF Grows
<1> QED
  BY <1>1, <1>2 DEF ReportedFor, Grows, SameVerdict

\* The index sets of a job depend on the file alone.
LEMMA SetsOfFile ==
  ASSUME file' = file, NEW j
  PROVE  /\ Features(j)' = Features(j) /\ Verifiable(j)' = Verifiable(j) /\ Skipped(j)' = Skipped(j)
         /\ ClausesOf(j)' = ClausesOf(j)
BY DEF Features, Verifiable, Work, Skipped, ClausesOf

\* A feature that gets no new report stays as it is.
LEMMA FeatureKept ==
  ASSUME IInv, Grows, file' = file, NEW j, NEW i,
         \A n \in (Len(results) + 1)..Len(results') :
           ~(results'[n].job = j /\ results'[n].src = "feature" /\ results'[n].of = i)
  PROVE  /\ FeatureAt(j, i)' = FeatureAt(j, i)
         /\ FeatureAnswered(j, i) => FeatureAnswered(j, i)'
<1>1. FeatureAt(j, i)' = FeatureAt(j, i)
  BY ReportsGrow DEF FeatureAt
<1> QED
  BY <1>1 DEF FeatureAnswered

\* A finished job stays answered.
LEMMA AnsweredKept ==
  ASSUME IInv, Grows, file' = file, NEW j, j # job, JobAnswered(j)
  PROVE  JobAnswered(j)'
<1>1. \A src : /\ ReportedFor(j, src)' = ReportedFor(j, src)
               /\ \A n \in ReportedFor(j, src) : results'[n].of = results[n].of
  BY ReportsGrow
<1>2. \A i \in Features(j)' : FeatureAnswered(j, i)'
  BY FeatureKept, SetsOfFile DEF JobAnswered, Grows
<1> QED
  BY <1>1, <1>2, SetsOfFile DEF JobAnswered

\* So do all of them.
LEMMA PastKept ==
  ASSUME IInv, Grows, file' = file, \A k \in DOMAIN file : k < job => JobAnswered(k)
  PROVE  \A k \in DOMAIN file' : k < job => JobAnswered(k)'
<1> SUFFICES ASSUME NEW k \in DOMAIN file, k < job PROVE JobAnswered(k)'
  OBVIOUS
<1>1. k # job
  BY FileType DEF IInv, TypeOK
<1> QED
  BY <1>1, AnsweredKept

\* The forms a step's new results come in.
LEMMA NoneGrows ==
  ASSUME IInv, results' = results
  PROVE  Grows
BY DEF IInv, TypeOK, Grows, SameVerdict

LEMMA AppendGrows ==
  ASSUME IInv, NEW r \in Result, r.job = job, results' = Append(results, r)
  PROVE  /\ Grows /\ Len(results) \in Nat /\ Len(results') = Len(results) + 1
         /\ results'[Len(results) + 1] = r
         /\ \A n \in 1..Len(results) : results'[n] = results[n]
<1>1. results \in Seq(Result) /\ Len(results) \in Nat
  BY DEF IInv, TypeOK
<1>2. /\ results' \in Seq(Result) /\ Len(results') = Len(results) + 1
      /\ results'[Len(results) + 1] = r
      /\ \A n \in 1..Len(results) : results'[n] = results[n]
  BY <1>1, AppendProperties
<1> QED
  BY <1>1, <1>2 DEF Grows, SameVerdict

LEMMA ConcatGrows ==
  ASSUME IInv, NEW kept \in Seq(Result), Len(kept) = Len(results),
         \A n \in DOMAIN results : SameVerdict(kept[n], results[n]),
         NEW rs \in Seq(Result), \A n \in 1..Len(rs) : rs[n].job = job,
         results' = kept \o rs
  PROVE  /\ Grows /\ Len(results) \in Nat /\ Len(rs) \in Nat /\ Len(results') = Len(results) + Len(rs)
         /\ \A n \in 1..Len(results) : results'[n] = kept[n]
         /\ \A n \in (Len(results) + 1)..Len(results') :
              n - Len(results) \in 1..Len(rs) /\ results'[n] = rs[n - Len(results)]
<1>1. /\ results \in Seq(Result) /\ Len(results) \in Nat /\ Len(rs) \in Nat
      /\ DOMAIN results = 1..Len(results)
  BY DEF IInv, TypeOK
<1>2. /\ results' \in Seq(Result) /\ Len(results') = Len(results) + Len(rs)
      /\ \A n \in 1..(Len(results) + Len(rs)) :
           results'[n] = IF n <= Len(results) THEN kept[n] ELSE rs[n - Len(results)]
  <2>1. /\ kept \o rs \in Seq(Result) /\ Len(kept \o rs) = Len(kept) + Len(rs)
        /\ \A n \in 1 .. Len(kept) + Len(rs) :
             (kept \o rs)[n] = IF n <= Len(kept) THEN kept[n] ELSE rs[n - Len(kept)]
    BY ConcatProperties, Zenon
  <2> QED
    BY <2>1
<1>3. \A n \in 1..Len(results) : results'[n] = kept[n]
  BY <1>1, <1>2
<1>4. \A n \in (Len(results) + 1)..Len(results') :
        n - Len(results) \in 1..Len(rs) /\ results'[n] = rs[n - Len(results)]
  BY <1>1, <1>2
<1>5. \A n \in 1..Len(results) : SameVerdict(results'[n], results[n])
  BY <1>1, <1>3
<1>6. \A n \in (Len(results) + 1)..Len(results') : results'[n].job = job
  BY <1>4
<1>7. Len(results) <= Len(results')
  BY <1>1, <1>2
<1> QED
  BY <1>1, <1>2, <1>3, <1>4, <1>5, <1>6, <1>7, Zenon DEF Grows

\* A mark that is about the clause c of its result.
MarkOf(r, c) ==
  r.vacuous_reason # "none" =>
    /\ r.src = "clause" /\ r.tag = "verified"
    /\ \/ r.vacuous_reason = clause_vacuity_reason(c)
       \/ r.vacuous_reason = "holds without the requires" /\ c.kind = "ensures" /\ c.alone

LEMMA MarksByClause ==
  VacuityOnOwnClause <=> \A n \in DOMAIN results : MarkOf(results[n], file[results[n].job].clauses[results[n].of])
BY Zenon DEF VacuityOnOwnClause, MarkOf, ClauseOf

\* New results carry no mark.
LEMMA MarksKept ==
  ASSUME VacuityOnOwnClause, file' = file,
         \A n \in DOMAIN results' :
           (n \in DOMAIN results /\ results'[n] = results[n]) \/ results'[n].vacuous_reason = "none"
  PROVE  VacuityOnOwnClause'
<1>1. \A n \in DOMAIN results' : MarkOf(results'[n], file[results'[n].job].clauses[results'[n].of])
  <2> TAKE n \in DOMAIN results'
  <2>1. CASE n \in DOMAIN results /\ results'[n] = results[n]
    BY <2>1, MarksByClause
  <2>2. CASE results'[n].vacuous_reason = "none"
    BY <2>2 DEF MarkOf
  <2> QED
    BY <2>1, <2>2
<1>2. VacuityOnOwnClause' <=>
        \A n \in DOMAIN results' : MarkOf(results'[n], file'[results'[n].job].clauses[results'[n].of])
  BY Zenon DEF VacuityOnOwnClause, MarkOf, ClauseOf
<1> QED
  BY <1>1, <1>2

\* The next job has no results yet.
LEMMA BeginOrder ==
  ASSUME IInv, OrderInv, BeginJob
  PROVE  OrderInv'
<1>1. PICK j \in Nat : j = job /\ AnsweredUpTo(j)
  BY DEF OrderInv
<1>2. /\ file' = file /\ job' = j /\ results' = results /\ pc = "job" /\ pc' = "features"
      /\ todo' = Features(j) /\ Grows
  BY <1>1, NoneGrows DEF BeginJob
<1>3. \A k \in DOMAIN file' : k < j => JobAnswered(k)'
  BY <1>1, <1>2, PastKept DEF AnsweredUpTo
<1>4. \A n \in DOMAIN results : results[n].job \in Nat /\ results[n].job < j
  <2>1. \A n \in DOMAIN results : results[n] \in Result
    BY DEF IInv, TypeOK
  <2>2. \A n \in DOMAIN results : results[n].job \in Nat
    BY <2>1 DEF Result
  <2> QED
    BY <1>1, <1>2, <2>2 DEF AnsweredUpTo
<1>5. \A src : ReportedFor(j, src)' = {}
  BY <1>2, <1>4 DEF ReportedFor
<1>6. InFeatures(j)'
  BY <1>2, <1>5, SetsOfFile DEF InFeatures, FeatureAt
<1>7. AnsweredUpTo(j)'
  BY <1>2, <1>3, <1>4, <1>6 DEF AnsweredUpTo
<1>8. VacuityOnOwnClause'
  BY <1>2, MarksKept DEF OrderInv
<1> QED
  BY <1>2, <1>7, <1>8 DEF OrderInv

\* A feature clause reports its results side by side.
LEMMA FeatureOrder ==
  ASSUME IInv, OrderInv, DispatchFeature
  PROVE  OrderInv'
<1>1. PICK j \in Nat : j = job /\ AnsweredUpTo(j)
  BY DEF OrderInv
<1>2. PICK i \in todo :
        /\ \E tags \in [1..ClausesOf(job)[i].nres -> Tags] :
             results' = results \o [n \in DOMAIN tags |-> NewResult("feature", i, tags[n])]
        /\ todo' = todo \ {i}
  BY DEF DispatchFeature
<1>3. PICK tags \in [1..ClausesOf(job)[i].nres -> Tags] :
        results' = results \o [n \in DOMAIN tags |-> NewResult("feature", i, tags[n])]
  BY <1>2
<1> DEFINE rs == [n \in DOMAIN tags |-> NewResult("feature", i, tags[n])]
           w == ClausesOf(job)[i].nres
           L == Len(results)
<1>4. file' = file /\ job' = j /\ pc = "features" /\ pc' = "features"
  BY <1>1 DEF DispatchFeature
<1>5. /\ job \in DOMAIN file /\ i \in DOMAIN ClausesOf(job) /\ i \in Nat /\ i \in Features(j)
      /\ w \in Nat
  <2>1. job \in DOMAIN file /\ i \in DOMAIN ClausesOf(job) /\ i \in Nat /\ i \in Features(j)
    BY <1>1, <1>4, IndexSets DEF IInv, TypeOK
  <2>2. ClausesOf(job)[i] \in Clause
    BY <2>1, FileType DEF IInv, TypeOK, ClausesOf
  <2> QED
    BY <2>1, <2>2 DEF Clause
<1>6. /\ rs \in Seq(Result) /\ Len(rs) = w
      /\ \A n \in 1..w : /\ rs[n].job = job /\ rs[n].src = "feature" /\ rs[n].of = i
                         /\ rs[n].vacuous_reason = "none"
  <2>1. job \in Nat /\ DOMAIN tags = 1..w
    BY <1>1
  <2>2. \A n \in 1..w : NewResult("feature", i, tags[n]) \in Result
    BY <1>5, <2>1, ReportedResult DEF Sources
  <2>3. rs \in [1..w -> Result]
    BY <2>1, <2>2
  <2>4. \A n \in 1..w : /\ rs[n].job = job /\ rs[n].src = "feature" /\ rs[n].of = i
                        /\ rs[n].vacuous_reason = "none"
    BY <2>1 DEF NewResult
  <2> HIDE DEF rs, w
  <2>5. rs \in Seq(Result) /\ Len(rs) = w
    BY <1>5, <2>3, FunctionIsSeq
  <2> QED
    BY <2>4, <2>5
<1> HIDE DEF rs, w
<1>7. results' = results \o rs
  BY <1>3 DEF rs
<1>8. results \in Seq(Result) /\ DOMAIN results = 1..Len(results)
  BY DEF IInv, TypeOK
<1>9. /\ Grows /\ Len(results) \in Nat /\ Len(results') = Len(results) + w
      /\ \A n \in 1..Len(results) : results'[n] = results[n]
      /\ \A n \in (Len(results) + 1)..Len(results') :
           n - Len(results) \in 1..w /\ results'[n] = rs[n - Len(results)]
  BY <1>6, <1>7, <1>8, ConcatGrows DEF SameVerdict
<1>10. \A n \in (L + 1)..Len(results') :
         /\ results'[n].job = j /\ results'[n].src = "feature" /\ results'[n].of = i
         /\ results'[n].vacuous_reason = "none"
  BY <1>1, <1>6, <1>9
<1>11. \A k \in DOMAIN file' : k < j => JobAnswered(k)'
  BY <1>1, <1>4, <1>9, PastKept DEF AnsweredUpTo
<1>12. DOMAIN results' = 1..Len(results') /\ \A n \in 1..Len(results') : n \in 1..L \/ n \in (L + 1)..Len(results')
  BY <1>9 DEF Grows
<1>13. InFeatures(j)'
  <2>1. InFeatures(j)
    BY <1>1, <1>4 DEF AnsweredUpTo
  <2>2. ReportedFor(j, "clause")' = {} /\ ReportedFor(j, "skip")' = {}
    BY <1>9, <1>10, <2>1, ReportsGrow DEF InFeatures
  <2>3. ASSUME NEW f \in Features(j), f # i
        PROVE  IF f \in todo' THEN FeatureAt(j, f)' = {} ELSE FeatureAnswered(j, f)'
    BY <1>2, <1>4, <1>9, <1>10, <2>1, <2>3, FeatureKept DEF InFeatures
  <2>4. FeatureAt(j, i)' = (L + 1)..(L + w)
    <3>1. /\ ReportedFor(j, "feature")' = ReportedFor(j, "feature") \cup
               {n \in (L + 1)..Len(results') : results'[n].job = j /\ results'[n].src = "feature"}
          /\ \A n \in ReportedFor(j, "feature") : results'[n].of = results[n].of
      BY <1>9, ReportsGrow
    <3>2. \A n \in ReportedFor(j, "feature") : results[n].of # i
      BY <1>2, <1>5, <2>1 DEF InFeatures, FeatureAt
    <3>3. ReportedFor(j, "feature")' = ReportedFor(j, "feature") \cup ((L + 1)..Len(results'))
      BY <1>10, <3>1
    <3>4. FeatureAt(j, i)' = {n \in ReportedFor(j, "feature")' : results'[n].of = i}
      BY DEF FeatureAt
    <3>5. FeatureAt(j, i)' = (L + 1)..Len(results')
      BY <1>10, <3>1, <3>2, <3>3, <3>4
    <3> QED
      BY <1>9, <3>5
  <2>5. FeatureAnswered(j, i)' /\ i \notin todo'
    <3>1. w = file[j].clauses[i].nres
      BY <1>1 DEF w, ClausesOf
    <3> QED
      BY <1>2, <1>4, <1>9, <2>4, <3>1 DEF FeatureAnswered
  <2> QED
    BY <1>4, <2>2, <2>3, <2>5, SetsOfFile DEF InFeatures
<1>14. \A n \in DOMAIN results' : results'[n].job <= j
  BY <1>1, <1>8, <1>9, <1>10, <1>12 DEF AnsweredUpTo
<1>15. AnsweredUpTo(j)'
  BY <1>4, <1>11, <1>13, <1>14 DEF AnsweredUpTo
<1>16. VacuityOnOwnClause'
  BY <1>4, <1>8, <1>9, <1>10, <1>12, MarksKept DEF OrderInv
<1> QED
  BY <1>4, <1>15, <1>16 DEF OrderInv

\* The clause loop starts where the results end.
LEMMA EnterOrder ==
  ASSUME IInv, OrderInv, EnterClauseLoop
  PROVE  OrderInv'
<1>1. PICK j \in Nat : j = job /\ AnsweredUpTo(j)
  BY DEF OrderInv
<1>2. /\ file' = file /\ job' = j /\ results' = results /\ pc = "features" /\ pc' = "clauses"
      /\ todo = {} /\ todo' = Verifiable(j) /\ vacuity_from' = Len(results) /\ Grows
  BY <1>1, NoneGrows DEF EnterClauseLoop
<1>3. \A k \in DOMAIN file' : k < j => JobAnswered(k)'
  BY <1>1, <1>2, PastKept DEF AnsweredUpTo
<1>4. InFeatures(j) /\ \A n \in DOMAIN results : results[n].job <= j
  BY <1>1, <1>2 DEF AnsweredUpTo
<1>5. Len(results) \in Nat /\ DOMAIN results = 1..Len(results)
  BY DEF IInv, TypeOK
<1>6. \A src : ReportedFor(j, src)' = ReportedFor(j, src) /\ ReportedFor(j, src) \subseteq 1..Len(results)
  BY <1>2, <1>5 DEF ReportedFor
<1>7. (Len(results) + 1)..Len(results) = {}
  BY <1>5
<1>8. \A i \in Features(j)' : FeatureAnswered(j, i)'
  BY <1>2, <1>4, FeatureKept, SetsOfFile DEF InFeatures, Grows
<1>9. Verifiable(j)' = Verifiable(j)
  BY <1>2, SetsOfFile
<1>10. InClauses(j)'
  <2>1. /\ ReportedFor(j, "clause")' = {} /\ ReportedFor(j, "skip")' = {}
        /\ ReportedFor(j, "feature")' \subseteq 1..Len(results)
    BY <1>4, <1>6 DEF InFeatures
  <2>2. (vacuity_from' + 1)..Len(results') = {} /\ vacuity_from' <= Len(results')
    BY <1>2, <1>5, <1>7
  <2>3. {results'[n].of : n \in (vacuity_from' + 1)..Len(results')} = Verifiable(j)' \ todo'
    BY <1>2, <1>9, <2>2
  <2> QED
    BY <1>2, <1>8, <2>1, <2>2, <2>3 DEF InClauses
<1>11. AnsweredUpTo(j)'
  BY <1>2, <1>3, <1>4, <1>10 DEF AnsweredUpTo
<1>12. VacuityOnOwnClause'
  BY <1>2, MarksKept DEF OrderInv
<1> QED
  BY <1>2, <1>11, <1>12 DEF OrderInv

\* A clause is reported after all earlier clauses of its job and before all
\* later ones, whichever gate answers it.
LEMMA ClauseOrder ==
  ASSUME IInv, OrderInv, pc = "clauses", NEW i \in todo, IsNext(i), NEW tag \in Tags,
         results' = Append(results, NewResult("clause", i, tag)), todo' = todo \ {i},
         UNCHANGED <<file, job, pc, vacuity_from>>
  PROVE  OrderInv'
<1>1. PICK j \in Nat : j = job /\ AnsweredUpTo(j)
  BY DEF OrderInv
<1>2. InClauses(j)
  BY <1>1 DEF AnsweredUpTo
<1> DEFINE r == NewResult("clause", i, tag)
           L == Len(results)
           v == vacuity_from
<1>3. i \in Verifiable(j) /\ i \in Nat /\ todo \subseteq Nat /\ v \in Nat
  BY <1>1 DEF IInv, TypeOK
<1>4. /\ r \in Result /\ r.job = j /\ r.src = "clause" /\ r.of = i /\ r.vacuous_reason = "none"
  <2>1. r \in Result
    BY <1>1, <1>3, ReportedResult DEF Sources
  <2> QED
    BY <1>1, <2>1 DEF NewResult
<1> HIDE DEF r
<1>5. /\ Grows /\ L \in Nat /\ Len(results') = L + 1
      /\ results'[L + 1] = r
      /\ \A n \in 1..L : results'[n] = results[n]
  BY <1>1, <1>4, AppendGrows DEF r
<1>6. results \in Seq(Result) /\ DOMAIN results = 1..L /\ DOMAIN results' = 1..(L + 1) /\ v <= L
  BY <1>2, <1>5 DEF IInv, TypeOK, Grows, InClauses
<1>7. \A k \in DOMAIN file' : k < j => JobAnswered(k)'
  BY <1>1, <1>5, PastKept DEF AnsweredUpTo
<1>8. \A n \in DOMAIN results' : results'[n].job <= j
  BY <1>1, <1>4, <1>5, <1>6 DEF AnsweredUpTo
<1>9. (v + 1)..(L + 1) = ((v + 1)..L) \cup {L + 1} /\ (v + 1)..L \subseteq 1..L /\ (L + 1)..(L + 1) = {L + 1}
  BY <1>3, <1>5, <1>6
<1>10. InClauses(j)'
  <2>1. ReportedFor(j, "clause")' = (v + 1)..(L + 1)
    <3>1. ReportedFor(j, "clause")' =
            ReportedFor(j, "clause") \cup
              {n \in (L + 1)..(L + 1) : results'[n].job = j /\ results'[n].src = "clause"}
      BY <1>5, ReportsGrow
    <3>2. {n \in {L + 1} : results'[n].job = j /\ results'[n].src = "clause"} = {L + 1}
      BY <1>4, <1>5
    <3> QED
      BY <1>2, <1>9, <3>1, <3>2 DEF InClauses
  <2>2. ReportedFor(j, "feature")' \subseteq 1..v /\ ReportedFor(j, "skip")' = {}
    <3>1. \A src : ReportedFor(j, src)' = ReportedFor(j, src) \cup
                     {n \in (L + 1)..(L + 1) : results'[n].job = j /\ results'[n].src = src}
      BY <1>5, ReportsGrow
    <3>2. \A src \in {"feature", "skip"} : {n \in {L + 1} : results'[n].job = j /\ results'[n].src = src} = {}
      BY <1>4, <1>5
    <3> QED
      BY <1>2, <1>9, <3>1, <3>2 DEF InClauses
  <2>3. \A f \in Features(j)' : FeatureAnswered(j, f)'
    <3>1. \A n \in (L + 1)..Len(results') : results'[n].src # "feature"
      BY <1>4, <1>5, <1>9
    <3> QED
      BY <1>2, <1>5, <3>1, FeatureKept, SetsOfFile DEF InClauses
  <2>4. {results'[n].of : n \in (v + 1)..(L + 1)} = Verifiable(j)' \ todo'
    <3>1. {results'[n].of : n \in (v + 1)..(L + 1)} = {results[n].of : n \in (v + 1)..L} \cup {i}
      BY <1>4, <1>5, <1>9
    <3> QED
      BY <1>2, <1>3, <3>1, SetsOfFile DEF InClauses
  <2>5. \A m, n \in (v + 1)..(L + 1) : m < n => results'[m].of < results'[n].of
    <3> SUFFICES ASSUME NEW m \in (v + 1)..(L + 1), NEW n \in (v + 1)..(L + 1), m < n
                 PROVE  results'[m].of < results'[n].of
      OBVIOUS
    <3>1. m \in (v + 1)..L /\ results'[m] = results[m]
      BY <1>3, <1>5, <1>6, <1>9
    <3>2. CASE n = L + 1
      BY <1>2, <1>4, <1>5, <3>1, <3>2 DEF InClauses
    <3>3. CASE n # L + 1
      BY <1>2, <1>5, <1>9, <3>1, <3>3 DEF InClauses
    <3> QED
      BY <3>2, <3>3
  <2>6. \A n \in (v + 1)..(L + 1), k \in todo' : results'[n].of < k
    <3> SUFFICES ASSUME NEW n \in (v + 1)..(L + 1), NEW k \in todo \ {i}
                 PROVE  results'[n].of < k
      OBVIOUS
    <3>1. CASE n = L + 1
      <4>1. i <= k /\ i # k /\ k \in Nat
        BY <1>3 DEF IsNext
      <4> QED
        BY <1>3, <1>4, <1>5, <3>1, <4>1
    <3>2. CASE n # L + 1
      BY <1>2, <1>5, <1>9, <3>2 DEF InClauses
    <3> QED
      BY <3>1, <3>2
  <2>7. vacuity_from' = v /\ Len(results') = L + 1 /\ v <= L + 1
    BY <1>3, <1>5, <1>6
  <2> HIDE DEF L, v
  <2> QED
    BY <2>1, <2>2, <2>3, <2>4, <2>5, <2>6, <2>7 DEF InClauses
<1>11. AnsweredUpTo(j)'
  BY <1>1, <1>7, <1>8, <1>10 DEF AnsweredUpTo
<1>12. VacuityOnOwnClause'
  <2>1. \A n \in DOMAIN results' :
          (n \in DOMAIN results /\ results'[n] = results[n]) \/ results'[n].vacuous_reason = "none"
    BY <1>4, <1>5, <1>6
  <2> QED
    BY <2>1, MarksKept DEF OrderInv
<1> QED
  BY <1>1, <1>11, <1>12 DEF OrderInv

\* The zip of stamp_vacuity: the n-th verifiable clause is the one the n-th
\* result of the slice is about.
LEMMA ZipIsAligned ==
  ASSUME IInv, OrderInv, pc = "clauses", todo = {},
         NEW verifiable \in Ascending(Verifiable(job)), Len(verifiable) = Len(results) - vacuity_from,
         NEW n \in DOMAIN results, ZippedWith(n) \in DOMAIN verifiable
  PROVE  /\ results[n].src = "clause" /\ results[n].job = job
         /\ results[n].of = verifiable[ZippedWith(n)]
<1>1. PICK j \in Nat : j = job /\ AnsweredUpTo(j)
  BY DEF OrderInv
<1>2. InClauses(j)
  BY <1>1 DEF AnsweredUpTo
<1> DEFINE L == Len(results)
           v == vacuity_from
           S == Verifiable(job)
           K == Cardinality(S)
           a == [k \in 1..K |-> results[v + k].of]
<1>3. S \in SUBSET Nat /\ IsFiniteSet(S)
  BY IndexSets DEF IInv, TypeOK
<1>4. /\ K \in Nat /\ DOMAIN verifiable = 1..K /\ Len(verifiable) = K
      /\ Enumerates(verifiable, K, S)
  BY <1>3, AscendingIsOnto
<1>5. v \in Nat /\ L \in Nat /\ K = L - v /\ DOMAIN results = 1..L /\ v <= L
  <2>1. v \in Nat /\ results \in Seq(Result)
    BY DEF IInv, TypeOK
  <2>2. v <= L
    BY <1>2 DEF InClauses
  <2>3. K = L - v
    BY <1>4
  <2> QED
    BY <2>1, <2>2, <2>3
<1>6. /\ {results[m].of : m \in (v + 1)..L} = S
      /\ \A l, m \in (v + 1)..L : l < m => results[l].of < results[m].of
  BY <1>1, <1>2 DEF InClauses
<1> HIDE DEF S, K, L, v
<1>7. \A k \in 1..K : v + k \in (v + 1)..L
  BY <1>4, <1>5
<1>8. \A m \in (v + 1)..L : m - v \in 1..K /\ v + (m - v) = m
  BY <1>4, <1>5
<1>9. Enumerates(a, K, S)
  <2>1. Increasing(a, K)
    <3> SUFFICES ASSUME NEW i \in 1..K, NEW k \in 1..K, i < k PROVE a[i] < a[k]
      BY DEF Increasing
    <3>1. v + i < v + k
      BY <1>4, <1>5
    <3> QED
      BY <1>6, <1>7, <3>1
  <2>2. \A k \in 1..K : a[k] \in S
    BY <1>6, <1>7
  <2>3. \A x \in S : \E k \in 1..K : a[k] = x
    BY <1>6, <1>8
  <2> QED
    BY <2>1, <2>2, <2>3 DEF Enumerates
<1>10. \A k \in 1..K : a[k] = verifiable[k]
  <2>1. K \in Nat /\ S \in SUBSET Nat /\ Enumerates(a, K, S) /\ Enumerates(verifiable, K, S)
    BY <1>3, <1>4, <1>9, Zenon
  <2> HIDE DEF a
  <2>2. PICK c, T, b : c = K /\ T = S /\ b = a
    OBVIOUS
  <2>3. c \in Nat /\ T \in SUBSET Nat /\ Enumerates(b, c, T) /\ Enumerates(verifiable, c, T)
    BY <2>1, <2>2, Zenon
  <2>4. \A k \in 1..c : b[k] = verifiable[k]
    BY ONLY <2>3, OneEnumeration
  <2> QED
    BY <2>2, <2>4
<1>11. \A k \in 1..K : results[v + k].of = verifiable[k]
  BY <1>10
<1>12. n - v \in 1..K /\ v + (n - v) = n /\ n \in (v + 1)..L
  <2>1. n - v \in 1..K /\ n \in 1..L
    BY <1>4, <1>5 DEF ZippedWith, v
  <2> QED
    BY <1>4, <1>5, <2>1
<1>13. results[n].of = verifiable[n - v]
  BY <1>11, <1>12
<1>14. n \in ReportedFor(j, "clause")
  BY <1>2, <1>12 DEF InClauses, v, L
<1> QED
  BY <1>1, <1>13, <1>14 DEF ReportedFor, ZippedWith, v

\* A stamped result is marked with a reason of its own clause.
LEMMA StampMarksOwn ==
  ASSUME IInv, OrderInv, pc = "clauses", todo = {},
         NEW verifiable \in Ascending(Verifiable(job)), NEW proved \in SUBSET HoldsAlone(job),
         NEW n \in DOMAIN results
  PROVE  MarkOf(stamp_vacuity(results, verifiable, proved)[n],
                file[results[n].job].clauses[results[n].of])
<1> DEFINE r == results[n]
           c == file[results[n].job].clauses[results[n].of]
           stamped == stamp_vacuity(results, verifiable, proved)[n]
<1>1. MarkOf(r, c)
  BY MarksByClause DEF OrderInv
<1>2. CASE Len(verifiable) # Len(results) - vacuity_from
  BY <1>1, <1>2 DEF stamp_vacuity
<1>3. CASE Len(verifiable) = Len(results) - vacuity_from /\ ZippedWith(n) \notin DOMAIN verifiable
  BY <1>1, <1>3 DEF stamp_vacuity
<1>4. CASE Len(verifiable) = Len(results) - vacuity_from /\ ZippedWith(n) \in DOMAIN verifiable
  <2> DEFINE i == verifiable[ZippedWith(n)]
             reason == StampedReason(i, r, proved)
  <2>1. r.src = "clause" /\ r.job = job /\ r.of = i
    BY <1>4, ZipIsAligned
  <2>2. c = ClausesOf(job)[i]
    BY <2>1 DEF ClausesOf
  <2>3. stamped = [r EXCEPT !.vacuous_reason = reason]
    BY <1>4 DEF stamp_vacuity
  <2>4. r \in Result
    BY DEF IInv, TypeOK
  <2> SUFFICES MarkOf(stamped, c)
    OBVIOUS
  <2> HIDE DEF r, c, stamped, i, reason
  <2>5. stamped.vacuous_reason = reason /\ stamped.src = "clause" /\ stamped.tag = r.tag
    BY <2>1, <2>3, <2>4 DEF Result
  <2>6. CASE r.tag # "verified"
    <3>1. reason = r.vacuous_reason
      BY <2>6 DEF reason, StampedReason
    <3> QED
      BY <1>1, <2>5, <2>6, <3>1, Zenon DEF MarkOf
  <2>7. CASE r.tag = "verified" /\ clause_vacuity_reason(c) # "none"
    <3>1. reason = clause_vacuity_reason(c)
      BY <2>2, <2>7 DEF reason, StampedReason
    <3> QED
      BY <2>5, <2>7, <3>1 DEF MarkOf
  <2>8. CASE r.tag = "verified" /\ clause_vacuity_reason(c) = "none" /\ i \in proved
    <3>1. reason = "holds without the requires"
      BY <2>2, <2>8 DEF reason, StampedReason
    <3>2. c.kind = "ensures" /\ c.alone
      BY <2>2, <2>8 DEF HoldsAlone
    <3> QED
      BY <2>5, <2>8, <3>1, <3>2, Zenon DEF MarkOf
  <2>9. CASE r.tag = "verified" /\ clause_vacuity_reason(c) = "none" /\ i \notin proved
    <3>1. reason = r.vacuous_reason
      BY <2>2, <2>9 DEF reason, StampedReason
    <3> QED
      BY <1>1, <2>1, <2>5, <2>9, <3>1, Zenon DEF MarkOf
  <2> QED
    BY <2>6, <2>7, <2>8, <2>9
<1> QED
  BY <1>2, <1>3, <1>4

\* A finished job is answered: the skipped clauses come last.
LEMMA FinishOrder ==
  ASSUME IInv, OrderInv, FinishJob
  PROVE  OrderInv'
<1>1. PICK j \in Nat : j = job /\ AnsweredUpTo(j)
  BY DEF OrderInv
<1>2. PICK verifiable \in Ascending(Verifiable(job)), skipped \in Ascending(Skipped(job)),
           proved \in SUBSET HoldsAlone(job) :
        results' = stamp_vacuity(results, verifiable, proved)
                     \o [n \in DOMAIN skipped |-> NewResult("skip", skipped[n], "unknown")]
  BY DEF FinishJob
<1>3. file' = file /\ job' = j + 1 /\ pc = "clauses" /\ pc' = "job" /\ todo = {}
  BY <1>1 DEF FinishJob
<1>4. InClauses(j)
  BY <1>1, <1>3 DEF AnsweredUpTo
<1> DEFINE kept == stamp_vacuity(results, verifiable, proved)
           rs == [n \in DOMAIN skipped |-> NewResult("skip", skipped[n], "unknown")]
           L == Len(results)
           v == vacuity_from
           w == Cardinality(Skipped(job))
<1>5. /\ job \in DOMAIN file /\ Skipped(job) \in SUBSET Nat /\ IsFiniteSet(Skipped(job))
  BY <1>3, IndexSets DEF IInv, TypeOK
<1>6. w \in Nat /\ DOMAIN skipped = 1..w /\ Enumerates(skipped, w, Skipped(job))
  BY <1>5, AscendingIsOnto
<1>7. /\ rs \in Seq(Result) /\ Len(rs) = w
      /\ \A n \in 1..w : /\ rs[n].job = job /\ rs[n].src = "skip" /\ rs[n].of = skipped[n]
                         /\ rs[n].vacuous_reason = "none"
  <2>1. \A n \in 1..w : skipped[n] \in Nat
    BY <1>5, <1>6 DEF Enumerates
  <2>2. \A n \in 1..w : NewResult("skip", skipped[n], "unknown") \in Result
    BY <1>1, <2>1, ReportedResult DEF Sources, Tags
  <2>3. rs \in [1..w -> Result]
    BY <1>6, <2>2
  <2>4. \A n \in 1..w : /\ rs[n].job = job /\ rs[n].src = "skip" /\ rs[n].of = skipped[n]
                        /\ rs[n].vacuous_reason = "none"
    BY <1>6 DEF NewResult
  <2> HIDE DEF rs, w
  <2>5. rs \in Seq(Result) /\ Len(rs) = w
    BY <1>6, <2>3, FunctionIsSeq
  <2> QED
    BY <2>4, <2>5
<1>8. results \in Seq(Result) /\ DOMAIN results = 1..L /\ v \in Nat /\ v <= L /\ L \in Nat
  BY <1>4 DEF IInv, TypeOK, InClauses
<1>9. /\ kept \in Seq(Result) /\ Len(kept) = L
      /\ \A n \in DOMAIN results : SameVerdict(kept[n], results[n])
  BY <1>8, StampKeepsVerdicts DEF SameVerdict
<1>10. \A n \in 1..L : MarkOf(kept[n], file[kept[n].job].clauses[kept[n].of])
  BY <1>3, <1>8, <1>9, StampMarksOwn DEF SameVerdict
<1> HIDE DEF kept, rs, w
<1>11. results' = kept \o rs
  BY <1>2 DEF kept, rs
<1>12. /\ Grows /\ Len(results') = L + w
       /\ \A n \in 1..L : results'[n] = kept[n]
       /\ \A n \in (L + 1)..Len(results') : n - L \in 1..w /\ results'[n] = rs[n - L]
  BY <1>7, <1>8, <1>9, <1>11, ConcatGrows
<1>13. \A n \in (L + 1)..(L + w) :
         /\ n - L \in 1..w
         /\ results'[n].job = j /\ results'[n].src = "skip" /\ results'[n].of = skipped[n - L]
         /\ results'[n].vacuous_reason = "none"
  BY <1>1, <1>7, <1>12
<1>14. DOMAIN results' = 1..(L + w) /\ \A n \in 1..(L + w) : n \in 1..L \/ n \in (L + 1)..(L + w)
  BY <1>6, <1>8, <1>12 DEF Grows
<1>15. JobAnswered(j)'
  <2>1. \A src : ReportedFor(j, src)' =
                   ReportedFor(j, src) \cup
                     {n \in (L + 1)..(L + w) : results'[n].job = j /\ results'[n].src = src}
    BY <1>12, ReportsGrow
  <2>2. \A src : \A n \in ReportedFor(j, src) : results'[n].of = results[n].of
    BY <1>12, ReportsGrow
  <2>3. ReportedFor(j, "clause")' = (v + 1)..L
    BY <1>4, <1>13, <2>1 DEF InClauses
  <2>4. ReportedFor(j, "feature")' \subseteq 1..v
    BY <1>4, <1>13, <2>1 DEF InClauses
  <2>5. ReportedFor(j, "skip")' = (L + 1)..(L + w)
    BY <1>4, <1>13, <2>1 DEF InClauses
  <2>6. \A n \in (v + 1)..L : results'[n].of = results[n].of
    BY <1>4, <2>2 DEF InClauses
  <2>7. {results'[n].of : n \in ReportedFor(j, "clause")'} = Verifiable(j)'
    BY <1>3, <1>4, <2>3, <2>6, SetsOfFile DEF InClauses
  <2>8. {results'[n].of : n \in ReportedFor(j, "skip")'} = Skipped(j)'
    <3>1. Skipped(j)' = Skipped(job)
      BY <1>1, <1>3, SetsOfFile
    <3>2. \A k \in 1..w : k + L \in (L + 1)..(L + w) /\ (k + L) - L = k
      BY <1>6, <1>8
    <3>3. \A x \in Skipped(job) : \E n \in (L + 1)..(L + w) : results'[n].of = x
      <4> TAKE x \in Skipped(job)
      <4>1. PICK k \in 1..w : skipped[k] = x
        BY <1>6 DEF Enumerates
      <4>2. k + L \in (L + 1)..(L + w) /\ results'[k + L].of = skipped[(k + L) - L]
        BY <1>13, <3>2
      <4> QED
        BY <3>2, <4>1, <4>2
    <3>4. \A n \in (L + 1)..(L + w) : results'[n].of \in Skipped(job)
      BY <1>6, <1>13 DEF Enumerates
    <3> QED
      BY <2>5, <3>1, <3>3, <3>4
  <2>9. \A m, n \in ReportedFor(j, "clause")' : m < n => results'[m].of < results'[n].of
    <3>1. \A m, n \in (v + 1)..L : m < n => results[m].of < results[n].of
      BY <1>4 DEF InClauses
    <3> SUFFICES ASSUME NEW m \in (v + 1)..L, NEW n \in (v + 1)..L, m < n
                 PROVE  results'[m].of < results'[n].of
      BY <2>3
    <3>2. results'[m].of = results[m].of /\ results'[n].of = results[n].of
      BY <2>6
    <3> QED
      BY <3>1, <3>2
  <2>10. \A m, n \in ReportedFor(j, "skip")' : m < n => results'[m].of < results'[n].of
    <3> SUFFICES ASSUME NEW m \in (L + 1)..(L + w), NEW n \in (L + 1)..(L + w), m < n
                 PROVE  results'[m].of < results'[n].of
      BY <2>5
    <3>1. m - L \in 1..w /\ n - L \in 1..w /\ m - L < n - L
      BY <1>6, <1>8
    <3> QED
      BY <1>6, <1>13, <3>1 DEF Enumerates, Increasing
  <2>11. \A i \in Features(j)' : FeatureAnswered(j, i)'
    <3>1. \A n \in (L + 1)..Len(results') : results'[n].src # "feature"
      BY <1>12, <1>13
    <3> QED
      BY <1>3, <1>4, <1>12, <3>1, FeatureKept, SetsOfFile DEF InClauses
  <2>12. \A f \in ReportedFor(j, "feature")', c \in ReportedFor(j, "clause")' : f < c
    BY <1>8, <2>3, <2>4
  <2>13. \A f \in ReportedFor(j, "feature")' \cup ReportedFor(j, "clause")', x \in ReportedFor(j, "skip")' : f < x
    <3>1. \A f \in ReportedFor(j, "feature")' \cup ReportedFor(j, "clause")' : f \in 1..L
      BY <1>8, <2>3, <2>4
    <3> QED
      BY <1>6, <1>8, <2>5, <3>1
  <2> QED
    BY <2>7, <2>8, <2>9, <2>10, <2>11, <2>12, <2>13 DEF JobAnswered
<1>16. \A k \in DOMAIN file' : k < j + 1 => JobAnswered(k)'
  <2>1. \A k \in DOMAIN file' : k < j => JobAnswered(k)'
    BY <1>1, <1>3, <1>12, PastKept DEF AnsweredUpTo
  <2>2. \A k \in DOMAIN file' : k \in Nat
    BY <1>3, FileType DEF IInv, TypeOK
  <2>3. \A k \in DOMAIN file' : k < j + 1 => k < j \/ k = j
    BY <2>2
  <2> QED
    BY <1>15, <2>1, <2>3
<1>17. \A n \in DOMAIN results' : results'[n].job < j + 1 /\ results'[n].job <= j + 1
  <2>1. \A n \in 1..L : results'[n].job = results[n].job /\ results[n].job <= j /\ results[n].job \in Nat
    <3>1. \A n \in 1..L : results[n] \in Result
      BY <1>8
    <3>2. \A n \in 1..L : results'[n].job = results[n].job
      BY <1>12 DEF Grows, SameVerdict
    <3> QED
      BY <1>1, <1>8, <3>1, <3>2 DEF AnsweredUpTo, Result
  <2> QED
    BY <1>13, <1>14, <2>1
<1>18. AnsweredUpTo(j + 1)'
  BY <1>3, <1>16, <1>17 DEF AnsweredUpTo
<1>19. VacuityOnOwnClause'
  <2>1. \A n \in DOMAIN results' : MarkOf(results'[n], file[results'[n].job].clauses[results'[n].of])
    <3> TAKE n \in DOMAIN results'
    <3>1. CASE n \in 1..L
      <4>1. results'[n] = kept[n]
        BY <1>12, <3>1
      <4> QED
        BY <1>10, <3>1, <4>1
    <3>2. CASE n \in (L + 1)..(L + w)
      <4>1. results'[n].vacuous_reason = "none"
        BY <1>13, <3>2
      <4> QED
        BY <4>1, Zenon DEF MarkOf
    <3> QED
      BY <1>14, <3>1, <3>2
  <2>2. VacuityOnOwnClause' <=>
          \A n \in DOMAIN results' : MarkOf(results'[n], file'[results'[n].job].clauses[results'[n].of])
    BY Zenon DEF VacuityOnOwnClause, MarkOf, ClauseOf
  <2> QED
    BY <1>3, <2>1, <2>2
<1> QED
  BY <1>3, <1>18, <1>19 DEF OrderInv

\* The results of the advanced passes belong to no job of the file.
LEMMA AdvancedOrder ==
  ASSUME IInv, OrderInv, AdvancedPasses
  PROVE  OrderInv'
<1>1. PICK j \in Nat : j = job /\ AnsweredUpTo(j)
  BY DEF OrderInv
<1>2. PICK tags \in AdvancedResults :
        results' = results \o [n \in DOMAIN tags |-> NewResult("advanced", n, tags[n])]
  BY DEF AdvancedPasses
<1> DEFINE rs == [n \in DOMAIN tags |-> NewResult("advanced", n, tags[n])]
           L == Len(results)
           w == Len(tags)
<1>3. file' = file /\ job' = j /\ pc = "job" /\ pc' = "done"
  BY <1>1 DEF AdvancedPasses
<1>4. w \in Nat /\ DOMAIN tags = 1..w /\ \A n \in 1..w : tags[n] \in Tags
  BY AdvancedAssumption
<1>5. /\ rs \in Seq(Result) /\ Len(rs) = w
      /\ \A n \in 1..w : rs[n].job = job /\ rs[n].vacuous_reason = "none"
  <2>1. \A n \in 1..w : NewResult("advanced", n, tags[n]) \in Result
    BY <1>1, <1>4, ReportedResult DEF Sources
  <2>2. rs \in [1..w -> Result]
    BY <1>4, <2>1
  <2>3. \A n \in 1..w : rs[n].job = job /\ rs[n].vacuous_reason = "none"
    BY <1>4 DEF NewResult
  <2> HIDE DEF rs, w
  <2>4. rs \in Seq(Result) /\ Len(rs) = w
    BY <1>4, <2>2, FunctionIsSeq
  <2> QED
    BY <2>3, <2>4
<1> HIDE DEF rs, w
<1>6. results' = results \o rs
  BY <1>2 DEF rs
<1>7. results \in Seq(Result) /\ DOMAIN results = 1..L
  BY DEF IInv, TypeOK
<1>8. /\ Grows /\ L \in Nat /\ Len(results') = L + w
      /\ \A n \in 1..L : results'[n] = results[n]
      /\ \A n \in (L + 1)..Len(results') : n - L \in 1..w /\ results'[n] = rs[n - L]
  BY <1>5, <1>6, <1>7, ConcatGrows DEF SameVerdict
<1>9. DOMAIN results' = 1..Len(results') /\ \A n \in 1..Len(results') : n \in 1..L \/ n \in (L + 1)..Len(results')
  BY <1>8 DEF Grows
<1>10. \A n \in (L + 1)..Len(results') : results'[n].job = j /\ results'[n].vacuous_reason = "none"
  BY <1>1, <1>5, <1>8
<1>11. \A k \in DOMAIN file' : k < j => JobAnswered(k)'
  BY <1>1, <1>3, <1>8, PastKept DEF AnsweredUpTo
<1>12. \A n \in DOMAIN results' : results'[n].job <= j
  BY <1>1, <1>7, <1>8, <1>9, <1>10 DEF AnsweredUpTo
<1>13. AnsweredUpTo(j)'
  BY <1>3, <1>11, <1>12 DEF AnsweredUpTo
<1>14. VacuityOnOwnClause'
  BY <1>3, <1>7, <1>8, <1>9, <1>10, MarksKept DEF OrderInv
<1> QED
  BY <1>3, <1>13, <1>14 DEF OrderInv

\* The order of the results is kept by every step.
LEMMA NextOrder ==
  ASSUME IInv, OrderInv, [Next]_vars
  PROVE  OrderInv'
<1>1. CASE BeginJob
  BY <1>1, BeginOrder
<1>2. CASE DispatchFeature
  BY <1>2, FeatureOrder
<1>3. CASE EnterClauseLoop
  BY <1>3, EnterOrder
<1>4. CASE UnmodelablePrecheck
  <2>1. PICK i \in todo : /\ IsNext(i) /\ todo' = todo \ {i}
                          /\ results' = Append(results, NewResult("clause", i, "unknown"))
    BY <1>4 DEF UnmodelablePrecheck
  <2>2. "unknown" \in Tags
    BY DEF Tags
  <2> QED
    BY <1>4, <2>1, <2>2, ClauseOrder DEF UnmodelablePrecheck
<1>5. CASE SessionCacheLookup
  <2>1. PICK i \in todo :
          /\ IsNext(i) /\ todo' = todo \ {i}
          /\ clause_session_cache_key(i) \in DOMAIN session
          /\ results' = Append(results, NewResult("clause", i,
                          result_from_session_cache_tag(session[clause_session_cache_key(i)])))
    BY <1>5 DEF SessionCacheLookup
  <2>2. result_from_session_cache_tag(session[clause_session_cache_key(i)]) \in Tags
    BY <2>1, TagTypes DEF IInv, TypeOK
  <2> QED
    BY <1>5, <2>1, <2>2, ClauseOrder DEF SessionCacheLookup
<1>6. CASE SolverWork
  <2>1. PICK i \in todo :
          /\ IsNext(i) /\ todo' = todo \ {i}
          /\ \E outcome \in check_sat(CheckedFrames(i)) :
               results' = Append(results, NewResult("clause", i,
                            interpret_clause_check_result(ClausesOf(job)[i].kind, outcome)))
    BY <1>6 DEF SolverWork
  <2>2. PICK outcome \in check_sat(CheckedFrames(i)) :
          results' = Append(results, NewResult("clause", i,
                       interpret_clause_check_result(ClausesOf(job)[i].kind, outcome)))
    BY <2>1
  <2>3. outcome \in Outcomes
    BY DEF check_sat, Outcomes
  <2>4. interpret_clause_check_result(ClausesOf(job)[i].kind, outcome) \in Tags
    BY <2>3, TagTypes
  <2> QED
    BY <1>6, <2>1, <2>2, <2>4, ClauseOrder DEF SolverWork
<1>7. CASE FinishJob
  BY <1>7, FinishOrder
<1>8. CASE AdvancedPasses
  BY <1>8, AdvancedOrder
<1>9. CASE UNCHANGED vars
  <2>1. PICK j \in Nat : j = job /\ AnsweredUpTo(j)
    BY DEF OrderInv
  <2>2. /\ file' = file /\ job' = j /\ results' = results /\ pc' = pc /\ todo' = todo
        /\ vacuity_from' = vacuity_from
    BY <1>9, <2>1 DEF vars
  <2>3. /\ \A k, src : ReportedFor(k, src)' = ReportedFor(k, src)
        /\ \A k, i : FeatureAt(k, i)' = FeatureAt(k, i)
        /\ \A k : Features(k)' = Features(k) /\ Verifiable(k)' = Verifiable(k) /\ Skipped(k)' = Skipped(k)
    BY <2>2, SetsOfFile DEF ReportedFor, FeatureAt
  <2>4. \A k, i : FeatureAnswered(k, i)' <=> FeatureAnswered(k, i)
    BY <2>2, <2>3 DEF FeatureAnswered
  <2>5. \A k : JobAnswered(k) => JobAnswered(k)'
    BY <2>2, <2>3, <2>4 DEF JobAnswered
  <2>6. InFeatures(j) => InFeatures(j)'
    BY <2>2, <2>3, <2>4 DEF InFeatures
  <2>7. InClauses(j) => InClauses(j)'
    BY <2>2, <2>3, <2>4 DEF InClauses
  <2>8. AnsweredUpTo(j)'
    BY <2>1, <2>2, <2>5, <2>6, <2>7 DEF AnsweredUpTo
  <2>9. VacuityOnOwnClause'
    BY <2>2, MarksKept DEF OrderInv
  <2> QED
    BY <2>2, <2>8, <2>9 DEF OrderInv
<1> QED
  BY <1>1, <1>2, <1>3, <1>4, <1>5, <1>6, <1>7, <1>8, <1>9 DEF Next

LEMMA InitOrder == Init => OrderInv
<1> SUFFICES ASSUME Init PROVE OrderInv
  OBVIOUS
<1>1. DOMAIN results = {} /\ job = 1 /\ pc = "job"
  BY DEF Init
<1>2. \A k \in DOMAIN file : ~(k < 1)
  BY FileType DEF Init
<1>3. AnsweredUpTo(1)
  BY <1>1, <1>2 DEF AnsweredUpTo
<1> QED
  BY <1>1, <1>3 DEF OrderInv, VacuityOnOwnClause

LEMMA AlwaysOrder == Spec => [](IInv /\ OrderInv)
<1>1. IInv /\ OrderInv /\ [Next]_vars => (IInv /\ OrderInv)'
  BY NextIInv, NextOrder
<1>2. Init => IInv /\ OrderInv
  BY InitIInv, InitOrder
<1> QED
  BY <1>1, <1>2, PTL DEF Spec

\* A finished job has one result for each clause the loop was given, in clause
\* order, all the results of its feature clauses before them, and one Unknown
\* for each skipped clause after them.
THEOREM JobsAreAnswered == Spec => []AnsweredInOrder
<1>1. IInv /\ OrderInv => AnsweredInOrder
  <2> SUFFICES ASSUME IInv, OrderInv, NEW j \in DOMAIN file, j < job,
                      JobAnswered(j)
               PROVE  /\ \A src \in {"clause", "skip"} :
                           LET at == ReportedFor(j, src) IN
                           /\ {results[n].of : n \in at} = (IF src = "clause" THEN Verifiable(j) ELSE Skipped(j))
                           /\ \A m, n \in at : m < n => results[m].of < results[n].of
                      /\ \A i \in Features(j) :
                           Cardinality({n \in ReportedFor(j, "feature") : results[n].of = i})
                             = file[j].clauses[i].nres
                      /\ \A f \in ReportedFor(j, "feature"), c \in ReportedFor(j, "clause") : f < c
                      /\ \A f \in ReportedFor(j, "feature") \cup ReportedFor(j, "clause"),
                            s \in ReportedFor(j, "skip") : f < s
    BY DEF OrderInv, AnsweredUpTo, AnsweredInOrder
  <2>1. ASSUME NEW i \in Features(j)
        PROVE  Cardinality(FeatureAt(j, i)) = file[j].clauses[i].nres
    <3>1. PICK p \in Nat : FeatureAt(j, i) = (p + 1)..(p + file[j].clauses[i].nres)
      BY <2>1 DEF JobAnswered, FeatureAnswered
    <3>2. file[j].clauses[i].nres \in Nat
      <4>1. i \in DOMAIN file[j].clauses
        BY DEF Features, Work, ClausesOf
      <4>2. file[j].clauses[i] \in Clause
        BY <4>1, FileType DEF IInv, TypeOK
      <4> QED
        BY <4>2 DEF Clause
    <3> DEFINE w == file[j].clauses[i].nres
    <3> HIDE DEF w
    <3>3. w \in Nat
      BY <3>2 DEF w
    <3>4. Cardinality((p + 1)..(p + w)) = w
      BY <3>3, FS_Interval
    <3> QED
      BY <3>1, <3>4 DEF w
  <2> QED
    BY <2>1 DEF JobAnswered, FeatureAt
<1> QED
  BY AlwaysOrder, <1>1, PTL

\* A vacuity mark is on the result of the clause it was computed for.
THEOREM MarksAreOwn == Spec => []VacuityOnOwnClause
<1>1. OrderInv => VacuityOnOwnClause
  BY DEF OrderInv
<1> QED
  BY AlwaysOrder, <1>1, PTL

-----------------------------------------------------------------------------
(* The refinement: a step of the loop adds honest entries to the abstract  *)
(* report, or stutters.                                                    *)

\* The verdicts given so far stay where they are.
KeepsVerdicts ==
  /\ Len(results) <= Len(results')
  /\ \A n \in 1..Len(results) : SameVerdict(results'[n], results[n])

LEMMA ConcatKeepsVerdicts ==
  ASSUME results \in Seq(Result),
         NEW kept \in Seq(Result), Len(kept) = Len(results),
         \A n \in 1..Len(results) : SameVerdict(kept[n], results[n]),
         NEW T, NEW m \in Nat, NEW rs \in [1..m -> T],
         results' = kept \o rs
  PROVE  KeepsVerdicts
<1>1. rs \in Seq(T) /\ kept \in Seq(Result \cup T) /\ rs \in Seq(Result \cup T)
  BY FunctionIsSeq
<1>2. /\ Len(results') = Len(kept) + Len(rs) /\ Len(kept) \in Nat /\ Len(rs) \in Nat
      /\ \A n \in 1..Len(kept) : results'[n] = kept[n]
  BY <1>1
<1> QED
  BY <1>2 DEF KeepsVerdicts

LEMMA StepKeepsVerdicts ==
  ASSUME IInv, [Next]_vars
  PROVE  KeepsVerdicts /\ file' = file
<1>0. /\ results \in Seq(Result) /\ Len(results) \in Nat /\ DOMAIN results = 1..Len(results)
      /\ \A n \in 1..Len(results) : SameVerdict(results[n], results[n])
  BY DEF IInv, TypeOK, SameVerdict
<1>1. file' = file
  BY DEF Next, vars, BeginJob, DispatchFeature, EnterClauseLoop, UnmodelablePrecheck,
         SessionCacheLookup, SolverWork, FinishJob, AdvancedPasses
<1>2. ASSUME results' = results PROVE KeepsVerdicts
  BY <1>0, <1>2 DEF KeepsVerdicts
<1>3. ASSUME NEW r, results' = Append(results, r) PROVE KeepsVerdicts
  <2>1. results \in Seq(Result \cup {r}) /\ r \in Result \cup {r}
    BY <1>0
  <2>2. Len(results') = Len(results) + 1 /\ \A n \in 1..Len(results) : results'[n] = results[n]
    BY <1>3, <2>1, AppendProperties
  <2> QED
    BY <1>0, <2>2 DEF KeepsVerdicts
<1>4. CASE BeginJob \/ EnterClauseLoop \/ UNCHANGED vars
  BY <1>2, <1>4 DEF BeginJob, EnterClauseLoop, vars
<1>5. CASE UnmodelablePrecheck \/ SessionCacheLookup \/ SolverWork
  <2>1. \E r : results' = Append(results, r)
    BY <1>5 DEF UnmodelablePrecheck, SessionCacheLookup, SolverWork
  <2> QED
    BY <1>1, <1>3, <2>1
<1>6. CASE DispatchFeature
  <2>1. PICK i \in todo : \E tags \in [1..ClausesOf(job)[i].nres -> Tags] :
          results' = results \o [n \in DOMAIN tags |-> NewResult("feature", i, tags[n])]
    BY <1>6 DEF DispatchFeature
  <2> DEFINE w == ClausesOf(job)[i].nres
  <2>2. PICK tags \in [1..w -> Tags] :
          results' = results \o [n \in DOMAIN tags |-> NewResult("feature", i, tags[n])]
    BY <2>1
  <2> DEFINE T == {NewResult("feature", i, tags[n]) : n \in 1..w}
             rs == [n \in DOMAIN tags |-> NewResult("feature", i, tags[n])]
  <2>3. w \in Nat
    <3>1. job \in DOMAIN file /\ i \in DOMAIN ClausesOf(job)
      BY <1>6, IndexSets DEF DispatchFeature, IInv, TypeOK
    <3>2. ClausesOf(job)[i] \in Clause
      BY <3>1, FileType DEF IInv, TypeOK, ClausesOf
    <3> QED
      BY <3>2 DEF Clause
  <2>4. rs \in [1..w -> T] /\ results' = results \o rs
    BY <2>2
  <2> HIDE DEF w, T, rs
  <2> QED
    BY <1>0, <1>1, <2>3, <2>4, ConcatKeepsVerdicts
<1>7. CASE FinishJob
  <2>1. PICK verifiable \in Ascending(Verifiable(job)), skipped \in Ascending(Skipped(job)),
             proved \in SUBSET HoldsAlone(job) :
          results' = stamp_vacuity(results, verifiable, proved)
                       \o [n \in DOMAIN skipped |-> NewResult("skip", skipped[n], "unknown")]
    BY <1>7 DEF FinishJob
  <2> DEFINE kept == stamp_vacuity(results, verifiable, proved)
             w == Cardinality(Skipped(job))
             T == {NewResult("skip", skipped[n], "unknown") : n \in 1..w}
             rs == [n \in DOMAIN skipped |-> NewResult("skip", skipped[n], "unknown")]
  <2>2. /\ kept \in Seq(Result) /\ Len(kept) = Len(results)
        /\ \A n \in 1..Len(results) : SameVerdict(kept[n], results[n])
    BY <1>0, StampKeepsVerdicts DEF SameVerdict
  <2>3. w \in Nat /\ DOMAIN skipped = 1..w
    <3>1. Skipped(job) \in SUBSET Nat /\ IsFiniteSet(Skipped(job))
      BY <1>7, IndexSets DEF FinishJob, IInv, TypeOK
    <3> QED
      BY <3>1, AscendingIsOnto
  <2>4. rs \in [1..w -> T] /\ results' = kept \o rs
    BY <2>1, <2>3
  <2> HIDE DEF kept, w, T, rs
  <2> QED
    BY <1>0, <1>1, <2>2, <2>3, <2>4, ConcatKeepsVerdicts
<1>8. CASE AdvancedPasses
  <2>1. PICK tags \in AdvancedResults :
          results' = results \o [n \in DOMAIN tags |-> NewResult("advanced", n, tags[n])]
    BY <1>8 DEF AdvancedPasses
  <2> DEFINE w == Len(tags)
             T == {NewResult("advanced", n, tags[n]) : n \in 1..w}
             rs == [n \in DOMAIN tags |-> NewResult("advanced", n, tags[n])]
  <2>2. w \in Nat /\ DOMAIN tags = 1..w
    BY AdvancedAssumption
  <2>3. rs \in [1..w -> T] /\ results' = results \o rs
    BY <2>1, <2>2
  <2> HIDE DEF w, T, rs
  <2> QED
    BY <1>0, <1>1, <2>2, <2>3, ConcatKeepsVerdicts
<1> QED
  BY <1>1, <1>4, <1>5, <1>6, <1>7, <1>8 DEF Next

\* The abstract report.
Reported == [n \in DOMAIN results |-> [about |-> About(results[n]), tag |-> results[n].tag]]

\* The clause loop implements HonestReport: the verdicts form a report that
\* only grows, in which no verdict given earlier is changed or withdrawn (not
\* even by stamp_vacuity, which rewrites the finished slice), and every new
\* one is honest.
THEOREM LoopImplementsReport == Spec => ImplementsHonestReport
<1>1. Init => Abstract!Init
  BY DEF Init, Abstract!Init
<1>2. ASSUME IInv, IInv', [Next]_vars
      PROVE  [Abstract!Next]_Reported
  <2>1. KeepsVerdicts /\ file' = file
    BY <1>2, StepKeepsVerdicts
  <2>2. /\ results \in Seq(Result) /\ results' \in Seq(Result)
        /\ DOMAIN results = 1..Len(results) /\ DOMAIN results' = 1..Len(results')
        /\ Len(results) \in Nat /\ Len(results') \in Nat
    BY <1>2 DEF IInv, TypeOK
  <2>3. \A n \in DOMAIN results' : /\ Reported'[n] \in Abstract!Entry
                                   /\ Abstract!Honest(Reported'[n])
    <3> SUFFICES ASSUME NEW n \in DOMAIN results'
                 PROVE  Reported'[n] \in Abstract!Entry /\ Abstract!Honest(Reported'[n])
      OBVIOUS
    <3>0. results'[n] \in Result
      BY <2>2
    <3>1. /\ results'[n].tag \in Tags
          /\ Reported'[n] = [about |-> About(results[n])', tag |-> results'[n].tag]
      BY <3>0 DEF Reported, Result
    <3>2. About(results[n])' \in {"true_claim", "false_claim", "external"}
      BY DEF About
    <3>3. results'[n].src = "clause" =>
            /\ results'[n].tag = "verified" => Claim(ClauseOf(results[n]))'
            /\ results'[n].tag = "counterexample" => ~Claim(ClauseOf(results[n]))'
      BY <1>2 DEF IInv, VerdictIsRight
    <3> QED
      BY <3>1, <3>2, <3>3 DEF Abstract!Entry, Abstract!Honest, About, Tags, Abstract!Tags
  <2>4. /\ DOMAIN Reported' = 1..Len(results') /\ DOMAIN Reported = 1..Len(results)
        /\ Reported' \in Seq(Abstract!Entry) /\ Reported \in Seq(Abstract!Entry)
        /\ Len(Reported') = Len(results') /\ Len(Reported) = Len(results)
    <3>1. Reported \in [1..Len(results) -> Abstract!Entry]
      <4> SUFFICES ASSUME NEW n \in 1..Len(results)
                   PROVE  [about |-> About(results[n]), tag |-> results[n].tag] \in Abstract!Entry
        BY <2>2 DEF Reported
      <4>0. results[n] \in Result
        BY <2>2
      <4>1. results[n].tag \in Tags
        BY <4>0 DEF Result
      <4>2. About(results[n]) \in {"true_claim", "false_claim", "external"}
        BY DEF About
      <4> QED
        BY <4>1, <4>2 DEF Abstract!Entry, Tags, Abstract!Tags
    <3>2. Reported' \in [1..Len(results') -> Abstract!Entry]
      BY <2>2, <2>3 DEF Reported
    <3> HIDE DEF Reported
    <3>3. Reported \in Seq(Abstract!Entry) /\ Reported' \in Seq(Abstract!Entry)
      BY <2>2, <3>1, <3>2, FunctionIsSeq
    <3> QED
      BY <2>2, <3>1, <3>2, <3>3
  <2>5. \A n \in 1..Len(results) : Reported'[n] = Reported[n]
    <3> SUFFICES ASSUME NEW n \in 1..Len(results) PROVE Reported'[n] = Reported[n]
      OBVIOUS
    <3>1. SameVerdict(results'[n], results[n]) /\ n \in DOMAIN results'
      BY <2>1, <2>2 DEF KeepsVerdicts
    <3>2. About(results[n])' = About(results[n])
      BY <2>1, <3>1 DEF About, SameVerdict, ClauseOf, Claim
    <3> QED
      BY <2>2, <3>1, <3>2 DEF Reported, SameVerdict
  <2>6. Abstract!Extend
    BY <2>1, <2>2, <2>3, <2>4, <2>5 DEF Abstract!Extend, KeepsVerdicts, Reported
  <2> QED
    BY <2>6 DEF Abstract!Next
<1> QED
  BY <1>1, <1>2, InitIInv, NextIInv, PTL DEF Spec, ImplementsHonestReport, Abstract!Spec, Reported
=============================================================================
