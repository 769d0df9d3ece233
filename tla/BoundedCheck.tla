---------------------------- MODULE BoundedCheck ----------------------------
(***************************************************************************)
(* The bounded model checker of assura-smt (Layer 3) and the k-induction   *)
(* prover built on it, as an algorithm over finite transition systems.     *)
(*                                                                         *)
(* The engine unrolls the whole transition relation, then asks the solver  *)
(* one question per step (safety) or per loop point (liveness).            *)
(* k-induction runs the engine twice: on paths of K steps from the initial *)
(* states (base), then on paths of K + 1 steps from any state that satisfy *)
(* an induction hypothesis (step).  A state stands for the values of all   *)
(* state variables; a predicate is the set of states it holds in.          *)
(***************************************************************************)
EXTENDS Naturals, FiniteSets

CONSTANTS
  States,      \* states of the checked systems
  Start,       \* states that satisfy the initial constraints
  Bounds,      \* BmcConfig.bound, KInductionConfig.k: the values it may have
  Atoms,       \* sets of states that one comparison describes
  Losses,      \* what the predicate parser may fail to understand
  DeadEnds,    \* whether checked systems may have states without successor
  GivesUp      \* whether the solver may answer unknown without a timeout

\* Initial and transition constraints are parsed one by one and a constraint
\* that is not understood is not asserted: starts and edges are what the lost
\* ones would have excluded.  The property, or only its negation (that of
\* true and false is never understood), may be lost as well.
Loss ==
  [starts : SUBSET States, edges : SUBSET (States \X States), text : SUBSET {"property", "negation"}]

ASSUME BoundsAssumption == Bounds \subseteq Nat
ASSUME StatesAssumption == IsFiniteSet(States)
ASSUME StartAssumption == Start \subseteq States
ASSUME AtomsAssumption == Atoms \subseteq SUBSET States
ASSUME LossesAssumption == Losses \subseteq Loss

VARIABLES
  k,          \* the configured bound
  trans,      \* transition relation of the obligation
  prop,       \* property of the obligation
  lost,       \* what the parser does not understand of the obligation
  phase,      \* "base", "step" or "done"
  query,      \* step, or loop point, the next question is about
  base,       \* BmcResult of the base case
  verdict,    \* KInductionResult
  undecided   \* history: phases in which an unknown was passed over

bmcVars == <<k, trans, prop, lost, phase, query, base, verdict, undecided>>
obligation == <<k, trans, prop, lost>>

\* BmcProperty: a bad predicate or a goal predicate, one comparison p, or
\* two joined by && or ||.
BmcProperty == [kind : {"safety", "liveness"}, op : {"atom", "and", "or"}, p : Atoms, q : Atoms]

IsSafety == prop.kind = "safety"

\* The states the predicate of the property holds in.
Predicate ==
  CASE prop.op = "atom" -> prop.p
    [] prop.op = "and"  -> prop.p \cap prop.q
    [] prop.op = "or"   -> prop.p \cup prop.q

\* negate_predicate turns one comparison of the text around.
negate_predicate ==
  CASE prop.op = "atom" -> States \ prop.p
    [] prop.op = "and"  -> (States \ prop.p) \cap prop.q
    [] prop.op = "or"   -> (States \ prop.p) \cup prop.q

-----------------------------------------------------------------------------
(* The questions to the solver.                                            *)

\* Mutant of Bound: the step unrolls no further than the base case.
MutantBound == k

\* Number of transitions unrolled.
Bound == IF phase = "base" THEN k ELSE k + 1

\* The transitions that the asserted constraints allow.
Edges == trans \cup lost.edges

\* Mutant of InitialHolds: the base case starts anywhere as well.
MutantInitialHolds(t) == TRUE

\* Initial constraints of the base case; the step starts anywhere.
InitialHolds(t) == phase = "base" => t[0] \in Start \cup lost.starts

\* Induction hypothesis of the step, for safety only.
HypothesisHolds(t) ==
  phase = "step" /\ IsSafety /\ "negation" \notin lost.text =>
    \A j \in 0..k : t[j] \in negate_predicate

\* Negated goal, asserted at every step for liveness.
GoalFails(t) ==
  ~IsSafety /\ "property" \notin lost.text => \A j \in 0..Bound : t[j] \notin Predicate

\* Models of what is asserted before the first question.
Unrolled ==
  {t \in [0..Bound -> States] :
     /\ \A j \in 0..(Bound - 1) : <<t[j], t[j + 1]>> \in Edges
     /\ InitialHolds(t)
     /\ HypothesisHolds(t)
     /\ GoalFails(t)}

\* Models of the question: the bad predicate at this step, or the last state
\* equal to the one at this loop point.
Models ==
  {t \in Unrolled : IF IsSafety THEN t[query] \in Predicate ELSE t[query] = t[Bound]}

\* Mutant of HasQuery: the last step is never asked about.
MutantHasQuery == query < Bound

\* Steps 0..Bound for safety, loop points 0..Bound - 1 for liveness.
HasQuery == IF IsSafety THEN query <= Bound ELSE query < Bound

\* A bad predicate that is not understood is not asserted and not checked.
IsChecked == IsSafety => "property" \notin lost.text

-----------------------------------------------------------------------------
(* The run.                                                                *)

Total(r) == \A s \in States : \E t \in States : <<s, t>> \in r

BmcInit ==
  /\ k \in Bounds
  /\ trans \in SUBSET (States \X States)
  /\ DeadEnds \/ Total(trans)
  /\ prop \in BmcProperty
  /\ IF prop.op = "atom" THEN prop.q = prop.p ELSE prop.q # prop.p
  /\ lost \in Losses
  /\ phase = "base" /\ query = 0
  /\ base = "none" /\ verdict = "none"
  /\ undecided = {}

\* check returns r for the phase; prove goes on to the step only when the
\* base case is safe.
Return(r) ==
  /\ IF phase = "base"
     THEN /\ base' = r
          /\ IF r = "safe"
             THEN phase' = "step" /\ query' = 0 /\ UNCHANGED verdict
             ELSE /\ phase' = "done"
                  /\ verdict' = IF r = "unknown" THEN "unknown" ELSE "counterexample"
                  /\ UNCHANGED query
     ELSE /\ phase' = "done"
          /\ verdict' = IF r = "safe" THEN "verified" ELSE "unknown"
          /\ UNCHANGED <<base, query>>
  /\ UNCHANGED <<obligation, undecided>>

NextQuery == query' = query + 1 /\ UNCHANGED <<obligation, phase, base, verdict>>

Asks == phase # "done" /\ HasQuery

\* SatResult::Sat.
Sat ==
  /\ Asks /\ IsChecked
  /\ Models # {}
  /\ Return(IF IsSafety THEN "counterexample" ELSE "lasso")

\* SatResult::Unsat.
Unsat ==
  /\ Asks /\ IsChecked
  /\ Models = {}
  /\ NextQuery
  /\ UNCHANGED undecided

\* SatResult::Unknown with a timeout as its reason.
TimedOut == Asks /\ IsChecked /\ Return("unknown")

\* SatResult::Unknown with another reason: the loop goes on.
Incomplete ==
  /\ Asks /\ IsChecked
  /\ GivesUp
  /\ NextQuery
  /\ undecided' = undecided \cup {phase}

\* The bad predicate does not parse: nothing is asked at this step.
Unchecked == Asks /\ ~IsChecked /\ NextQuery /\ UNCHANGED undecided

\* All questions are behind: BmcResult::Safe.
Exhausted == phase # "done" /\ ~HasQuery /\ Return("safe")

BmcNext == Sat \/ Unsat \/ TimedOut \/ Incomplete \/ Unchecked \/ Exhausted

BmcSpec == BmcInit /\ [][BmcNext]_bmcVars

-----------------------------------------------------------------------------
(* Reference definitions, on the system itself and not on paths.           *)

Image(S) == {t \in States : \E s \in S : <<s, t>> \in trans}

\* States reached in exactly n steps, and in at most n steps.
Post == LET P[n \in Nat] == IF n = 0 THEN Start ELSE Image(P[n - 1]) IN P
ReachedWithin(n) == UNION {Post[i] : i \in 0..n}

Reachable == ReachedWithin(Cardinality(States))

\* States of walks that avoid the goal: in n steps from S.
Avoid(S) ==
  LET A[n \in Nat] == IF n = 0 THEN S \ Predicate ELSE Image(A[n - 1]) \ Predicate IN A

\* Some cycle that avoids the goal is closed within n steps.
CycleWithin(n) ==
  \E i \in 0..n, l \in 1..n :
    i + l <= n /\ \E s \in Avoid(Start)[i] : s \in Avoid({s})[l]

\* States from which the system can take n more steps.
GoesOn ==
  LET G[n \in Nat] == IF n = 0 THEN States
                      ELSE {s \in States : \E t \in G[n - 1] : <<s, t>> \in trans} IN G

\* Bad states i steps away on a path that can go on to step k, and those the
\* system gets stuck behind before.
BadOnPath(i) == Post[i] \cap Predicate \cap GoesOn[k - i]
BadBeforeDeadEnd(i) == (Post[i] \cap Predicate) \ GoesOn[k - i]

\* Nothing the base case depends on is lost.
IsUnderstood ==
  lost.starts \subseteq Start /\ lost.edges \subseteq trans /\ "property" \notin lost.text

-----------------------------------------------------------------------------
(* Properties.                                                             *)

\* Type correctness of the engine's and the prover's state.
BmcTypeOK ==
  /\ k \in Bounds
  /\ trans \subseteq States \X States
  /\ prop \in BmcProperty
  /\ lost \in Losses
  /\ phase \in {"base", "step", "done"}
  /\ query \in 0..(Bound + 1)
  /\ base \in {"none", "safe", "counterexample", "lasso", "unknown"}
  /\ verdict \in {"none", "verified", "counterexample", "unknown"}
  /\ undecided \subseteq {"base", "step"}

\* A BMC answer safe covers every execution of K steps: no bad state is on
\* one, at any of its K + 1 states, and no cycle that avoids the goal is
\* closed within K steps.  Lost constraints do not matter, and neither do
\* dead ends: only a bad state from which the system cannot go on to step K
\* escapes (the unrolling before the loop of check_safety_z3).
SafeCoversBound ==
  base = "safe" /\ IsChecked /\ "base" \notin undecided =>
    IF IsSafety THEN \A i \in 0..k : BadOnPath(i) = {} ELSE ~CycleWithin(k)

\* A counterexample is an execution of K steps with a bad state at exactly
\* the reported step, and none has one earlier; a lasso is a cycle that
\* avoids the goal.
CounterexampleIsReal ==
  IsUnderstood =>
    /\ base = "counterexample" =>
         /\ BadOnPath(query) # {}
         /\ undecided = {} => \A i \in 0..(query - 1) : BadOnPath(i) = {}
    /\ base = "lasso" => \E s \in Avoid(Start)[query] : s \in Avoid({s})[k - query]

\* Verified by k-induction means no execution of any length reaches a bad
\* state, whatever constraints were lost, unless one does so within K steps
\* in front of a dead end, or the bad predicate is a conjunction.
VerifiedIsUnbounded ==
  verdict = "verified" /\ IsSafety /\ IsChecked /\ prop.op # "and" /\ undecided = {} =>
    Reachable \cap Predicate = {} \/ \E i \in 0..k : BadBeforeDeadEnd(i) # {}

\* "Check a safety property: is a bad state reachable within K steps?": the
\* answer safe means that none is.
SafeMeansUnreachable ==
  base = "safe" /\ IsSafety => ReachedWithin(k) \cap Predicate = {}

\* "Property proven for ALL executions (unbounded)", for the safety property
\* of a system whose constraints are all understood and decided.
VerifiedSafetyHolds ==
  verdict = "verified" /\ IsSafety => Reachable \cap Predicate = {}

\* The same for a liveness property: no execution avoids the goal forever.
VerifiedLivenessHolds ==
  verdict = "verified" /\ ~IsSafety => ~CycleWithin(Cardinality(States))

=============================================================================
