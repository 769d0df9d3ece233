---------------------------- MODULE LinearUsage -----------------------------
(***************************************************************************)
(* The linearity checker of assura-types: one walk over the clauses of a   *)
(* declaration counts the uses of every graded parameter, forks its        *)
(* context at if and match, merges the branches, and compares the counts   *)
(* with the grades at the end.                                             *)
(*                                                                         *)
(* The program is chosen while it is walked: each action visits one node,  *)
(* or enters or leaves a node with branches.  Nodes that only visit their  *)
(* children in order (calls, operators, lists, blocks) are sequences of    *)
(* actions.  The history variable paths holds what the executions of the   *)
(* part already walked would count: one function per execution, each       *)
(* taking one branch wherever there are several.                           *)
(***************************************************************************)
EXTENDS Naturals, Sequences

CONSTANTS
  Vars,      \* graded parameters of the declaration
  MaxExact,  \* bound: largest n of the grades exact n
  MaxNodes   \* bound: nodes and branches of the program

ASSUME MaxExactAssumption == MaxExact \in Nat
ASSUME MaxNodesAssumption == MaxNodes \in Nat
ASSUME VarsAssumption == "none" \notin Vars

VARIABLES
  grade,   \* expected usage of each parameter
  ctx,     \* usage counts of the context the walk is in
  frames,  \* enclosing if, match and let nodes, innermost last
  errors,  \* diagnostics: code and parameter
  pc,      \* "walk" or "done"
  size,    \* nodes visited
  paths,   \* history: counts of the executions of the current branch
  hidden   \* history: parameters some inner binding had the name of

vars == <<grade, ctx, frames, errors, pc, size, paths, hidden>>

Counts == [Vars -> Nat]

\* UsageGrade; n is 0 for erased and 1 for linear.
UsageGrade ==
       [kind : {"unlimited"}, n : {0}]
  \cup [kind : {"erased"}, n : {0}]
  \cup [kind : {"linear"}, n : {1}]
  \cup [kind : {"exact"}, n : 0..MaxExact]

\* A node with branches: the context before it (base), the contexts of the
\* branches already walked (arms), and the executions belonging to them.
Frame ==
  [kind : {"if", "match", "let"}, name : Vars \cup {"none"}, base : Counts,
   arms : Seq(Counts), basePaths : SUBSET Counts, armPaths : Seq(SUBSET Counts)]

Top == frames[Len(frames)]
Pop == [i \in 1..(Len(frames) - 1) |-> frames[i]]

-----------------------------------------------------------------------------
(* UsageTracker and LinearContext.                                         *)

use_var(c, x) == [c EXCEPT ![x] = @ + 1]

saturating_sub(a, b) == IF a >= b THEN a - b ELSE 0

\* How often x is used in branch i beyond its uses before the branches.
delta(base, arms, i, x) == saturating_sub(arms[i][x], base[x])

\* Linear and exact grades are compared across branches.
is_compared(x) == grade[x].kind \in {"linear", "exact"}

\* Parameters of which the branches differ (A05004).
Inconsistent(base, arms) ==
  {x \in Vars : /\ is_compared(x)
                /\ \E i \in 1..Len(arms) : delta(base, arms, i, x) # delta(base, arms, 1, x)}

max_delta(base, arms, x) ==
  CHOOSE d \in {delta(base, arms, i, x) : i \in 1..Len(arms)} :
    \A i \in 1..Len(arms) : delta(base, arms, i, x) <= d

\* merge and merge_arms: used if used in any branch.
Merged(base, arms) == [x \in Vars |-> base[x] + max_delta(base, arms, x)]

\* UsageTracker::check for one parameter used k times.
check_grade(g, k) ==
  CASE g.kind = "erased" /\ k > 0 -> {"A05002"}
    [] g.kind = "linear" /\ k = 0 -> {"A05002"}
    [] g.kind = "linear" /\ k > 1 -> {"A05001"}
    [] g.kind = "exact" /\ k # g.n -> {"A05003"}
    [] OTHER -> {}

-----------------------------------------------------------------------------
Init ==
  /\ grade \in [Vars -> UsageGrade]
  /\ ctx = [x \in Vars |-> 0]
  /\ frames = <<>>
  /\ errors = {}
  /\ pc = "walk"
  /\ size = 0
  /\ paths = {[x \in Vars |-> 0]}
  /\ hidden = {}

Visits == pc = "walk" /\ size < MaxNodes /\ size' = size + 1

IsHidden(x) == \E i \in 1..Len(frames) : frames[i].name = x

\* Expr::Ident: a use of whatever is called x.
Ident(x) ==
  /\ Visits
  /\ ctx' = use_var(ctx, x)
  /\ paths' = IF IsHidden(x) THEN paths ELSE {use_var(p, x) : p \in paths}
  /\ UNCHANGED <<grade, frames, errors, pc, hidden>>

\* Literals, and what is erased: old, ghost, apply, quantifiers, raw tokens.
Childless ==
  /\ Visits
  /\ UNCHANGED <<grade, ctx, frames, errors, pc, paths, hidden>>

\* The condition, scrutinee or bound value has been walked; a branch, or the
\* body of a let, begins.  Patterns of a match and lets bind a name.
Enter(kind, name) ==
  /\ Visits
  /\ kind = "if" => name = "none"
  /\ frames' = Append(frames, [kind |-> kind, name |-> name, base |-> ctx, arms |-> <<>>,
                               basePaths |-> paths, armPaths |-> <<>>])
  /\ hidden' = hidden \cup ({name} \ {"none"})
  /\ UNCHANGED <<grade, ctx, errors, pc, paths>>

\* Mutant: the next arm goes on where the last one ended.
MutantNextArm(name) ==
  /\ Visits
  /\ frames # <<>>
  /\ \/ Top.kind = "if" /\ Top.arms = <<>> /\ name = "none"
     \/ Top.kind = "match"
  /\ frames' = [frames EXCEPT ![Len(frames)].name = name,
                              ![Len(frames)].arms = Append(@, ctx),
                              ![Len(frames)].armPaths = Append(@, paths)]
  /\ hidden' = hidden \cup ({name} \ {"none"})
  /\ paths' = Top.basePaths
  /\ UNCHANGED <<grade, ctx, errors, pc>>

\* Else, or the next arm of a match, in a fresh copy of the context.
NextArm(name) ==
  /\ Visits
  /\ frames # <<>>
  /\ \/ Top.kind = "if" /\ Top.arms = <<>> /\ name = "none"
     \/ Top.kind = "match"
  /\ frames' = [frames EXCEPT ![Len(frames)].name = name,
                              ![Len(frames)].arms = Append(@, ctx),
                              ![Len(frames)].armPaths = Append(@, paths)]
  /\ hidden' = hidden \cup ({name} \ {"none"})
  /\ ctx' = Top.base
  /\ paths' = Top.basePaths
  /\ UNCHANGED <<grade, errors, pc>>

\* Mutant: an if without else has one branch only.
MutantAllArms == Append(Top.arms, ctx)

\* Without else, the other branch uses nothing.
AllArms ==
  IF Top.kind = "if" /\ Top.arms = <<>> THEN <<ctx, Top.base>> ELSE Append(Top.arms, ctx)

AllArmPaths ==
  IF Top.kind = "if" /\ Top.arms = <<>> THEN <<paths, Top.basePaths>>
  ELSE Append(Top.armPaths, paths)

Merge ==
  /\ pc = "walk"
  /\ frames # <<>>
  /\ Top.kind # "let"
  /\ errors' = errors \cup {<<"A05004", x>> : x \in Inconsistent(Top.base, AllArms)}
  /\ ctx' = Merged(Top.base, AllArms)
  /\ paths' = UNION {AllArmPaths[i] : i \in 1..Len(AllArmPaths)}
  /\ frames' = Pop
  /\ UNCHANGED <<grade, pc, size, hidden>>

\* The body of a let ends.
EndLet ==
  /\ pc = "walk"
  /\ frames # <<>>
  /\ Top.kind = "let"
  /\ frames' = Pop
  /\ UNCHANGED <<grade, ctx, errors, pc, size, paths, hidden>>

\* All clauses are walked: ctx.check().
Check ==
  /\ pc = "walk"
  /\ frames = <<>>
  /\ pc' = "done"
  /\ errors' = errors \cup UNION {check_grade(grade[x], ctx[x]) \X {x} : x \in Vars}
  /\ UNCHANGED <<grade, ctx, frames, size, paths, hidden>>

Next ==
  \/ \E x \in Vars : Ident(x)
  \/ Childless
  \/ \E kind \in {"if", "match", "let"}, name \in Vars \cup {"none"} : Enter(kind, name)
  \/ \E name \in Vars \cup {"none"} : NextArm(name)
  \/ Merge
  \/ EndLet
  \/ Check

Spec == Init /\ [][Next]_vars

-----------------------------------------------------------------------------
(* Properties.                                                             *)

Reports(x) == \E e \in errors : e[2] = x

\* What the grade g says of one execution that uses the parameter k times.
Allowed(g, k) == g.kind = "unlimited" \/ k = g.n

\* Every variable has its type; no branch is open once the walk is done.
TypeOK ==
  /\ grade \in [Vars -> UsageGrade]
  /\ ctx \in Counts
  /\ frames \in Seq(Frame)
  /\ \A i \in 1..Len(frames) : Len(frames[i].arms) = Len(frames[i].armPaths)
  /\ errors \subseteq {"A05001", "A05002", "A05003", "A05004"} \X Vars
  /\ pc \in {"walk", "done"}
  /\ (pc = "done" => frames = <<>>)
  /\ size \in 0..MaxNodes
  /\ paths \in SUBSET Counts
  /\ hidden \subseteq Vars

\* An accepted parameter is used as its grade says in every execution, however
\* the branches nest, unless an inner binding took its name.
AcceptedIsUsedAsGraded ==
  pc = "done" =>
    \A x \in Vars \ hidden : ~Reports(x) => \A p \in paths : Allowed(grade[x], p[x])

\* A parameter that every execution uses as its grade says is not reported:
\* merging by the maximum costs no precision.
NoFalseAlarm ==
  pc = "done" =>
    \A x \in Vars \ hidden : (\A p \in paths : Allowed(grade[x], p[x])) => ~Reports(x)

\* The same as the first without its exception ("Linear variable `X` not used:
\* Grade 1, never consumed").
UnusedIsReported ==
  pc = "done" =>
    \A x \in Vars : (grade[x].kind = "linear" /\ \A p \in paths : p[x] = 0) => Reports(x)
=============================================================================
