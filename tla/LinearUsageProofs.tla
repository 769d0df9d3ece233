------------------------- MODULE LinearUsageProofs --------------------------
(***************************************************************************)
(* Proofs about the linearity checker, for any parameters, grades and      *)
(* programs: a context of counts stands for a set of executions.  For a    *)
(* parameter no inner binding hides, the count is the largest use of any   *)
(* execution, and the use of all of them unless a difference was reported; *)
(* a reported difference is one between two executions that exist.  So the *)
(* final check accepts exactly the parameters every execution uses as      *)
(* graded.                                                                 *)
(***************************************************************************)
EXTENDS LinearUsage, SequenceTheorems, WellFoundedInduction, TLAPS

-----------------------------------------------------------------------------
(* The inductive invariant.                                                *)

\* x was reported for branches that differ.
Differs(x) == <<"A05004", x>> \in errors

\* The count c of x is that of the executions P: none uses x more often, one
\* uses it as often, and all do unless a difference was reported.
Summarises(c, P, x) ==
  /\ \A p \in P : p[x] <= c[x]
  /\ \E p \in P : p[x] = c[x]
  /\ is_compared(x) /\ ~Differs(x) => \A p \in P : p[x] = c[x]

\* Two executions of P use x differently.
Split(P, x) == \E p, q \in P : p[x] # q[x]

\* So do the counts kept in a frame.
FrameSummarises(f, x) ==
  /\ Summarises(f.base, f.basePaths, x)
  /\ \A j \in 1..Len(f.arms) : Summarises(f.arms[j], f.armPaths[j], x)

\* A branch counts at least what came before it.
FrameGrows(f) == \A j \in 1..Len(f.arms) : \A x \in Vars : f.base[x] <= f.arms[j][x]

\* Counts only grow along the walk, so that no subtraction saturates.
CountsGrow ==
  /\ \A i \in 1..Len(frames) : FrameGrows(frames[i])
  /\ \A i \in 1..(Len(frames) - 1) : \A x \in Vars : frames[i].base[x] <= frames[i + 1].base[x]
  /\ frames # <<>> => \A x \in Vars : Top.base[x] <= ctx[x]

\* A let has a body and no branches.
LetHasNoArms == \A i \in 1..Len(frames) : frames[i].kind = "let" => frames[i].arms = <<>>

\* The names the open nodes bind are among the hidden ones.
NamesHide == \A i \in 1..Len(frames) : frames[i].name \in hidden \cup {"none"}

\* The contexts, of this branch and of those walked, stand for their executions.
CountsSummarise ==
  \A x \in Vars \ hidden :
    /\ Summarises(ctx, paths, x)
    /\ \A i \in 1..Len(frames) : FrameSummarises(frames[i], x)

\* A difference that was reported is still there, in this branch or in one
\* already walked.
DifferenceStays ==
  \A x \in Vars \ hidden : Differs(x) =>
    /\ is_compared(x)
    /\ \/ Split(paths, x)
       \/ \E i \in 1..Len(frames) : \E j \in 1..Len(frames[i].arms) : Split(frames[i].armPaths[j], x)

\* The other diagnostics come from the final check.
OthersAreFinal ==
  /\ pc = "walk" => errors \subseteq {"A05004"} \X Vars
  /\ pc = "done" =>
       \A x \in Vars :
         Reports(x) <=> Differs(x) \/ check_grade(grade[x], ctx[x]) # {}

UsageInv ==
  /\ TypeOK /\ CountsGrow /\ NamesHide /\ LetHasNoArms
  /\ CountsSummarise /\ DifferenceStays /\ OthersAreFinal

-----------------------------------------------------------------------------
(* Merging.                                                                *)

\* A nonempty set of numbers has a least one.
LEMMA LeastNumber ==
  ASSUME NEW S \in SUBSET Nat, S # {}
  PROVE  \E n \in S : \A m \in S : n <= m
<1> DEFINE R == {ss \in Nat \X Nat : ss[1] < ss[2]}
<1>1. IsWellFoundedOn(R, Nat)
  <2>1. OpToRel(<, Nat) = R
    BY Zenon DEF OpToRel
  <2> QED
    BY <2>1, NatLessThanWellFounded, Zenon
<1> HIDE DEF R
<1>2. PICK n \in S : \A m \in S : <<m, n>> \notin R
  BY <1>1, WFMin
<1>3. \A m \in S : ~(m < n)
  BY <1>2 DEF R
<1> QED
  BY <1>3

\* Of finitely many numbers one is the largest.
LEMMA LargestOfMany ==
  ASSUME NEW n \in Nat \ {0}, NEW g, \A i \in 1..n : g[i] \in Nat
  PROVE  \E i \in 1..n : \A j \in 1..n : g[j] <= g[i]
<1> DEFINE Largest(m) == \E i \in 1..m : \A j \in 1..m : g[j] <= g[i]
           Bad == {m \in 1..n : ~Largest(m)}
<1> SUFFICES ASSUME ~Largest(n) PROVE FALSE
  OBVIOUS
<1>0. n \in Bad /\ Bad \in SUBSET Nat
  OBVIOUS
<1>1. PICK m \in Bad : \A k \in Bad : m <= k
  <2> HIDE DEF Bad
  <2> QED
    BY <1>0, LeastNumber
<1>2. m \in 1..n /\ ~Largest(m) /\ \A k \in 1..n : k < m => Largest(k)
  BY <1>1
<1>3. CASE m = 1
  <2>1. \A j \in 1..1 : j = 1 /\ g[j] \in Nat
    OBVIOUS
  <2>2. Largest(1)
    BY <2>1
  <2> QED
    BY <1>2, <1>3, <2>2
<1>4. CASE m # 1
  <2>1. m - 1 \in 1..n /\ m - 1 < m
    BY <1>2, <1>4
  <2>2. Largest(m - 1)
    BY <1>2, <2>1
  <2>3. PICK i \in 1..(m - 1) : \A j \in 1..(m - 1) : g[j] <= g[i]
    BY <2>2
  <2>4. i \in 1..m /\ m \in 1..m /\ \A j \in 1..m : j \in 1..(m - 1) \/ j = m
    BY <1>2
  <2>5. \A j \in 1..m : g[j] \in Nat
    BY <1>2
  <2>6. CASE g[i] <= g[m]
    <3>1. ASSUME NEW j \in 1..m PROVE g[j] <= g[m]
      <4>1. j = m \/ g[j] <= g[i]
        BY <2>3, <2>4
      <4>2. g[j] \in Nat /\ g[i] \in Nat /\ g[m] \in Nat
        BY <2>4, <2>5
      <4> QED
        BY <2>6, <4>1, <4>2
    <3> QED
      BY <1>2, <2>4, <3>1
  <2>7. CASE ~(g[i] <= g[m])
    <3>1. ASSUME NEW j \in 1..m PROVE g[j] <= g[i]
      <4>1. j = m \/ g[j] <= g[i]
        BY <2>3, <2>4
      <4>2. g[j] \in Nat /\ g[i] \in Nat /\ g[m] \in Nat
        BY <2>4, <2>5
      <4> QED
        BY <2>7, <4>1, <4>2
    <3> QED
      BY <1>2, <2>4, <3>1
  <2> QED
    BY <2>6, <2>7
<1> QED
  BY <1>3, <1>4

\* The counts of a base and of its branches are numbers.
LEMMA CountsInArms ==
  ASSUME NEW bs \in Seq(Counts), bs # <<>>, NEW b \in Counts
  PROVE  /\ Len(bs) \in Nat \ {0}
         /\ \A j \in 1..Len(bs) : \A y \in Vars : bs[j][y] \in Nat
         /\ \A y \in Vars : b[y] \in Nat
<1>1. Len(bs) \in Nat /\ Len(bs) # 0
  BY EmptySeq
<1>2. \A j \in 1..Len(bs) : bs[j] \in [Vars -> Nat]
  BY ElementOfSeq DEF Counts
<1> QED
  BY <1>1, <1>2 DEF Counts

\* What a branch adds.
LEMMA DeltaIsUse ==
  ASSUME NEW b, NEW bs, NEW j, NEW y, b[y] \in Nat, bs[j][y] \in Nat
  PROVE  /\ delta(b, bs, j, y) \in Nat
         /\ b[y] <= bs[j][y] => b[y] + delta(b, bs, j, y) = bs[j][y]
BY DEF delta, saturating_sub

\* merge adds to the base the largest use in any branch.
LEMMA MergedIsMax ==
  ASSUME NEW b \in Counts, NEW bs \in Seq(Counts), bs # <<>>, NEW x \in Vars,
         \A j \in 1..Len(bs) : b[x] <= bs[j][x]
  PROVE  /\ Merged(b, bs) \in Counts
         /\ \A j \in 1..Len(bs) : bs[j][x] <= Merged(b, bs)[x]
         /\ \E j \in 1..Len(bs) : bs[j][x] = Merged(b, bs)[x]
         /\ b[x] <= Merged(b, bs)[x]
<1>1. /\ Len(bs) \in Nat \ {0}
      /\ \A j \in 1..Len(bs) : \A y \in Vars : bs[j][y] \in Nat
      /\ \A y \in Vars : b[y] \in Nat
  BY CountsInArms
<1>2. \A j \in 1..Len(bs), y \in Vars : delta(b, bs, j, y) \in Nat
  BY <1>1, DeltaIsUse
<1>3. ASSUME NEW y \in Vars
      PROVE  /\ \E j \in 1..Len(bs) : max_delta(b, bs, y) = delta(b, bs, j, y)
             /\ \A j \in 1..Len(bs) : delta(b, bs, j, y) <= max_delta(b, bs, y)
  <2> DEFINE g == [j \in 1..Len(bs) |-> delta(b, bs, j, y)]
             D == {delta(b, bs, j, y) : j \in 1..Len(bs)}
             n == Len(bs)
  <2>1. n \in Nat \ {0} /\ \A j \in 1..n : g[j] \in Nat
    BY <1>1, <1>2
  <2>2. PICK i \in 1..n : \A j \in 1..n : g[j] <= g[i]
    <3> HIDE DEF g, n
    <3> QED
      BY <2>1, LargestOfMany
  <2>3. delta(b, bs, i, y) \in D /\ \A j \in 1..n : delta(b, bs, j, y) <= delta(b, bs, i, y)
    BY <2>2
  <2>4. max_delta(b, bs, y) \in D /\ \A j \in 1..Len(bs) : delta(b, bs, j, y) <= max_delta(b, bs, y)
    BY <2>3 DEF max_delta
  <2> QED
    BY <2>4
<1>4. \A y \in Vars : max_delta(b, bs, y) \in Nat
  BY <1>2, <1>3
<1>5. Merged(b, bs) \in Counts
  <2>1. ASSUME NEW y \in Vars PROVE b[y] + max_delta(b, bs, y) \in Nat
    <3>1. b[y] \in Nat /\ max_delta(b, bs, y) \in Nat
      BY <1>1, <1>4
    <3> QED
      BY <3>1
  <2> QED
    BY <2>1 DEF Merged, Counts
<1>6. Merged(b, bs)[x] = b[x] + max_delta(b, bs, x)
  BY DEF Merged
<1>7. \A j \in 1..Len(bs) : b[x] + delta(b, bs, j, x) = bs[j][x] /\ bs[j][x] \in Nat /\ b[x] \in Nat
  BY <1>1, DeltaIsUse
<1>8. PICK i \in 1..Len(bs) : max_delta(b, bs, x) = delta(b, bs, i, x)
  BY <1>3
<1>9. bs[i][x] = Merged(b, bs)[x]
  BY <1>6, <1>7, <1>8
<1>10. \A j \in 1..Len(bs) : bs[j][x] <= Merged(b, bs)[x]
  <2> SUFFICES ASSUME NEW j \in 1..Len(bs) PROVE bs[j][x] <= Merged(b, bs)[x]
    OBVIOUS
  <2>1. delta(b, bs, j, x) <= max_delta(b, bs, x) /\ delta(b, bs, j, x) \in Nat /\ max_delta(b, bs, x) \in Nat
    BY <1>2, <1>3, <1>4
  <2> QED
    BY <1>6, <1>7, <2>1
<1> QED
  BY <1>5, <1>9, <1>10

\* The merged context summarises the executions of all branches, and a
\* difference that is reported is one between two of them.
LEMMA MergeSummarises ==
  ASSUME TypeOK,
         NEW b \in Counts, NEW bs \in Seq(Counts), bs # <<>>, NEW ps, NEW x \in Vars,
         \A j \in 1..Len(bs) : b[x] <= bs[j][x] /\ ps[j] \subseteq Counts /\ Summarises(bs[j], ps[j], x),
         NEW all, \A p : p \in all <=> \E j \in 1..Len(bs) : p \in ps[j]
  PROVE  /\ \A p \in all : p[x] <= Merged(b, bs)[x]
         /\ \E p \in all : p[x] = Merged(b, bs)[x]
         /\ (is_compared(x) /\ ~Differs(x) /\ x \notin Inconsistent(b, bs)) => \A p \in all : p[x] = Merged(b, bs)[x]
         /\ x \in Inconsistent(b, bs) => Split(all, x)
<1> DEFINE m == Merged(b, bs)[x]
<1>0. /\ Len(bs) \in Nat \ {0} /\ b[x] \in Nat /\ m \in Nat
      /\ \A j \in 1..Len(bs) : bs[j][x] \in Nat /\ bs[j][x] <= m
      /\ \E j \in 1..Len(bs) : bs[j][x] = m
      /\ \A j \in 1..Len(bs) : \A p \in ps[j] : p[x] \in Nat
  <2>1. \A j \in 1..Len(bs) : \A p \in ps[j] : p[x] \in Nat
    <3> SUFFICES ASSUME NEW j \in 1..Len(bs), NEW p \in ps[j] PROVE p[x] \in Nat
      OBVIOUS
    <3>1. p \in [Vars -> Nat]
      BY DEF Counts
    <3> QED
      BY <3>1
  <2>2. m \in Nat
    <3>1. Merged(b, bs) \in [Vars -> Nat]
      BY MergedIsMax DEF Counts
    <3> QED
      BY <3>1
  <2>3. /\ Len(bs) \in Nat \ {0} /\ b[x] \in Nat
        /\ \A j \in 1..Len(bs) : bs[j][x] \in Nat
    BY CountsInArms
  <2>4. /\ \A j \in 1..Len(bs) : bs[j][x] <= m
        /\ \E j \in 1..Len(bs) : bs[j][x] = m
    BY MergedIsMax
  <2> QED
    BY <2>1, <2>2, <2>3, <2>4
<1> HIDE DEF m
<1>1. ASSUME NEW p \in all PROVE p[x] <= m
  <2>1. PICK j \in 1..Len(bs) : p \in ps[j]
    OBVIOUS
  <2>2. p[x] <= bs[j][x] /\ p[x] \in Nat /\ bs[j][x] <= m /\ bs[j][x] \in Nat
    BY <1>0, <2>1 DEF Summarises
  <2> QED
    BY <1>0, <2>2
<1>2. \E p \in all : p[x] = m
  BY <1>0 DEF Summarises
<1>3. \A j \in 1..Len(bs) : b[x] + delta(b, bs, j, x) = bs[j][x] /\ delta(b, bs, j, x) \in Nat
  BY <1>0, DeltaIsUse
<1>4. ASSUME is_compared(x), ~Differs(x), x \notin Inconsistent(b, bs), NEW p \in all
      PROVE  p[x] = m
  <2>1. PICK j \in 1..Len(bs) : p \in ps[j]
    OBVIOUS
  <2>2. p[x] = bs[j][x]
    BY <1>4, <2>1 DEF Summarises
  <2>3. \A i \in 1..Len(bs) : delta(b, bs, i, x) = delta(b, bs, 1, x)
    BY <1>4 DEF Inconsistent
  <2>4. \A i \in 1..Len(bs) : bs[i][x] = bs[1][x]
    <3> SUFFICES ASSUME NEW i \in 1..Len(bs) PROVE bs[i][x] = bs[1][x]
      OBVIOUS
    <3>1. 1 \in 1..Len(bs)
      BY <1>0
    <3> QED
      BY <1>3, <2>3, <3>1
  <2> QED
    BY <1>0, <2>2, <2>4
<1>5. ASSUME x \in Inconsistent(b, bs) PROVE Split(all, x)
  <2>1. PICK i \in 1..Len(bs) : delta(b, bs, i, x) # delta(b, bs, 1, x)
    BY <1>5 DEF Inconsistent
  <2>2. 1 \in 1..Len(bs) /\ bs[i][x] # bs[1][x]
    <3>1. 1 \in 1..Len(bs)
      BY <1>0
    <3>2. b[x] + delta(b, bs, i, x) = bs[i][x] /\ b[x] + delta(b, bs, 1, x) = bs[1][x]
      BY <1>3, <3>1
    <3>3. delta(b, bs, i, x) \in Nat /\ delta(b, bs, 1, x) \in Nat
      BY <1>3, <3>1
    <3> QED
      BY <1>0, <2>1, <3>1, <3>2, <3>3
  <2>3. PICK p \in ps[i] : p[x] = bs[i][x]
    BY DEF Summarises
  <2>4. PICK q \in ps[1] : q[x] = bs[1][x]
    BY <2>2 DEF Summarises
  <2> QED
    BY <2>2, <2>3, <2>4 DEF Split
<1> QED
  BY <1>1, <1>2, <1>4, <1>5 DEF m

-----------------------------------------------------------------------------
(* The steps of the walk.                                                  *)

\* Facts of a frame, by its fields.
LEMMA FrameFields ==
  ASSUME TypeOK, NEW i \in 1..Len(frames)
  PROVE  /\ frames[i] \in Frame
         /\ frames[i].base \in Counts /\ frames[i].basePaths \subseteq Counts
         /\ frames[i].arms \in Seq(Counts) /\ frames[i].armPaths \in Seq(SUBSET Counts)
         /\ Len(frames[i].arms) = Len(frames[i].armPaths)
         /\ frames[i].name \in Vars \cup {"none"}
         /\ frames[i].kind \in {"if", "match", "let"}
<1>1. frames[i] \in Frame
  BY ElementOfSeq DEF TypeOK
<1>2. Len(frames[i].arms) = Len(frames[i].armPaths)
  BY DEF TypeOK
<1> QED
  BY <1>1, <1>2 DEF Frame

\* A use of y in every execution.
LEMMA UseSummarised ==
  ASSUME TypeOK, NEW x \in Vars, NEW y \in Vars, Summarises(ctx, paths, x),
         ctx' = use_var(ctx, y), UNCHANGED <<grade, errors>>,
         \/ paths' = {use_var(p, y) : p \in paths}
         \/ paths' = paths /\ x # y
  PROVE  /\ Summarises(ctx, paths, x)'
         /\ Split(paths, x) => Split(paths, x)'
<1>1. ctx \in [Vars -> Nat] /\ \A p \in paths : p \in [Vars -> Nat]
  BY DEF TypeOK, Counts
<1>2. /\ ctx'[x] = IF x = y THEN ctx[x] + 1 ELSE ctx[x]
      /\ \A p \in paths : use_var(p, y)[x] = IF x = y THEN p[x] + 1 ELSE p[x]
      /\ ctx[x] \in Nat /\ \A p \in paths : p[x] \in Nat
  BY <1>1 DEF use_var
<1>3. is_compared(x)' = is_compared(x) /\ Differs(x)' = Differs(x)
  BY DEF is_compared, Differs
<1>4. CASE paths' = {use_var(p, y) : p \in paths}
  <2>1. \A p \in paths' : \E q \in paths : p[x] = IF x = y THEN q[x] + 1 ELSE q[x]
    BY <1>2, <1>4
  <2>2. \A q \in paths : \E p \in paths' : p[x] = IF x = y THEN q[x] + 1 ELSE q[x]
    BY <1>2, <1>4
  <2>3. Summarises(ctx, paths, x)'
    <3>1. ASSUME NEW p \in paths' PROVE p[x] <= ctx'[x]
      <4>1. PICK q \in paths : p[x] = IF x = y THEN q[x] + 1 ELSE q[x]
        BY <2>1
      <4>2. q[x] <= ctx[x]
        BY DEF Summarises
      <4> QED
        BY <1>2, <4>1, <4>2
    <3>2. \E p \in paths' : p[x] = ctx'[x]
      <4>1. PICK q \in paths : q[x] = ctx[x]
        BY DEF Summarises
      <4>2. PICK p \in paths' : p[x] = IF x = y THEN q[x] + 1 ELSE q[x]
        BY <2>2
      <4> QED
        BY <1>2, <4>1, <4>2
    <3>3. ASSUME is_compared(x), ~Differs(x), NEW p \in paths' PROVE p[x] = ctx'[x]
      <4>1. PICK q \in paths : p[x] = IF x = y THEN q[x] + 1 ELSE q[x]
        BY <2>1
      <4>2. q[x] = ctx[x]
        BY <3>3 DEF Summarises
      <4> QED
        BY <1>2, <4>1, <4>2
    <3> QED
      BY <1>3, <3>1, <3>2, <3>3 DEF Summarises
  <2>4. Split(paths, x) => Split(paths, x)'
    BY <1>2, <2>2 DEF Split
  <2> QED
    BY <2>3, <2>4
<1>5. CASE paths' = paths /\ x # y
  BY <1>2, <1>3, <1>5 DEF Summarises, Split
<1> QED
  BY <1>4, <1>5

\* Ident.
LEMMA IdentInv ==
  ASSUME UsageInv, NEW y \in Vars, Ident(y)
  PROVE  UsageInv'
<1>1. /\ pc = "walk" /\ size < MaxNodes /\ size' = size + 1
      /\ ctx' = use_var(ctx, y)
      /\ paths' = IF IsHidden(y) THEN paths ELSE {use_var(p, y) : p \in paths}
      /\ UNCHANGED <<grade, frames, errors, pc, hidden>>
  BY DEF Ident, Visits
<1>2. /\ ctx \in [Vars -> Nat] /\ \A p \in paths : p \in [Vars -> Nat] /\ use_var(p, y) \in [Vars -> Nat]
      /\ ctx' \in [Vars -> Nat]
      /\ \A x \in Vars : ctx[x] \in Nat /\ ctx'[x] \in Nat /\ ctx[x] <= ctx'[x]
  BY <1>1 DEF UsageInv, TypeOK, Counts, use_var
<1>3. TypeOK'
  <2>1. ctx' \in Counts /\ paths' \subseteq Counts
    BY <1>1, <1>2 DEF Counts
  <2>2. size' \in 0..MaxNodes
    BY <1>1, MaxNodesAssumption DEF UsageInv, TypeOK
  <2> QED
    BY <1>1, <2>1, <2>2 DEF UsageInv, TypeOK
<1>4. CountsGrow'
  <2>1. frames # <<>> => \A x \in Vars : Top.base[x] <= ctx'[x]
    <3> SUFFICES ASSUME frames # <<>>, NEW x \in Vars PROVE Top.base[x] <= ctx'[x]
      OBVIOUS
    <3>1. Len(frames) \in 1..Len(frames)
      BY EmptySeq DEF UsageInv, TypeOK
    <3>2. Top.base \in [Vars -> Nat]
      BY <3>1, FrameFields DEF Top, UsageInv, Counts
    <3>3. Top.base[x] <= ctx[x] /\ Top.base[x] \in Nat
      BY <3>2 DEF UsageInv, CountsGrow
    <3> QED
      BY <1>2, <3>3
  <2> QED
    BY <1>1, <2>1 DEF UsageInv, CountsGrow, FrameGrows, Top
<1>5. NamesHide' /\ LetHasNoArms'
  BY <1>1 DEF UsageInv, NamesHide, LetHasNoArms
<1>6. ASSUME NEW x \in Vars \ hidden
      PROVE  /\ Summarises(ctx, paths, x)'
             /\ Split(paths, x) => Split(paths, x)'
  <2>1. Summarises(ctx, paths, x)
    BY DEF UsageInv, CountsSummarise
  <2>2. x = y => ~IsHidden(y)
    BY VarsAssumption DEF IsHidden, UsageInv, NamesHide
  <2> QED
    BY <1>1, <2>1, <2>2, UseSummarised DEF UsageInv
<1>7. \A x : (Differs(x)' <=> Differs(x)) /\ (is_compared(x)' <=> is_compared(x))
  BY <1>1 DEF Differs, is_compared
<1>8. CountsSummarise'
  <2>1. \A x \in Vars \ hidden : \A i \in 1..Len(frames) : FrameSummarises(frames[i], x)'
    BY <1>1, <1>7 DEF UsageInv, CountsSummarise, FrameSummarises, Summarises
  <2> QED
    BY <1>1, <1>6, <2>1 DEF CountsSummarise
<1>9. DifferenceStays'
  <2> SUFFICES ASSUME NEW x \in Vars \ hidden, Differs(x)
               PROVE  /\ is_compared(x)'
                      /\ \/ Split(paths, x)'
                         \/ \E i \in 1..Len(frames) : \E j \in 1..Len(frames[i].arms) : Split(frames[i].armPaths[j], x)'
    BY <1>1, <1>7 DEF DifferenceStays
  <2>1. /\ is_compared(x)
        /\ \/ Split(paths, x)
           \/ \E i \in 1..Len(frames) : \E j \in 1..Len(frames[i].arms) : Split(frames[i].armPaths[j], x)
    BY DEF UsageInv, DifferenceStays
  <2>2. CASE Split(paths, x)
    BY <1>6, <1>7, <2>1, <2>2
  <2>3. CASE \E i \in 1..Len(frames) : \E j \in 1..Len(frames[i].arms) : Split(frames[i].armPaths[j], x)
    BY <1>1, <1>7, <2>1, <2>3 DEF Split
  <2> QED
    BY <2>1, <2>2, <2>3
<1>10. OthersAreFinal'
  BY <1>1 DEF UsageInv, OthersAreFinal
<1> QED
  BY <1>3, <1>4, <1>5, <1>8, <1>9, <1>10 DEF UsageInv

\* Only the number of nodes changes.
LEMMA CountedInv ==
  ASSUME UsageInv, size' \in 0..MaxNodes,
         UNCHANGED <<grade, ctx, frames, errors, pc, paths, hidden>>
  PROVE  UsageInv'
<1>1. UNCHANGED <<grade, ctx, frames, errors, pc, paths, hidden>>
  OBVIOUS
<1>2. TypeOK'
  BY <1>1 DEF UsageInv, TypeOK
<1>3. CountsGrow' /\ NamesHide' /\ LetHasNoArms'
  BY <1>1 DEF UsageInv, CountsGrow, FrameGrows, NamesHide, LetHasNoArms, Top
<1>4. CountsSummarise'
  <2>1. \A x : (Differs(x)' <=> Differs(x)) /\ (is_compared(x)' <=> is_compared(x))
    BY <1>1 DEF Differs, is_compared
  <2>2. \A x \in Vars \ hidden : Summarises(ctx, paths, x)'
    BY <1>1, <2>1 DEF UsageInv, CountsSummarise, Summarises
  <2>3. \A x \in Vars \ hidden : \A i \in 1..Len(frames) : FrameSummarises(frames[i], x)'
    BY <1>1, <2>1 DEF UsageInv, CountsSummarise, FrameSummarises, Summarises
  <2> QED
    BY <1>1, <2>2, <2>3 DEF CountsSummarise
<1>5. DifferenceStays'
  BY <1>1 DEF UsageInv, DifferenceStays, Split, is_compared, Differs
<1>6. OthersAreFinal'
  BY <1>1 DEF UsageInv, OthersAreFinal, Reports, Differs
<1> QED
  BY <1>2, <1>3, <1>4, <1>5, <1>6 DEF UsageInv

\* Enter: a new frame, innermost.
LEMMA EnterInv ==
  ASSUME UsageInv, NEW kind \in {"if", "match", "let"}, NEW name \in Vars \cup {"none"}, Enter(kind, name)
  PROVE  UsageInv'
<1> DEFINE f == [kind |-> kind, name |-> name, base |-> ctx, arms |-> <<>>,
                 basePaths |-> paths, armPaths |-> <<>>]
           n == Len(frames)
<1>1. /\ pc = "walk" /\ size < MaxNodes /\ size' = size + 1
      /\ frames' = Append(frames, f)
      /\ hidden' = hidden \cup ({name} \ {"none"})
      /\ UNCHANGED <<grade, ctx, errors, pc, paths>>
  BY DEF Enter, Visits
<1>2. f \in Frame /\ frames \in Seq(Frame)
  <2>1. frames \in Seq(Frame) /\ ctx \in Counts /\ paths \in SUBSET Counts
    BY DEF UsageInv, TypeOK
  <2>2. <<>> \in Seq(Counts) /\ <<>> \in Seq(SUBSET Counts)
    BY EmptySeq
  <2> QED
    BY <2>1, <2>2 DEF Frame
<1>3. /\ frames' \in Seq(Frame) /\ Len(frames') = n + 1 /\ n \in Nat
      /\ \A i \in 1..n : frames'[i] = frames[i]
      /\ frames'[n + 1] = f
  BY <1>1, <1>2, AppendProperties
<1>4. /\ f.kind = kind /\ f.name = name /\ f.base = ctx /\ f.arms = <<>> /\ f.basePaths = paths
      /\ f.armPaths = <<>> /\ Len(f.arms) = 0 /\ Len(f.armPaths) = 0
  BY EmptySeq
<1> HIDE DEF f
<1>5. \A i \in 1..Len(frames') : (i \in 1..n /\ frames'[i] = frames[i]) \/ (i = n + 1 /\ frames'[i] = f)
  BY <1>3
<1>6. TypeOK'
  <2>1. size' \in 0..MaxNodes
    BY <1>1, MaxNodesAssumption DEF UsageInv, TypeOK
  <2>2. hidden' \subseteq Vars
    BY <1>1 DEF UsageInv, TypeOK
  <2>3. \A i \in 1..Len(frames') : Len(frames'[i].arms) = Len(frames'[i].armPaths)
    BY <1>4, <1>5 DEF UsageInv, TypeOK
  <2> QED
    BY <1>1, <1>3, <2>1, <2>2, <2>3 DEF UsageInv, TypeOK
<1>7. CountsGrow'
  <2>1. \A i \in 1..Len(frames') : FrameGrows(frames'[i])
    BY <1>4, <1>5 DEF UsageInv, CountsGrow, FrameGrows
  <2>2. ASSUME NEW i \in 1..(Len(frames') - 1), NEW x \in Vars
        PROVE  frames'[i].base[x] <= frames'[i + 1].base[x]
    <3>1. i \in 1..n
      BY <1>3
    <3>2. CASE i = n
      <4>1. frames # <<>> /\ Top = frames[i] /\ frames'[i] = frames[i] /\ frames'[i + 1] = f
        BY <1>2, <1>3, <3>1, <3>2, EmptySeq DEF Top
      <4> QED
        BY <1>4, <4>1 DEF UsageInv, CountsGrow
    <3>3. CASE i # n
      <4>1. i \in 1..(n - 1) /\ i + 1 \in 1..n
        BY <1>3, <3>1, <3>3
      <4>2. frames'[i] = frames[i] /\ frames'[i + 1] = frames[i + 1]
        BY <1>3, <3>1, <4>1
      <4> QED
        BY <4>1, <4>2 DEF UsageInv, CountsGrow
    <3> QED
      BY <3>2, <3>3
  <2>3. \A x \in Vars : frames'[Len(frames')].base[x] <= ctx'[x]
    <3>1. \A x \in Vars : ctx[x] <= ctx[x]
      BY DEF UsageInv, TypeOK, Counts
    <3> QED
      BY <1>1, <1>3, <1>4, <3>1
  <2> QED
    BY <2>1, <2>2, <2>3 DEF CountsGrow, Top
<1>8. NamesHide' /\ LetHasNoArms'
  BY <1>1, <1>4, <1>5 DEF UsageInv, NamesHide, LetHasNoArms
<1>9. \A x : (Differs(x)' <=> Differs(x)) /\ (is_compared(x)' <=> is_compared(x))
  BY <1>1 DEF Differs, is_compared
<1>10. CountsSummarise'
  <2> SUFFICES ASSUME NEW x \in Vars \ hidden
               PROVE  /\ Summarises(ctx, paths, x)'
                      /\ \A i \in 1..Len(frames') : FrameSummarises(frames[i], x)'
    BY <1>1 DEF CountsSummarise
  <2>1. Summarises(ctx, paths, x)'
    BY <1>1, <1>9 DEF UsageInv, CountsSummarise, Summarises
  <2>2. FrameSummarises(f, x)
    BY <1>4 DEF UsageInv, CountsSummarise, FrameSummarises
  <2>3. ASSUME NEW i \in 1..Len(frames') PROVE FrameSummarises(frames[i], x)'
    <3>1. FrameSummarises(frames'[i], x)
      BY <1>5, <2>2 DEF UsageInv, CountsSummarise
    <3> QED
      BY <1>9, <3>1 DEF FrameSummarises, Summarises
  <2> QED
    BY <2>1, <2>3
<1>11. DifferenceStays'
  BY <1>1, <1>3, <1>9 DEF UsageInv, DifferenceStays, Split
<1>12. OthersAreFinal'
  BY <1>1 DEF UsageInv, OthersAreFinal
<1> QED
  BY <1>6, <1>7, <1>8, <1>10, <1>11, <1>12 DEF UsageInv

\* The innermost frame is a frame.
LEMMA TopFields ==
  ASSUME TypeOK, frames # <<>>
  PROVE  /\ Len(frames) \in 1..Len(frames) /\ Len(frames) \in Nat \ {0}
         /\ Top = frames[Len(frames)] /\ Top \in Frame
         /\ Top.base \in Counts /\ Top.basePaths \subseteq Counts
         /\ Top.arms \in Seq(Counts) /\ Top.armPaths \in Seq(SUBSET Counts)
         /\ Len(Top.arms) = Len(Top.armPaths)
<1>1. Len(frames) \in 1..Len(frames) /\ Len(frames) \in Nat \ {0}
  BY EmptySeq DEF TypeOK
<1> QED
  BY <1>1, FrameFields DEF Top

\* NextArm: a branch is over; its counts and its executions are kept in the frame.
LEMMA NextArmInv ==
  ASSUME UsageInv, NEW name \in Vars \cup {"none"}, NextArm(name)
  PROVE  UsageInv'
<1> DEFINE n == Len(frames)
           t == frames[n]
           g == [t EXCEPT !.name = name, !.arms = Append(@, ctx), !.armPaths = Append(@, paths)]
<1>1. /\ pc = "walk" /\ size < MaxNodes /\ size' = size + 1 /\ frames # <<>>
      /\ Top.kind # "let"
      /\ hidden' = hidden \cup ({name} \ {"none"})
      /\ ctx' = Top.base /\ paths' = Top.basePaths
      /\ UNCHANGED <<grade, errors, pc>>
  BY DEF NextArm, Visits
<1>2. /\ n \in 1..n /\ n \in Nat \ {0} /\ t \in Frame /\ Top = t
      /\ t.base \in Counts /\ t.basePaths \subseteq Counts
      /\ t.arms \in Seq(Counts) /\ t.armPaths \in Seq(SUBSET Counts)
      /\ Len(t.arms) = Len(t.armPaths)
      /\ ctx \in Counts /\ paths \in SUBSET Counts /\ frames \in Seq(Frame)
  BY <1>1, TopFields DEF UsageInv, TypeOK
<1>3. /\ frames' \in Seq(Frame) /\ Len(frames') = n
      /\ \A i \in 1..n : frames'[i] = IF i = n THEN g ELSE frames[i]
  <2>1. frames' = [frames EXCEPT ![n] = g]
    BY <1>2 DEF NextArm
  <2>2. Append(t.arms, ctx) \in Seq(Counts) /\ Append(t.armPaths, paths) \in Seq(SUBSET Counts)
    BY <1>2, AppendProperties
  <2>3. g \in Frame
    BY <1>2, <2>2 DEF Frame
  <2> QED
    BY <1>2, <2>1, <2>3, ExceptSeq
<1>4. /\ g.kind = t.kind /\ g.name = name /\ g.base = t.base /\ g.basePaths = t.basePaths
      /\ g.arms = Append(t.arms, ctx) /\ g.armPaths = Append(t.armPaths, paths)
  BY <1>2 DEF Frame
<1>5. /\ Len(g.arms) = Len(t.arms) + 1 /\ Len(g.armPaths) = Len(g.arms) /\ Len(t.arms) \in Nat
      /\ \A j \in 1..Len(t.arms) : g.arms[j] = t.arms[j] /\ g.armPaths[j] = t.armPaths[j]
      /\ g.arms[Len(t.arms) + 1] = ctx /\ g.armPaths[Len(t.arms) + 1] = paths
      /\ \A j \in 1..Len(g.arms) : j \in 1..Len(t.arms) \/ j = Len(t.arms) + 1
  <2>1. /\ Len(g.arms) = Len(t.arms) + 1 /\ Len(t.arms) \in Nat
        /\ \A j \in 1..Len(t.arms) : g.arms[j] = t.arms[j]
        /\ g.arms[Len(t.arms) + 1] = ctx
    <3> HIDE DEF g, t
    <3> QED
      BY <1>2, <1>4, AppendProperties
  <2>2. /\ Len(g.armPaths) = Len(t.armPaths) + 1
        /\ \A j \in 1..Len(t.armPaths) : g.armPaths[j] = t.armPaths[j]
        /\ g.armPaths[Len(t.armPaths) + 1] = paths
    <3> HIDE DEF g, t
    <3> QED
      BY <1>2, <1>4, AppendProperties
  <2> HIDE DEF g
  <2>3. \A j \in 1..Len(g.arms) : j \in 1..Len(t.arms) \/ j = Len(t.arms) + 1
    BY <2>1
  <2> QED
    BY <1>2, <2>1, <2>2, <2>3
<1> HIDE DEF g
<1>6. TypeOK'
  <2>1. size' \in 0..MaxNodes
    BY <1>1, MaxNodesAssumption DEF UsageInv, TypeOK
  <2>2. hidden' \subseteq Vars
    BY <1>1 DEF UsageInv, TypeOK
  <2>3. \A i \in 1..Len(frames') : Len(frames'[i].arms) = Len(frames'[i].armPaths)
    BY <1>3, <1>5 DEF UsageInv, TypeOK
  <2>4. ctx' \in Counts /\ paths' \in SUBSET Counts
    BY <1>1, <1>2
  <2> QED
    BY <1>1, <1>3, <2>1, <2>2, <2>3, <2>4 DEF UsageInv, TypeOK
<1>7. CountsGrow'
  <2>1. FrameGrows(g)
    BY <1>1, <1>2, <1>4, <1>5 DEF UsageInv, CountsGrow, FrameGrows
  <2>2. \A i \in 1..Len(frames') : FrameGrows(frames'[i])
    BY <1>3, <2>1 DEF UsageInv, CountsGrow
  <2>3. \A i \in 1..n : frames'[i].base = frames[i].base
    BY <1>3, <1>4
  <2>4. ASSUME NEW i \in 1..(Len(frames') - 1), NEW x \in Vars
        PROVE  frames'[i].base[x] <= frames'[i + 1].base[x]
    <3>1. i \in 1..(n - 1) /\ i \in 1..n /\ i + 1 \in 1..n
      BY <1>2, <1>3
    <3> QED
      BY <2>3, <3>1 DEF UsageInv, CountsGrow
  <2>5. \A x \in Vars : frames'[Len(frames')].base[x] <= ctx'[x]
    <3>1. \A x \in Vars : t.base[x] <= t.base[x]
      BY <1>2 DEF Counts
    <3> QED
      BY <1>1, <1>2, <1>3, <2>3, <3>1
  <2> QED
    BY <2>2, <2>4, <2>5 DEF CountsGrow, Top
<1>8. NamesHide' /\ LetHasNoArms'
  <2>1. \A i \in 1..n : frames'[i].kind = frames[i].kind
    BY <1>3, <1>4
  <2>2. NamesHide'
    BY <1>1, <1>3, <1>4 DEF UsageInv, NamesHide
  <2>3. LetHasNoArms'
    BY <1>1, <1>2, <1>3, <2>1 DEF UsageInv, LetHasNoArms
  <2> QED
    BY <2>2, <2>3
<1>9. \A x : (Differs(x)' <=> Differs(x)) /\ (is_compared(x)' <=> is_compared(x))
  BY <1>1 DEF Differs, is_compared
<1>10. CountsSummarise'
  <2> SUFFICES ASSUME NEW x \in Vars \ hidden
               PROVE  /\ Summarises(ctx, paths, x)'
                      /\ \A i \in 1..Len(frames') : FrameSummarises(frames[i], x)'
    BY <1>1 DEF CountsSummarise
  <2>1. Summarises(ctx, paths, x) /\ FrameSummarises(t, x)
    BY <1>2 DEF UsageInv, CountsSummarise
  <2>2. Summarises(ctx, paths, x)'
    <3>1. Summarises(t.base, t.basePaths, x)
      BY <2>1 DEF FrameSummarises
    <3> QED
      BY <1>1, <1>2, <1>9, <3>1 DEF Summarises
  <2>3. FrameSummarises(g, x)
    <3>1. ASSUME NEW j \in 1..Len(g.arms) PROVE Summarises(g.arms[j], g.armPaths[j], x)
      <4>1. CASE j \in 1..Len(t.arms)
        BY <1>5, <2>1, <4>1 DEF FrameSummarises
      <4>2. CASE j = Len(t.arms) + 1
        BY <1>5, <2>1, <4>2
      <4> QED
        BY <1>5, <4>1, <4>2
    <3> QED
      BY <1>4, <2>1, <3>1 DEF FrameSummarises
  <2>4. ASSUME NEW i \in 1..Len(frames') PROVE FrameSummarises(frames[i], x)'
    <3>1. FrameSummarises(frames'[i], x)
      BY <1>3, <2>3 DEF UsageInv, CountsSummarise
    <3> QED
      BY <1>9, <3>1 DEF FrameSummarises, Summarises
  <2> QED
    BY <2>2, <2>4
<1>11. DifferenceStays'
  <2> SUFFICES ASSUME NEW x \in Vars \ hidden, Differs(x)
               PROVE  /\ is_compared(x)'
                      /\ \E i \in 1..Len(frames') : \E j \in 1..Len(frames'[i].arms) : Split(frames'[i].armPaths[j], x)
    BY <1>1, <1>9 DEF DifferenceStays, Split
  <2>1. /\ is_compared(x)
        /\ \/ Split(paths, x)
           \/ \E i \in 1..Len(frames) : \E j \in 1..Len(frames[i].arms) : Split(frames[i].armPaths[j], x)
    BY DEF UsageInv, DifferenceStays
  <2>2. CASE Split(paths, x)
    <3>1. n \in 1..Len(frames') /\ frames'[n] = g /\ Len(t.arms) + 1 \in 1..Len(g.arms)
      BY <1>2, <1>3, <1>5
    <3> QED
      BY <1>5, <1>9, <2>1, <2>2, <3>1
  <2>3. CASE \E i \in 1..Len(frames) : \E j \in 1..Len(frames[i].arms) : Split(frames[i].armPaths[j], x)
    <3>1. PICK i \in 1..Len(frames) : \E j \in 1..Len(frames[i].arms) : Split(frames[i].armPaths[j], x)
      BY <2>3
    <3>2. PICK j \in 1..Len(frames[i].arms) : Split(frames[i].armPaths[j], x)
      BY <3>1
    <3>3. j \in 1..Len(frames'[i].arms) /\ frames'[i].armPaths[j] = frames[i].armPaths[j]
      BY <1>3, <1>5
    <3>4. i \in 1..Len(frames')
      BY <1>3
    <3> QED
      BY <1>9, <2>1, <3>2, <3>3, <3>4
  <2> QED
    BY <2>1, <2>2, <2>3
<1>12. OthersAreFinal'
  BY <1>1 DEF UsageInv, OthersAreFinal
<1> QED
  BY <1>6, <1>7, <1>8, <1>10, <1>11, <1>12 DEF UsageInv

\* The frames without the innermost.
LEMMA PopFrames ==
  ASSUME frames \in Seq(Frame), frames # <<>>
  PROVE  /\ Pop \in Seq(Frame) /\ Len(Pop) = Len(frames) - 1
         /\ Len(frames) - 1 \in Nat
         /\ \A i \in 1..(Len(frames) - 1) : Pop[i] = frames[i] /\ i \in 1..Len(frames)
<1>1. Len(frames) \in Nat \ {0}
  BY EmptySeq
<1>2. Len(frames) - 1 \in Nat /\ \A i \in 1..(Len(frames) - 1) : i \in 1..Len(frames)
  BY <1>1
<1>3. \A i \in 1..(Len(frames) - 1) : frames[i] \in Frame
  BY <1>2, ElementOfSeq
<1>4. Pop \in [1..(Len(frames) - 1) -> Frame]
  BY <1>3 DEF Pop
<1>5. Pop \in Seq(Frame) /\ Len(Pop) = Len(frames) - 1
  BY <1>2, <1>4, SeqDef, LenProperties
<1> QED
  BY <1>2, <1>5 DEF Pop

\* What the branches of the innermost node are, the missing else included.
LEMMA BranchesOfTop ==
  ASSUME UsageInv, frames # <<>>
  PROVE  /\ AllArms \in Seq(Counts) /\ AllArms # <<>> /\ Len(AllArmPaths) = Len(AllArms)
         /\ \A j \in 1..Len(AllArms) :
              /\ AllArmPaths[j] \subseteq Counts
              /\ \A x \in Vars : Top.base[x] <= AllArms[j][x]
              /\ \A x \in Vars \ hidden : Summarises(AllArms[j], AllArmPaths[j], x)
         /\ \E j \in 1..Len(AllArms) : AllArmPaths[j] = paths
         /\ \A k \in 1..Len(Top.arms) : \E j \in 1..Len(AllArms) : AllArmPaths[j] = Top.armPaths[k]
<1> DEFINE t == Top
           n == Len(t.arms)
<1>1. /\ Len(frames) \in 1..Len(frames) /\ t = frames[Len(frames)]
      /\ t.base \in Counts /\ t.basePaths \subseteq Counts
      /\ t.arms \in Seq(Counts) /\ t.armPaths \in Seq(SUBSET Counts)
      /\ Len(t.armPaths) = n
      /\ ctx \in Counts /\ paths \in SUBSET Counts
  BY TopFields DEF UsageInv, TypeOK
<1>2. /\ \A x \in Vars : t.base[x] <= ctx[x] /\ t.base[x] <= t.base[x]
      /\ \A x \in Vars \ hidden : Summarises(ctx, paths, x) /\ Summarises(t.base, t.basePaths, x)
  <2>1. \A x \in Vars : t.base[x] <= t.base[x]
    BY <1>1 DEF Counts
  <2>2. \A x \in Vars : t.base[x] <= ctx[x]
    BY DEF UsageInv, CountsGrow
  <2>3. \A x \in Vars \ hidden : Summarises(ctx, paths, x) /\ Summarises(t.base, t.basePaths, x)
    BY <1>1 DEF UsageInv, CountsSummarise, FrameSummarises
  <2> QED
    BY <2>1, <2>2, <2>3
<1>3. \A j \in 1..n :
        /\ t.armPaths[j] \subseteq Counts
        /\ \A x \in Vars : t.base[x] <= t.arms[j][x]
        /\ \A x \in Vars \ hidden : Summarises(t.arms[j], t.armPaths[j], x)
  <2>1. \A j \in 1..n : t.armPaths[j] \subseteq Counts
    BY <1>1, ElementOfSeq
  <2>2. \A j \in 1..n : \A x \in Vars : t.base[x] <= t.arms[j][x]
    BY <1>1 DEF UsageInv, CountsGrow, FrameGrows
  <2>3. \A j \in 1..n : \A x \in Vars \ hidden : Summarises(t.arms[j], t.armPaths[j], x)
    BY <1>1 DEF UsageInv, CountsSummarise, FrameSummarises
  <2> QED
    BY <2>1, <2>2, <2>3
<1> HIDE DEF t
<1>4. CASE Top.kind = "if" /\ Top.arms = <<>>
  <2>1. AllArms = <<ctx, t.base>> /\ AllArmPaths = <<paths, t.basePaths>>
    BY <1>4 DEF AllArms, AllArmPaths, t
  <2>2. /\ Len(AllArms) = 2 /\ Len(AllArmPaths) = 2 /\ AllArms \in Seq(Counts)
        /\ AllArms[1] = ctx /\ AllArms[2] = t.base
        /\ AllArmPaths[1] = paths /\ AllArmPaths[2] = t.basePaths
    BY <1>1, <2>1
  <2>3. AllArms # <<>>
    BY <2>2, EmptySeq
  <2>4. 1 \in 1..Len(AllArms) /\ \A j \in 1..Len(AllArms) : j = 1 \/ j = 2
    BY <2>2
  <2>5. Top.base = t.base
    BY DEF t
  <2>6. Len(Top.arms) = 0
    BY <1>4, EmptySeq
  <2>7. ASSUME NEW j \in 1..Len(AllArms)
        PROVE  /\ AllArmPaths[j] \subseteq Counts
               /\ \A x \in Vars : Top.base[x] <= AllArms[j][x]
               /\ \A x \in Vars \ hidden : Summarises(AllArms[j], AllArmPaths[j], x)
    <3>1. CASE j = 1
      BY <1>1, <1>2, <2>2, <2>5, <3>1
    <3>2. CASE j = 2
      BY <1>1, <1>2, <2>2, <2>5, <3>2
    <3> QED
      BY <2>4, <3>1, <3>2
  <2> QED
    BY <2>2, <2>3, <2>4, <2>6, <2>7
<1>5. CASE ~(Top.kind = "if" /\ Top.arms = <<>>)
  <2>1. AllArms = Append(t.arms, ctx) /\ AllArmPaths = Append(t.armPaths, paths)
    BY <1>5 DEF AllArms, AllArmPaths, t
  <2>2. /\ AllArms \in Seq(Counts) /\ Len(AllArms) = n + 1 /\ n \in Nat
        /\ \A j \in 1..n : AllArms[j] = t.arms[j]
        /\ AllArms[n + 1] = ctx
    BY <1>1, <2>1, AppendProperties
  <2>3. /\ Len(AllArmPaths) = n + 1
        /\ \A j \in 1..n : AllArmPaths[j] = t.armPaths[j]
        /\ AllArmPaths[n + 1] = paths
    <3>1. /\ Len(AllArmPaths) = Len(t.armPaths) + 1
          /\ \A j \in 1..Len(t.armPaths) : AllArmPaths[j] = t.armPaths[j]
          /\ AllArmPaths[Len(t.armPaths) + 1] = paths
      BY <1>1, <2>1, AppendProperties
    <3> QED
      BY <1>1, <3>1
  <2>4. AllArms # <<>>
    BY <2>2, EmptySeq
  <2>5. /\ n + 1 \in 1..Len(AllArms)
        /\ \A j \in 1..Len(AllArms) : j \in 1..n \/ j = n + 1
        /\ \A k \in 1..n : k \in 1..Len(AllArms)
    BY <2>2
  <2>6. Top.base = t.base /\ Top.arms = t.arms /\ Top.armPaths = t.armPaths
    BY DEF t
  <2>7. ASSUME NEW j \in 1..Len(AllArms)
        PROVE  /\ AllArmPaths[j] \subseteq Counts
               /\ \A x \in Vars : Top.base[x] <= AllArms[j][x]
               /\ \A x \in Vars \ hidden : Summarises(AllArms[j], AllArmPaths[j], x)
    <3>1. CASE j \in 1..n
      BY <1>3, <2>2, <2>3, <2>6, <3>1
    <3>2. CASE j = n + 1
      BY <1>1, <1>2, <2>2, <2>3, <2>6, <3>2
    <3> QED
      BY <2>5, <3>1, <3>2
  <2>8. \A k \in 1..Len(Top.arms) : \E j \in 1..Len(AllArms) : AllArmPaths[j] = Top.armPaths[k]
    BY <2>3, <2>5, <2>6
  <2> QED
    BY <2>2, <2>3, <2>4, <2>5, <2>7, <2>8
<1> QED
  BY <1>4, <1>5

\* Leaving a node: the frames that stay are as they were, and the counts are
\* at least those the enclosing node began with.
LEMMA PopKeeps ==
  ASSUME UsageInv, frames # <<>>, frames' = Pop, hidden' = hidden,
         \A x \in Vars : ctx'[x] \in Nat /\ Top.base[x] <= ctx'[x]
  PROVE  /\ frames' \in Seq(Frame)
         /\ \A i \in 1..Len(frames') : Len(frames'[i].arms) = Len(frames'[i].armPaths)
         /\ CountsGrow' /\ NamesHide' /\ LetHasNoArms'
<1> DEFINE n == Len(frames) - 1
<1>1. frames \in Seq(Frame)
  BY DEF UsageInv, TypeOK
<1>2. /\ frames' \in Seq(Frame) /\ Len(frames') = n /\ n \in Nat
      /\ \A i \in 1..n : frames'[i] = frames[i] /\ i \in 1..Len(frames)
  BY <1>1, PopFrames
<1>3. \A i \in 1..Len(frames') : Len(frames'[i].arms) = Len(frames'[i].armPaths)
  BY <1>2 DEF UsageInv, TypeOK
<1>4. NamesHide' /\ LetHasNoArms'
  BY <1>2 DEF UsageInv, NamesHide, LetHasNoArms
<1>5. CountsGrow'
  <2>1. \A i \in 1..Len(frames') : FrameGrows(frames'[i])
    BY <1>2 DEF UsageInv, CountsGrow
  <2>2. ASSUME NEW i \in 1..(Len(frames') - 1), NEW x \in Vars
        PROVE  frames'[i].base[x] <= frames'[i + 1].base[x]
    <3>1. i \in 1..n /\ i + 1 \in 1..n /\ i \in 1..(Len(frames) - 1)
      BY <1>2
    <3> QED
      BY <1>2, <3>1 DEF UsageInv, CountsGrow
  <2>3. ASSUME frames' # <<>>, NEW x \in Vars
        PROVE  frames'[Len(frames')].base[x] <= ctx'[x]
    <3>1. n \in 1..n /\ n \in 1..(Len(frames) - 1) /\ n + 1 = Len(frames)
      BY <1>2, <2>3, EmptySeq
    <3>2. frames'[n] = frames[n] /\ n \in 1..Len(frames) /\ n + 1 \in 1..Len(frames)
      BY <1>1, <1>2, <3>1, LenProperties
    <3>3. frames[n].base[x] <= frames[n + 1].base[x]
      BY <3>1 DEF UsageInv, CountsGrow
    <3>4. Top = frames[n + 1]
      BY <3>1 DEF Top
    <3>5. frames[n].base \in [Vars -> Nat] /\ frames[n + 1].base \in [Vars -> Nat]
      BY <3>2, FrameFields DEF UsageInv, Counts
    <3>6. /\ frames[n].base[x] \in Nat /\ frames[n + 1].base[x] \in Nat /\ ctx'[x] \in Nat
          /\ frames[n + 1].base[x] <= ctx'[x]
      BY <3>4, <3>5
    <3> QED
      BY <1>2, <3>2, <3>3, <3>6
  <2> QED
    BY <2>1, <2>2, <2>3 DEF CountsGrow, Top
<1> QED
  BY <1>2, <1>3, <1>4, <1>5

\* Merge: the branches become one set of executions.
LEMMA MergeInv ==
  ASSUME UsageInv, Merge
  PROVE  UsageInv'
<1> DEFINE b == Top.base
           n == Len(frames) - 1
           bs == AllArms
           ps == AllArmPaths
           all == UNION {ps[j] : j \in 1..Len(bs)}
<1>1. /\ pc = "walk" /\ frames # <<>>
      /\ errors' = errors \cup {<<"A05004", x>> : x \in Inconsistent(b, bs)}
      /\ ctx' = Merged(b, bs)
      /\ paths' = UNION {ps[j] : j \in 1..Len(ps)}
      /\ frames' = Pop
      /\ UNCHANGED <<grade, pc, size, hidden>>
  BY DEF Merge
<1>2. /\ bs \in Seq(Counts) /\ bs # <<>> /\ Len(ps) = Len(bs)
      /\ \A j \in 1..Len(bs) :
           /\ ps[j] \subseteq Counts
           /\ \A x \in Vars : b[x] <= bs[j][x]
           /\ \A x \in Vars \ hidden : Summarises(bs[j], ps[j], x)
      /\ \E j \in 1..Len(bs) : ps[j] = paths
      /\ \A k \in 1..Len(Top.arms) : \E j \in 1..Len(bs) : ps[j] = Top.armPaths[k]
  BY <1>1, BranchesOfTop
<1>3. b \in Counts /\ TypeOK
  BY <1>1, TopFields DEF UsageInv
<1> HIDE DEF b, bs, ps
<1>4. paths' = all /\ all \subseteq Counts
  BY <1>1, <1>2
<1>5. ctx' \in Counts /\ \A x \in Vars : ctx'[x] \in Nat /\ b[x] <= ctx'[x]
  <2>1. Merged(b, bs) \in [Vars -> Nat]
    <3>1. ASSUME NEW y \in Vars PROVE Merged(b, bs) \in Counts
      BY <1>2, <1>3, MergedIsMax
    <3>2. CASE Vars = {}
      <4>1. Merged(b, bs) \in [Vars -> Nat]
        BY <3>2 DEF Merged
      <4> QED
        BY <4>1
    <3> QED
      BY <3>1, <3>2 DEF Counts
  <2>2. \A x \in Vars : b[x] <= Merged(b, bs)[x]
    BY <1>2, <1>3, MergedIsMax
  <2> QED
    BY <1>1, <2>1, <2>2 DEF Counts
<1>6. /\ frames' \in Seq(Frame)
      /\ \A i \in 1..Len(frames') : Len(frames'[i].arms) = Len(frames'[i].armPaths)
      /\ CountsGrow' /\ NamesHide' /\ LetHasNoArms'
  BY <1>1, <1>5, PopKeeps DEF b
<1>7. /\ Len(frames') = n /\ n \in Nat /\ n + 1 = Len(frames)
      /\ \A i \in 1..n : frames'[i] = frames[i] /\ i \in 1..Len(frames)
  <2>1. frames \in Seq(Frame)
    BY <1>3 DEF TypeOK
  <2>2. /\ Len(frames') = n /\ n \in Nat
        /\ \A i \in 1..n : frames'[i] = frames[i] /\ i \in 1..Len(frames)
    BY <1>1, <2>1, PopFrames
  <2>3. n + 1 = Len(frames)
    BY <2>1, LenProperties
  <2> QED
    BY <2>2, <2>3
<1>8. Inconsistent(b, bs) \subseteq {x \in Vars : is_compared(x)}
  BY DEF Inconsistent
<1>9. errors \subseteq {"A05004"} \X Vars /\ errors' \subseteq {"A05004"} \X Vars
  BY <1>1, <1>8 DEF UsageInv, OthersAreFinal
<1>10. TypeOK'
  <2>1. errors' \subseteq {"A05001", "A05002", "A05003", "A05004"} \X Vars
    BY <1>9
  <2>2. ctx' \in Counts /\ paths' \in SUBSET Counts
    BY <1>4, <1>5
  <2> QED
    BY <1>1, <1>3, <1>6, <2>1, <2>2 DEF TypeOK
<1>11. \A x \in Vars : /\ (is_compared(x)' <=> is_compared(x))
                      /\ (Differs(x)' <=> (Differs(x) \/ x \in Inconsistent(b, bs)))
  BY <1>1 DEF Differs, is_compared
<1>12. ASSUME NEW x \in Vars \ hidden
       PROVE  /\ \A p \in all : p[x] <= ctx'[x]
              /\ \E p \in all : p[x] = ctx'[x]
              /\ (is_compared(x) /\ ~Differs(x) /\ x \notin Inconsistent(b, bs)) => \A p \in all : p[x] = ctx'[x]
              /\ x \in Inconsistent(b, bs) => Split(all, x)
  <2>1. \A j \in 1..Len(bs) : b[x] <= bs[j][x] /\ ps[j] \subseteq Counts /\ Summarises(bs[j], ps[j], x)
    BY <1>2
  <2>2. x \in Vars /\ \A p : p \in all <=> \E j \in 1..Len(bs) : p \in ps[j]
    OBVIOUS
  <2> HIDE DEF all
  <2>3. /\ \A p \in all : p[x] <= Merged(b, bs)[x]
        /\ \E p \in all : p[x] = Merged(b, bs)[x]
        /\ (is_compared(x) /\ ~Differs(x) /\ x \notin Inconsistent(b, bs)) => \A p \in all : p[x] = Merged(b, bs)[x]
        /\ x \in Inconsistent(b, bs) => Split(all, x)
    BY <1>2, <1>3, <2>1, <2>2, MergeSummarises
  <2> QED
    BY <1>1, <2>3
<1> HIDE DEF all
<1>13. CountsSummarise'
  <2> SUFFICES ASSUME NEW x \in Vars \ hidden
               PROVE  /\ Summarises(ctx, paths, x)'
                      /\ \A i \in 1..Len(frames') : FrameSummarises(frames[i], x)'
    BY <1>1 DEF CountsSummarise
  <2>1. Summarises(ctx, paths, x)'
    BY <1>4, <1>11, <1>12 DEF Summarises
  <2>2. ASSUME NEW i \in 1..Len(frames') PROVE FrameSummarises(frames[i], x)'
    <3>1. FrameSummarises(frames'[i], x)
      BY <1>7 DEF UsageInv, CountsSummarise
    <3> QED
      BY <1>11, <3>1 DEF FrameSummarises, Summarises
  <2> QED
    BY <2>1, <2>2
<1>14. DifferenceStays'
  <2> SUFFICES ASSUME NEW x \in Vars \ hidden, Differs(x)'
               PROVE  /\ is_compared(x)
                      /\ \/ Split(all, x)
                         \/ \E i \in 1..Len(frames') : \E j \in 1..Len(frames'[i].arms) : Split(frames'[i].armPaths[j], x)
    BY <1>1, <1>4, <1>11 DEF DifferenceStays, Split
  <2>1. CASE x \in Inconsistent(b, bs)
    BY <1>8, <1>12, <2>1
  <2>2. CASE Differs(x)
    <3>1. /\ is_compared(x)
          /\ \/ Split(paths, x)
             \/ \E i \in 1..Len(frames) : \E j \in 1..Len(frames[i].arms) : Split(frames[i].armPaths[j], x)
      BY <2>2 DEF UsageInv, DifferenceStays
    <3>2. \A j \in 1..Len(bs) : Split(ps[j], x) => Split(all, x)
      BY DEF Split, all
    <3>3. CASE Split(paths, x)
      BY <1>2, <3>1, <3>2, <3>3
    <3>4. CASE \E i \in 1..Len(frames) : \E j \in 1..Len(frames[i].arms) : Split(frames[i].armPaths[j], x)
      <4>1. PICK i \in 1..Len(frames) : \E j \in 1..Len(frames[i].arms) : Split(frames[i].armPaths[j], x)
        BY <3>4
      <4>2. PICK j \in 1..Len(frames[i].arms) : Split(frames[i].armPaths[j], x)
        BY <4>1
      <4>3. CASE i \in 1..n
        <5>1. i \in 1..Len(frames') /\ frames'[i] = frames[i]
          BY <1>7, <4>3
        <5> QED
          BY <3>1, <4>2, <5>1
      <4>4. CASE i = n + 1
        <5>1. frames[i] = Top
          BY <1>7, <4>4 DEF Top
        <5>2. PICK k \in 1..Len(bs) : ps[k] = Top.armPaths[j]
          BY <1>2, <5>1
        <5>3. Split(all, x)
          BY <3>2, <4>2, <5>1, <5>2
        <5> QED
          BY <3>1, <5>3
      <4>5. i \in 1..n \/ i = n + 1
        BY <1>7
      <4> QED
        BY <4>3, <4>4, <4>5
    <3> QED
      BY <3>1, <3>3, <3>4
  <2> QED
    BY <1>11, <2>1, <2>2
<1>15. OthersAreFinal'
  BY <1>1, <1>9 DEF OthersAreFinal
<1> QED
  BY <1>6, <1>10, <1>13, <1>14, <1>15 DEF UsageInv

\* EndLet: the counts of the body are those of the let.
LEMMA EndLetInv ==
  ASSUME UsageInv, EndLet
  PROVE  UsageInv'
<1> DEFINE n == Len(frames) - 1
<1>1. /\ pc = "walk" /\ frames # <<>> /\ Top.kind = "let" /\ frames' = Pop
      /\ UNCHANGED <<grade, ctx, errors, pc, size, paths, hidden>>
  BY DEF EndLet
<1>2. /\ frames' \in Seq(Frame)
      /\ \A i \in 1..Len(frames') : Len(frames'[i].arms) = Len(frames'[i].armPaths)
      /\ CountsGrow' /\ NamesHide' /\ LetHasNoArms'
  <2>1. \A x \in Vars : ctx[x] \in Nat /\ Top.base[x] <= ctx[x]
    BY <1>1 DEF UsageInv, TypeOK, Counts, CountsGrow
  <2> QED
    BY <1>1, <2>1, PopKeeps
<1>3. TypeOK'
  BY <1>1, <1>2 DEF UsageInv, TypeOK
<1>4. /\ Len(frames') = n /\ n \in Nat /\ n + 1 = Len(frames)
      /\ \A i \in 1..n : frames'[i] = frames[i] /\ i \in 1..Len(frames)
  <2>1. frames \in Seq(Frame)
    BY DEF UsageInv, TypeOK
  <2>2. /\ Len(frames') = n /\ n \in Nat
        /\ \A i \in 1..n : frames'[i] = frames[i] /\ i \in 1..Len(frames)
    BY <1>1, <2>1, PopFrames
  <2>3. n + 1 = Len(frames)
    BY <2>1, LenProperties
  <2> QED
    BY <2>2, <2>3
<1>5. \A x : (Differs(x)' <=> Differs(x)) /\ (is_compared(x)' <=> is_compared(x))
  BY <1>1 DEF Differs, is_compared
<1>6. CountsSummarise'
  <2> SUFFICES ASSUME NEW x \in Vars \ hidden
               PROVE  /\ Summarises(ctx, paths, x)'
                      /\ \A i \in 1..Len(frames') : FrameSummarises(frames[i], x)'
    BY <1>1 DEF CountsSummarise
  <2>1. Summarises(ctx, paths, x)'
    BY <1>1, <1>5 DEF UsageInv, CountsSummarise, Summarises
  <2>2. ASSUME NEW i \in 1..Len(frames') PROVE FrameSummarises(frames[i], x)'
    <3>1. FrameSummarises(frames'[i], x)
      BY <1>4 DEF UsageInv, CountsSummarise
    <3> QED
      BY <1>5, <3>1 DEF FrameSummarises, Summarises
  <2> QED
    BY <2>1, <2>2
<1>7. DifferenceStays'
  <2> SUFFICES ASSUME NEW x \in Vars \ hidden, Differs(x)
               PROVE  /\ is_compared(x)
                      /\ \/ Split(paths, x)
                         \/ \E i \in 1..Len(frames') : \E j \in 1..Len(frames'[i].arms) : Split(frames'[i].armPaths[j], x)
    BY <1>1, <1>5 DEF DifferenceStays, Split
  <2>1. /\ is_compared(x)
        /\ \/ Split(paths, x)
           \/ \E i \in 1..Len(frames) : \E j \in 1..Len(frames[i].arms) : Split(frames[i].armPaths[j], x)
    BY DEF UsageInv, DifferenceStays
  <2>2. CASE \E i \in 1..Len(frames) : \E j \in 1..Len(frames[i].arms) : Split(frames[i].armPaths[j], x)
    <3>1. PICK i \in 1..Len(frames) : \E j \in 1..Len(frames[i].arms) : Split(frames[i].armPaths[j], x)
      BY <2>2
    <3>2. i # n + 1
      <4> SUFFICES ASSUME i = n + 1 PROVE FALSE
        OBVIOUS
      <4>1. frames[i] = Top
        BY <1>4 DEF Top
      <4>2. frames[i].arms = <<>>
        BY <1>1, <4>1 DEF UsageInv, LetHasNoArms
      <4>3. Len(frames[i].arms) = 0
        BY <4>2, EmptySeq
      <4> QED
        BY <3>1, <4>3
    <3>3. i \in 1..Len(frames') /\ frames'[i] = frames[i]
      BY <1>4, <3>2
    <3> QED
      BY <2>1, <3>1, <3>3
  <2> QED
    BY <2>1, <2>2
<1>8. OthersAreFinal'
  BY <1>1 DEF UsageInv, OthersAreFinal
<1> QED
  BY <1>2, <1>3, <1>6, <1>7, <1>8 DEF UsageInv

\* Check: the diagnostics of the final comparison, and no other.
LEMMA CheckInv ==
  ASSUME UsageInv, Check
  PROVE  UsageInv'
<1> DEFINE found == UNION {check_grade(grade[x], ctx[x]) \X {x} : x \in Vars}
<1>1. /\ pc = "walk" /\ frames = <<>> /\ pc' = "done"
      /\ errors' = errors \cup found
      /\ UNCHANGED <<grade, ctx, frames, size, paths, hidden>>
  BY DEF Check
<1>2. \A x \in Vars : check_grade(grade[x], ctx[x]) \subseteq {"A05001", "A05002", "A05003"}
  BY DEF check_grade
<1>3. /\ found \subseteq {"A05001", "A05002", "A05003"} \X Vars
      /\ \A x \in Vars : (\E e \in found : e[2] = x) <=> check_grade(grade[x], ctx[x]) # {}
  <2>1. \A e : e \in found <=> \E x \in Vars : \E c \in check_grade(grade[x], ctx[x]) : e = <<c, x>>
    OBVIOUS
  <2> HIDE DEF found
  <2>2. found \subseteq {"A05001", "A05002", "A05003"} \X Vars
    BY <1>2, <2>1
  <2>3. ASSUME NEW x \in Vars
        PROVE  (\E e \in found : e[2] = x) <=> check_grade(grade[x], ctx[x]) # {}
    <3>1. ASSUME NEW e \in found, e[2] = x PROVE check_grade(grade[x], ctx[x]) # {}
      BY <2>1, <3>1
    <3>2. ASSUME NEW c \in check_grade(grade[x], ctx[x]) PROVE <<c, x>> \in found /\ <<c, x>>[2] = x
      BY <2>1
    <3> QED
      BY <3>1, <3>2
  <2> QED
    BY <2>2, <2>3
<1> HIDE DEF found
<1>4. errors \subseteq {"A05004"} \X Vars
  BY <1>1 DEF UsageInv, OthersAreFinal
<1>5. TypeOK'
  <2>1. errors' \subseteq {"A05001", "A05002", "A05003", "A05004"} \X Vars
    BY <1>1, <1>3, <1>4
  <2> QED
    BY <1>1, <2>1 DEF UsageInv, TypeOK
<1>6. CountsGrow' /\ NamesHide' /\ LetHasNoArms'
  BY <1>1 DEF UsageInv, CountsGrow, FrameGrows, NamesHide, LetHasNoArms, Top
<1>7. \A x : (Differs(x)' <=> Differs(x)) /\ (is_compared(x)' <=> is_compared(x))
  <2>1. \A x : <<"A05004", x>> \notin found
    BY <1>3
  <2> QED
    BY <1>1, <2>1 DEF Differs, is_compared
<1>8. CountsSummarise'
  <2>1. \A x \in Vars \ hidden : Summarises(ctx, paths, x)'
    BY <1>1, <1>7 DEF UsageInv, CountsSummarise, Summarises
  <2>2. Len(frames') = 0
    BY <1>1, EmptySeq
  <2> QED
    BY <1>1, <2>1, <2>2 DEF CountsSummarise
<1>9. DifferenceStays'
  BY <1>1, <1>7 DEF UsageInv, DifferenceStays, Split
<1>10. OthersAreFinal'
  <2> SUFFICES ASSUME NEW x \in Vars
               PROVE  (\E e \in errors' : e[2] = x) <=> (Differs(x) \/ check_grade(grade[x], ctx[x]) # {})
    BY <1>1, <1>7 DEF OthersAreFinal, Reports
  <2>1. (\E e \in errors : e[2] = x) <=> Differs(x)
    BY <1>4 DEF Differs
  <2>2. (\E e \in errors' : e[2] = x) <=> ((\E e \in errors : e[2] = x) \/ (\E e \in found : e[2] = x))
    BY <1>1
  <2> QED
    BY <1>3, <2>1, <2>2
<1> QED
  BY <1>5, <1>6, <1>8, <1>9, <1>10 DEF UsageInv

\* Before the first node there is one execution, and it uses nothing.
LEMMA WalkStarts == Init => UsageInv
<1> SUFFICES ASSUME Init PROVE UsageInv
  OBVIOUS
<1>1. frames = <<>> /\ Len(frames) = 0 /\ frames \in Seq(Frame) /\ errors = {} /\ pc = "walk"
  BY EmptySeq DEF Init
<1>2. TypeOK
  <2>1. ctx \in Counts /\ paths \in SUBSET Counts
    BY DEF Init, Counts
  <2>2. size \in 0..MaxNodes
    BY MaxNodesAssumption DEF Init
  <2>3. grade \in [Vars -> UsageGrade] /\ hidden \subseteq Vars
    BY DEF Init
  <2>4. errors \subseteq {"A05001", "A05002", "A05003", "A05004"} \X Vars
    BY <1>1
  <2> QED
    BY <1>1, <2>1, <2>2, <2>3, <2>4 DEF TypeOK
<1>3. CountsGrow /\ NamesHide /\ LetHasNoArms
  BY <1>1 DEF CountsGrow, NamesHide, LetHasNoArms
<1>4. CountsSummarise
  <2>1. \A x \in Vars : ctx[x] = 0 /\ ctx \in paths /\ \A p \in paths : p[x] = 0
    BY DEF Init
  <2>2. \A x \in Vars : Summarises(ctx, paths, x)
    <3> SUFFICES ASSUME NEW x \in Vars PROVE Summarises(ctx, paths, x)
      OBVIOUS
    <3>1. \A p \in paths : p[x] <= ctx[x] /\ p[x] = ctx[x]
      BY <2>1
    <3>2. \E p \in paths : p[x] = ctx[x]
      BY <2>1
    <3> QED
      BY <3>1, <3>2 DEF Summarises
  <2>3. \A x \in Vars \ hidden : \A i \in 1..Len(frames) : FrameSummarises(frames[i], x)
    BY <1>1
  <2> QED
    BY <2>2, <2>3 DEF CountsSummarise
<1>5. DifferenceStays /\ OthersAreFinal
  BY <1>1 DEF DifferenceStays, OthersAreFinal, Differs
<1> QED
  BY <1>2, <1>3, <1>4, <1>5 DEF UsageInv

-----------------------------------------------------------------------------
(* Theorems.                                                               *)

\* The counts of the walk stand for the executions of what was walked.
THEOREM UsageInvariant == Spec => []UsageInv
<1>1. Init => UsageInv
  BY WalkStarts
<1>2. UsageInv /\ [Next]_vars => UsageInv'
  <2> SUFFICES ASSUME UsageInv, [Next]_vars PROVE UsageInv'
    OBVIOUS
  <2>1. ASSUME NEW x \in Vars, Ident(x) PROVE UsageInv'
    BY <2>1, IdentInv
  <2>2. CASE Childless
    <3>1. size' \in 0..MaxNodes
      BY <2>2, MaxNodesAssumption DEF Childless, Visits, UsageInv, TypeOK
    <3> QED
      BY <2>2, <3>1, CountedInv DEF Childless
  <2>3. ASSUME NEW kind \in {"if", "match", "let"}, NEW name \in Vars \cup {"none"}, Enter(kind, name)
        PROVE  UsageInv'
    BY <2>3, EnterInv
  <2>4. ASSUME NEW name \in Vars \cup {"none"}, NextArm(name) PROVE UsageInv'
    BY <2>4, NextArmInv
  <2>5. CASE Merge
    BY <2>5, MergeInv
  <2>6. CASE EndLet
    BY <2>6, EndLetInv
  <2>7. CASE Check
    BY <2>7, CheckInv
  <2>8. CASE UNCHANGED vars
    <3>1. size' \in 0..MaxNodes /\ UNCHANGED <<grade, ctx, frames, errors, pc, paths, hidden>>
      BY <2>8 DEF vars, UsageInv, TypeOK
    <3> QED
      BY <3>1, CountedInv
  <2> QED
    BY <2>1, <2>2, <2>3, <2>4, <2>5, <2>6, <2>7, <2>8 DEF Next
<1> QED
  BY <1>1, <1>2, PTL DEF Spec

\* The walk keeps its types, and no branch is open once it is done.
THEOREM WalkTypeCorrect == Spec => []TypeOK
<1>1. UsageInv => TypeOK
  BY DEF UsageInv
<1> QED
  BY <1>1, UsageInvariant, PTL

\* A parameter that check() accepts is used as its grade says in every
\* execution, however the branches nest.
THEOREM AcceptedUses == Spec => []AcceptedIsUsedAsGraded
<1>1. UsageInv => AcceptedIsUsedAsGraded
  <2> SUFFICES ASSUME UsageInv, pc = "done", NEW x \in Vars \ hidden, ~Reports(x), NEW p \in paths
               PROVE  Allowed(grade[x], p[x])
    BY DEF AcceptedIsUsedAsGraded
  <2>1. ~Differs(x) /\ check_grade(grade[x], ctx[x]) = {}
    BY DEF UsageInv, OthersAreFinal
  <2>2. grade[x] \in UsageGrade /\ ctx[x] \in Nat /\ p[x] \in Nat
    BY DEF UsageInv, TypeOK, Counts
  <2>3. p[x] <= ctx[x] /\ (is_compared(x) => p[x] = ctx[x])
    BY <2>1 DEF UsageInv, CountsSummarise, Summarises
  <2> QED
    BY <2>1, <2>2, <2>3, MaxExactAssumption DEF check_grade, Allowed, UsageGrade, is_compared
<1> QED
  BY <1>1, UsageInvariant, PTL

\* A parameter that every execution uses as its grade says is accepted:
\* merge_arms loses nothing by keeping the largest count.
THEOREM GoodUsesAccepted == Spec => []NoFalseAlarm
<1>1. UsageInv => NoFalseAlarm
  <2> SUFFICES ASSUME UsageInv, pc = "done", NEW x \in Vars \ hidden,
                      \A p \in paths : Allowed(grade[x], p[x])
               PROVE  ~Reports(x)
    BY DEF NoFalseAlarm
  <2>1. frames = <<>> /\ Len(frames) = 0
    BY EmptySeq DEF UsageInv, TypeOK
  <2>2. ~Differs(x)
    <3> SUFFICES ASSUME Differs(x) PROVE FALSE
      OBVIOUS
    <3>1. is_compared(x) /\ Split(paths, x)
      BY <2>1 DEF UsageInv, DifferenceStays
    <3> QED
      BY <3>1 DEF Split, Allowed, is_compared
  <2>3. PICK p \in paths : p[x] = ctx[x]
    BY DEF UsageInv, CountsSummarise, Summarises
  <2>4. grade[x] \in UsageGrade /\ ctx[x] \in Nat
    BY DEF UsageInv, TypeOK, Counts
  <2>5. Allowed(grade[x], ctx[x])
    BY <2>3
  <2>6. check_grade(grade[x], ctx[x]) = {}
    BY <2>4, <2>5, MaxExactAssumption DEF check_grade, Allowed, UsageGrade
  <2> QED
    BY <2>2, <2>6 DEF UsageInv, OthersAreFinal
<1> QED
  BY <1>1, UsageInvariant, PTL
=============================================================================
