------------------------ MODULE ProjectCheckProofs --------------------------
(***************************************************************************)
(* Proofs about ModuleGraph and ProjectCheck: the search for import cycles *)
(* reports only cycles, and a search that reports none leaves the modules  *)
(* in an order in which each comes after its imports.  A command that      *)
(* succeeds has checked every file, and one that fails has a cause.        *)
(*                                                                         *)
(* SearchInv is the invariant of the search, CommandInvariant that of the  *)
(* command around it, which ties each error to what caused it.             *)
(***************************************************************************)
EXTENDS ProjectCheck, WellFoundedInduction, TLAPS

\* The gray modules are the ones on the stack, each there once, and the
\* stack is a path of the import graph.
StackIsPath ==
  /\ \A i \in 1..Len(stack) : color[stack[i]] = "gray"
  /\ \A m \in Names : color[m] = "gray" => \E i \in 1..Len(stack) : stack[i] = m
  /\ \A i, j \in 1..Len(stack) : stack[i] = stack[j] => i = j
  /\ \A i \in 1..Len(stack) : i < Len(stack) => Edge(stack[i], stack[i + 1])

\* A call that has not begun looks at the first import next.
WhiteIsFresh == \A m \in Names : color[m] = "white" => next[m] = 1

\* While nothing was reported, what a call has walked to is finished, or is
\* the call it is waiting for.
WalkedIsDone ==
  cycles = {} =>
    \A i \in 1..Len(stack) : \A k \in 1..Len(imports[stack[i]]) :
      /\ k < next[stack[i]]
      /\ imports[stack[i]][k].to \in modules
      => \/ color[imports[stack[i]][k].to] = "black"
         \/ i < Len(stack) /\ stack[i + 1] = imports[stack[i]][k].to

\* While nothing was reported, a finished module comes after its imports.
BlackIsOrdered ==
  cycles = {} =>
    \A m \in modules : color[m] = "black" =>
      \A t \in modules : Edge(m, t) => color[t] = "black" /\ rank[t] < rank[m]

RankIsPast == \A m \in Names : rank[m] <= clock

\* The inductive invariant of the search.
SearchInv ==
  /\ SearchTypeOK
  /\ StackIsPath
  /\ WhiteIsFresh
  /\ CyclesAreReal
  /\ WalkedIsDone
  /\ BlackIsOrdered
  /\ RankIsPast

-----------------------------------------------------------------------------

\* The state a search starts from satisfies the invariant, on any graph.
LEMMA InitSearchInv ==
  ASSUME InitSearch, modules \subseteq Names, imports \in [Names -> Seq(Import)]
  PROVE  SearchInv
<1>1. SearchTypeOK
  BY NamesAssumption DEF InitSearch, SearchTypeOK
<1>2. StackIsPath /\ WhiteIsFresh /\ WalkedIsDone /\ RankIsPast
  BY DEF InitSearch, StackIsPath, WhiteIsFresh, WalkedIsDone, RankIsPast
<1>3. CyclesAreReal
  BY DEF InitSearch, CyclesAreReal
<1>4. BlackIsOrdered
  BY DEF InitSearch, BlackIsOrdered, SearchTypeOK
<1> QED BY <1>1, <1>2, <1>3, <1>4 DEF SearchInv

\* dfs begins at a white module that the top of the stack, if any, imports.
LEMMA EnterStack ==
  ASSUME SearchInv, NEW m \in modules, color[m] = "white", Enter(m), UNCHANGED graphVars,
         stack # <<>> => Edge(Top, m)
  PROVE  /\ StackIsPath'
         /\ stack' \in Seq(modules)
         /\ color' \in [Names -> {"white", "gray", "black"}]
         /\ Len(stack') = Len(stack) + 1
         /\ \A i \in 1..Len(stack) : stack'[i] = stack[i]
         /\ stack'[Len(stack) + 1] = m
         /\ \A n \in Names : color'[n] = IF n = m THEN "gray" ELSE color[n]
<1> USE DEF SearchInv, SearchTypeOK, Enter, graphVars
<1>1. /\ stack' \in Seq(modules)
      /\ Len(stack') = Len(stack) + 1
      /\ \A i \in 1..Len(stack) : stack'[i] = stack[i]
      /\ stack'[Len(stack) + 1] = m
  OBVIOUS
<1>2. /\ m \in Names
      /\ color' \in [Names -> {"white", "gray", "black"}]
      /\ \A n \in Names : color'[n] = IF n = m THEN "gray" ELSE color[n]
  OBVIOUS
<1>3. \A i \in 1..Len(stack) : stack[i] \in Names /\ stack[i] # m
  <2>1. \A i \in 1..Len(stack) : stack[i] \in modules
    OBVIOUS
  <2>2. \A i \in 1..Len(stack) : color[stack[i]] = "gray"
    BY DEF StackIsPath
  <2> QED BY <2>1, <2>2
<1>4. Len(stack) \in Nat
  OBVIOUS
<1>5. \A i \in 1..Len(stack') : color'[stack'[i]] = "gray"
  BY <1>1, <1>2, <1>3, <1>4 DEF StackIsPath
<1>6. \A n \in Names : color'[n] = "gray" => \E i \in 1..Len(stack') : stack'[i] = n
  <2> TAKE n \in Names
  <2>1. CASE n = m
    BY <2>1, <1>1, <1>4
  <2>2. CASE n # m
    BY <2>2, <1>1, <1>2, <1>4 DEF StackIsPath
  <2> QED BY <2>1, <2>2
<1>7. \A i, j \in 1..Len(stack') : stack'[i] = stack'[j] => i = j
  <2>1. \A i, j \in 1..Len(stack) : stack[i] = stack[j] => i = j
    BY DEF StackIsPath
  <2>2. \A i \in 1..Len(stack') : i = Len(stack) + 1 \/ i \in 1..Len(stack)
    BY <1>1, <1>4
  <2> HIDE DEF SearchInv, SearchTypeOK, Enter
  <2> QED BY <2>1, <2>2, <1>1, <1>3, <1>4
<1>8. (\A i \in 1..Len(stack) : i < Len(stack) => Edge(stack[i], stack[i + 1]))'
  <2>1. \A a, b : Edge(a, b)' <=> Edge(a, b)
    BY DEF Edge, Targets
  <2>2. \A i \in 1..Len(stack') : i < Len(stack') => Edge(stack'[i], stack'[i + 1])
    <3> SUFFICES ASSUME NEW i \in 1..Len(stack'), i < Len(stack')
                 PROVE  Edge(stack'[i], stack'[i + 1])
      OBVIOUS
    <3>1. CASE i < Len(stack)
      <4>1. i \in 1..Len(stack) /\ i + 1 \in 1..Len(stack)
        BY <3>1, <1>4
      <4> QED BY <3>1, <4>1, <1>1 DEF StackIsPath
    <3>2. CASE i = Len(stack)
      <4>1. stack # <<>> /\ i \in 1..Len(stack)
        BY <3>2, <1>1, <1>4
      <4>2. Top = stack'[i] /\ m = stack'[i + 1]
        BY <3>2, <4>1, <1>1 DEF Top
      <4>3. Edge(Top, m)
        BY <4>1
      <4> QED BY <4>2, <4>3 DEF Edge, Targets
    <3>3. i < Len(stack) \/ i = Len(stack)
      BY <1>1, <1>4
    <3> QED BY <3>1, <3>2, <3>3
  <2> QED BY <2>1, <2>2
<1> QED BY <1>1, <1>2, <1>5, <1>6, <1>7, <1>8 DEF StackIsPath

\* The loop over the keys keeps the invariant.
LEMMA StartSearchInv ==
  ASSUME SearchInv, StartSearch
  PROVE  SearchInv'
<1>1. PICK m \in modules : color[m] = "white" /\ Enter(m)
  BY DEF StartSearch
<1>2. stack = <<>> /\ UNCHANGED <<next, cycles, rank, clock>> /\ UNCHANGED graphVars
  BY DEF StartSearch
<1>3. /\ StackIsPath'
      /\ stack' \in Seq(modules)
      /\ color' \in [Names -> {"white", "gray", "black"}]
      /\ Len(stack') = 1
      /\ stack'[1] = m
      /\ \A n \in Names : color'[n] = IF n = m THEN "gray" ELSE color[n]
  BY <1>1, <1>2, EnterStack
<1>4. SearchTypeOK'
  BY <1>2, <1>3 DEF SearchInv, SearchTypeOK, graphVars
<1>5. WhiteIsFresh'
  BY <1>2, <1>3 DEF SearchInv, WhiteIsFresh
<1>6. CyclesAreReal'
  BY <1>2 DEF SearchInv, CyclesAreReal, IsCycle, Edge, Targets, graphVars
<1>7. WalkedIsDone'
  <2>1. next'[m] = 1
    BY <1>1, <1>2 DEF SearchInv, SearchTypeOK, WhiteIsFresh
  <2> QED BY <2>1, <1>3 DEF WalkedIsDone
<1>8. BlackIsOrdered'
  <2>1. \A a, b : Edge(a, b)' <=> Edge(a, b)
    BY <1>2 DEF Edge, Targets, graphVars
  <2>2. \A n \in modules : (color'[n] = "black") <=> (color[n] = "black")
    BY <1>1, <1>3 DEF SearchInv, SearchTypeOK
  <2> SUFFICES ASSUME cycles = {},
                      NEW n \in modules, color'[n] = "black",
                      NEW t \in modules, Edge(n, t)
               PROVE  color'[t] = "black" /\ rank'[t] < rank'[n]
    BY <1>2, <2>1 DEF BlackIsOrdered, graphVars
  <2>3. color[t] = "black" /\ rank[t] < rank[n]
    <3>1. color[n] = "black"
      BY <2>2
    <3> QED BY <3>1 DEF SearchInv, BlackIsOrdered
  <2> QED BY <1>2, <2>2, <2>3
<1>9. RankIsPast'
  BY <1>2 DEF SearchInv, RankIsPast
<1> QED BY <1>3, <1>4, <1>5, <1>6, <1>7, <1>8, <1>9 DEF SearchInv

\* The top of a stack that is not empty is a gray module.
LEMMA TopIsGray ==
  ASSUME SearchInv, stack # <<>>
  PROVE  /\ Len(stack) \in Nat \ {0}
         /\ Len(stack) \in 1..Len(stack)
         /\ Top = stack[Len(stack)]
         /\ Top \in modules /\ Top \in Names
         /\ color[Top] = "gray"
         /\ \A i \in 1..Len(stack) : stack[i] \in modules /\ stack[i] \in Names
         /\ \A i \in 1..Len(stack) : stack[i] = Top => i = Len(stack)
<1>1. Len(stack) \in Nat \ {0} /\ Len(stack) \in 1..Len(stack)
  BY DEF SearchInv, SearchTypeOK
<1>2. \A i \in 1..Len(stack) : stack[i] \in modules /\ stack[i] \in Names
  BY DEF SearchInv, SearchTypeOK
<1> QED BY <1>1, <1>2 DEF Top, SearchInv, StackIsPath

\* The path reported for a gray module is a cycle.
LEMMA CycleToIsCycle ==
  ASSUME SearchInv, stack # <<>>, NEW t \in modules, color[t] = "gray", Edge(Top, t)
  PROVE  IsCycle(CycleTo(t))
<1> DEFINE start == CHOOSE i \in 1..Len(stack) : stack[i] = t
           n == Len(stack) - start + 2
           c == [i \in 1..n |-> IF i = n THEN t ELSE stack[start + i - 1]]
<1>1. start \in 1..Len(stack) /\ stack[start] = t
  <2>1. \E i \in 1..Len(stack) : stack[i] = t
    BY DEF SearchInv, SearchTypeOK, StackIsPath
  <2> QED BY <2>1
<1>2. CycleTo(t) = c
  BY DEF CycleTo
<1>3. Len(stack) \in Nat /\ Len(stack) >= 1 /\ start \in Nat /\ start >= 1 /\ start <= Len(stack)
  BY <1>1, TopIsGray
<1> HIDE DEF start
<1>4. n \in Nat /\ n >= 2
  BY <1>3
<1>5. \A i \in 1..n : i # n => start + i - 1 \in 1..Len(stack)
  BY <1>3
<1>6. \A i \in 1..n : c[i] \in modules
  BY <1>5, TopIsGray
<1>7. c \in Seq(modules) /\ Len(c) = n
  BY <1>4, <1>6
<1>8. c[1] = t /\ c[n] = t
  BY <1>1, <1>3, <1>4
<1>9. \A i \in 1..(n - 1) : Edge(c[i], c[i + 1])
  <2> SUFFICES ASSUME NEW i \in 1..(n - 1)
               PROVE  Edge(c[i], c[i + 1])
    OBVIOUS
  <2>1. c[i] = stack[start + i - 1] /\ start + i - 1 \in 1..Len(stack)
    BY <1>3, <1>4
  <2>2. CASE i = n - 1
    <3>1. start + i - 1 = Len(stack) /\ c[i + 1] = t
      BY <2>2, <1>3, <1>4
    <3>2. c[i] = Top
      BY <3>1, <2>1 DEF Top
    <3> QED BY <3>1, <3>2
  <2>3. CASE i < n - 1
    <3>1. /\ c[i + 1] = stack[(start + i - 1) + 1]
          /\ start + i - 1 < Len(stack)
      BY <2>3, <1>3, <1>4
    <3>2. Edge(stack[start + i - 1], stack[(start + i - 1) + 1])
      BY <3>1, <2>1 DEF SearchInv, StackIsPath
    <3> QED BY <3>1, <3>2, <2>1
  <2>4. i = n - 1 \/ i < n - 1
    BY <1>4
  <2> QED BY <2>2, <2>3, <2>4
<1> QED BY <1>2, <1>4, <1>7, <1>8, <1>9 DEF IsCycle

\* The loop over the imports of a module keeps the invariant.
LEMMA WalkEdgeInv ==
  ASSUME SearchInv, WalkEdge
  PROVE  SearchInv'
<1> DEFINE t == imports[Top][next[Top]].to
<1>1. /\ stack # <<>>
      /\ next[Top] <= Len(imports[Top])
      /\ next' = [next EXCEPT ![Top] = @ + 1]
      /\ UNCHANGED <<rank, clock>> /\ UNCHANGED graphVars
  BY DEF WalkEdge
<1>2. /\ Len(stack) \in Nat \ {0}
      /\ Len(stack) \in 1..Len(stack)
      /\ Top = stack[Len(stack)]
      /\ Top \in modules /\ Top \in Names
      /\ color[Top] = "gray"
      /\ \A i \in 1..Len(stack) : stack[i] \in modules /\ stack[i] \in Names
      /\ \A i \in 1..Len(stack) : stack[i] = Top => i = Len(stack)
  BY <1>1, TopIsGray
<1>3. /\ imports[Top] \in Seq(Import)
      /\ Len(imports[Top]) \in Nat
      /\ next[Top] \in 1..Len(imports[Top])
  BY <1>1, <1>2 DEF SearchInv, SearchTypeOK
<1>4. t \in modules => Edge(Top, t)
  BY <1>2, <1>3 DEF Edge, Targets
<1>5. next' \in [Names -> Nat \ {0}]
  BY <1>1, <1>2 DEF SearchInv, SearchTypeOK
<1>6. \A n \in Names : next'[n] = IF n = Top THEN next[n] + 1 ELSE next[n]
  BY <1>1, <1>2 DEF SearchInv, SearchTypeOK
<1>7. RankIsPast'
  BY <1>1 DEF SearchInv, RankIsPast
<1>8. \A a, b : Edge(a, b)' <=> Edge(a, b)
  BY <1>1 DEF Edge, Targets, graphVars
<1>9. CASE t \notin modules \/ color[t] = "black"
  <2>1. UNCHANGED <<color, stack, cycles>>
    BY <1>9 DEF WalkEdge, Enter
  <2>2. SearchTypeOK'
    BY <2>1, <1>1, <1>5 DEF SearchInv, SearchTypeOK, graphVars
  <2>3. StackIsPath'
    BY <2>1, <1>1 DEF SearchInv, StackIsPath, Edge, Targets, graphVars
  <2>4. WhiteIsFresh'
    BY <2>1, <1>2, <1>6 DEF SearchInv, WhiteIsFresh
  <2>5. CyclesAreReal'
    BY <2>1, <1>1 DEF SearchInv, CyclesAreReal, IsCycle, Edge, Targets, graphVars
  <2>6. WalkedIsDone'
    <3> SUFFICES ASSUME cycles = {}, NEW i \in 1..Len(stack), NEW k \in 1..Len(imports[stack[i]]),
                        k < next'[stack[i]], imports[stack[i]][k].to \in modules
                 PROVE  \/ color[imports[stack[i]][k].to] = "black"
                        \/ i < Len(stack) /\ stack[i + 1] = imports[stack[i]][k].to
      BY <2>1, <1>1 DEF WalkedIsDone, graphVars
    <3>1. CASE k < next[stack[i]]
      BY <3>1 DEF SearchInv, WalkedIsDone
    <3>2. CASE stack[i] = Top /\ k = next[Top]
      BY <3>2, <1>9
    <3>3. k \in Nat /\ next[stack[i]] \in Nat
      BY <1>2 DEF SearchInv, SearchTypeOK
    <3> QED BY <3>1, <3>2, <3>3, <1>2, <1>6
  <2>7. BlackIsOrdered'
    BY <2>1, <1>1 DEF SearchInv, BlackIsOrdered, Edge, Targets, graphVars
  <2> QED BY <2>2, <2>3, <2>4, <2>5, <2>6, <2>7, <1>7 DEF SearchInv
<1>10. CASE t \in modules /\ color[t] = "gray"
  <2>1. cycles' = cycles \cup {CycleTo(t)} /\ UNCHANGED <<color, stack>>
    BY <1>10 DEF WalkEdge
  <2>2. SearchTypeOK'
    BY <2>1, <1>1, <1>5 DEF SearchInv, SearchTypeOK, graphVars
  <2>3. StackIsPath'
    BY <2>1, <1>1 DEF SearchInv, StackIsPath, Edge, Targets, graphVars
  <2>4. WhiteIsFresh'
    BY <2>1, <1>2, <1>6 DEF SearchInv, WhiteIsFresh
  <2>5. CyclesAreReal'
    <3>1. IsCycle(CycleTo(t))
      BY <1>1, <1>4, <1>10, CycleToIsCycle
    <3>2. \A c : IsCycle(c)' <=> IsCycle(c)
      BY <1>1 DEF IsCycle, Edge, Targets, graphVars
    <3>3. \A c \in cycles' : IsCycle(c)
      BY <2>1, <3>1 DEF SearchInv, CyclesAreReal
    <3> QED BY <3>2, <3>3 DEF CyclesAreReal
  <2>6. cycles' # {}
    BY <2>1
  <2>7. WalkedIsDone' /\ BlackIsOrdered'
    BY <2>6 DEF WalkedIsDone, BlackIsOrdered
  <2> QED BY <2>2, <2>3, <2>4, <2>5, <2>7, <1>7 DEF SearchInv
<1>11. CASE t \in modules /\ color[t] = "white"
  <2>1. Enter(t) /\ UNCHANGED cycles
    BY <1>11 DEF WalkEdge
  <2> HIDE DEF t
  <2>2. /\ StackIsPath'
        /\ stack' \in Seq(modules)
        /\ color' \in [Names -> {"white", "gray", "black"}]
        /\ Len(stack') = Len(stack) + 1
        /\ \A i \in 1..Len(stack) : stack'[i] = stack[i]
        /\ stack'[Len(stack) + 1] = t
        /\ \A n \in Names : color'[n] = IF n = t THEN "gray" ELSE color[n]
    BY <2>1, <1>1, <1>4, <1>11, EnterStack
  <2>3. SearchTypeOK'
    BY <2>2, <1>1, <1>5 DEF SearchInv, SearchTypeOK, graphVars
  <2>4. WhiteIsFresh'
    BY <2>2, <1>2, <1>6 DEF SearchInv, WhiteIsFresh
  <2>5. CyclesAreReal'
    BY <2>1, <1>1 DEF SearchInv, CyclesAreReal, IsCycle, Edge, Targets, graphVars
  <2>6. \A n \in modules : (color'[n] = "black") <=> (color[n] = "black")
    BY <2>2, <1>11 DEF SearchInv, SearchTypeOK
  <2>7. WalkedIsDone'
    <3> SUFFICES ASSUME cycles = {}, NEW i \in 1..Len(stack'), NEW k \in 1..Len(imports[stack'[i]]),
                        k < next'[stack'[i]], imports[stack'[i]][k].to \in modules
                 PROVE  \/ color'[imports[stack'[i]][k].to] = "black"
                        \/ i < Len(stack') /\ stack'[i + 1] = imports[stack'[i]][k].to
      BY <2>1, <1>1 DEF WalkedIsDone, graphVars
    <3>1. CASE i = Len(stack) + 1
      <4>1. stack'[i] = t /\ t # Top /\ t \in Names
        BY <3>1, <2>2, <1>2, <1>11 DEF SearchInv, SearchTypeOK
      <4>2. next'[t] = 1
        BY <4>1, <1>6, <1>11 DEF SearchInv, WhiteIsFresh
      <4> QED BY <4>1, <4>2
    <3>2. CASE i \in 1..Len(stack) /\ k < next[stack[i]]
      <4>1. stack'[i] = stack[i]
        BY <3>2, <2>2
      <4>2. \/ color[imports[stack[i]][k].to] = "black"
            \/ i < Len(stack) /\ stack[i + 1] = imports[stack[i]][k].to
        BY <3>2, <4>1 DEF SearchInv, WalkedIsDone
      <4>3. i < Len(stack) => i < Len(stack') /\ stack'[i + 1] = stack[i + 1]
        BY <3>2, <2>2, <1>2
      <4> QED BY <4>1, <4>2, <4>3, <2>6
    <3>3. CASE i = Len(stack) /\ k = next[Top]
      <4>1. stack'[i] = Top
        BY <3>3, <2>2, <1>2
      <4>2. imports[stack'[i]][k].to = t
        BY <4>1, <3>3 DEF t
      <4> QED BY <4>2, <3>3, <2>2, <1>2
    <3>4. \/ i = Len(stack) + 1
          \/ i \in 1..Len(stack)
      BY <2>2, <1>2
    <3>5. ASSUME i \in 1..Len(stack)
          PROVE  k < next[stack[i]] \/ (i = Len(stack) /\ k = next[Top])
      <4>1. stack'[i] = stack[i] /\ stack[i] \in Names
        BY <3>5, <2>2, <1>2
      <4>2. k \in Nat /\ next[stack[i]] \in Nat
        BY <4>1 DEF SearchInv, SearchTypeOK
      <4> QED BY <4>1, <4>2, <3>5, <1>2, <1>6
    <3> QED BY <3>1, <3>2, <3>3, <3>4, <3>5
  <2>8. BlackIsOrdered'
    <3> SUFFICES ASSUME cycles = {},
                        NEW n \in modules, color'[n] = "black",
                        NEW u \in modules, Edge(n, u)
                 PROVE  color'[u] = "black" /\ rank'[u] < rank'[n]
      BY <1>1, <1>8, <2>1 DEF BlackIsOrdered, graphVars
    <3>1. color[n] = "black"
      BY <2>6
    <3>2. color[u] = "black" /\ rank[u] < rank[n]
      BY <3>1 DEF SearchInv, BlackIsOrdered
    <3> QED BY <1>1, <2>6, <3>2
  <2> QED BY <2>2, <2>3, <2>4, <2>5, <2>7, <2>8, <1>7 DEF SearchInv
<1>12. t \in modules => color[t] \in {"white", "gray", "black"}
  BY DEF SearchInv, SearchTypeOK
<1> QED BY <1>9, <1>10, <1>11, <1>12

\* The end of dfs keeps the invariant.
LEMMA LeaveInv ==
  ASSUME SearchInv, Leave
  PROVE  SearchInv'
<1>1. /\ stack # <<>>
      /\ next[Top] > Len(imports[Top])
      /\ color' = [color EXCEPT ![Top] = "black"]
      /\ stack' = Pop
      /\ rank' = [rank EXCEPT ![Top] = clock + 1]
      /\ clock' = clock + 1
      /\ UNCHANGED <<next, cycles>> /\ UNCHANGED graphVars
  BY DEF Leave
<1>2. /\ Len(stack) \in Nat \ {0}
      /\ Len(stack) \in 1..Len(stack)
      /\ Top = stack[Len(stack)]
      /\ Top \in modules /\ Top \in Names
      /\ color[Top] = "gray"
      /\ \A i \in 1..Len(stack) : stack[i] \in modules /\ stack[i] \in Names
      /\ \A i \in 1..Len(stack) : stack[i] = Top => i = Len(stack)
  BY <1>1, TopIsGray
<1>3. /\ stack' \in Seq(modules)
      /\ Len(stack') = Len(stack) - 1
      /\ \A i \in 1..Len(stack') : i \in 1..Len(stack) /\ i # Len(stack) /\ stack'[i] = stack[i]
  BY <1>1, <1>2 DEF Pop
<1>4. /\ color' \in [Names -> {"white", "gray", "black"}]
      /\ \A n \in Names : color'[n] = IF n = Top THEN "black" ELSE color[n]
  BY <1>1, <1>2 DEF SearchInv, SearchTypeOK
<1>5. /\ rank' \in [Names -> Nat] /\ clock \in Nat
      /\ \A n \in Names : rank'[n] = IF n = Top THEN clock + 1 ELSE rank[n]
  BY <1>1, <1>2 DEF SearchInv, SearchTypeOK
<1>6. \A a, b : Edge(a, b)' <=> Edge(a, b)
  BY <1>1 DEF Edge, Targets, graphVars
<1>7. SearchTypeOK'
  <2>1. modules' = modules /\ imports' = imports /\ next' = next
    BY <1>1 DEF graphVars
  <2>2. clock' \in Nat
    BY <1>1, <1>5
  <2> QED BY <2>1, <2>2, <1>3, <1>4, <1>5 DEF SearchInv, SearchTypeOK
<1>8. StackIsPath'
  <2>1. \A i \in 1..Len(stack') : color'[stack'[i]] = "gray"
    <3> SUFFICES ASSUME NEW i \in 1..Len(stack')
                 PROVE  color'[stack'[i]] = "gray"
      OBVIOUS
    <3>1. i \in 1..Len(stack) /\ i # Len(stack) /\ stack'[i] = stack[i]
      BY <1>3
    <3>2. stack[i] \in Names /\ stack[i] # Top
      BY <3>1, <1>2
    <3>3. color[stack[i]] = "gray"
      BY <3>1 DEF SearchInv, StackIsPath
    <3> QED BY <3>1, <3>2, <3>3, <1>4
  <2>2. \A n \in Names : color'[n] = "gray" => \E i \in 1..Len(stack') : stack'[i] = n
    <3> SUFFICES ASSUME NEW n \in Names, color'[n] = "gray"
                 PROVE  \E i \in 1..Len(stack') : stack'[i] = n
      OBVIOUS
    <3>1. n # Top /\ color[n] = "gray"
      BY <1>4
    <3>2. PICK i \in 1..Len(stack) : stack[i] = n
      BY <3>1 DEF SearchInv, StackIsPath
    <3>3. i # Len(stack)
      BY <3>1, <3>2, <1>2
    <3>4. i \in 1..Len(stack')
      BY <3>3, <1>2, <1>3
    <3> QED BY <3>2, <3>4, <1>3
  <2>3. \A i, j \in 1..Len(stack') : stack'[i] = stack'[j] => i = j
    BY <1>3 DEF SearchInv, StackIsPath
  <2>4. \A i \in 1..Len(stack') : i < Len(stack') => Edge(stack'[i], stack'[i + 1])
    <3> SUFFICES ASSUME NEW i \in 1..Len(stack'), i < Len(stack')
                 PROVE  Edge(stack'[i], stack'[i + 1])
      OBVIOUS
    <3>1. i + 1 \in 1..Len(stack') /\ i < Len(stack)
      BY <1>2, <1>3
    <3>2. Edge(stack[i], stack[i + 1])
      BY <3>1, <1>3 DEF SearchInv, StackIsPath
    <3>3. stack'[i] = stack[i] /\ stack'[i + 1] = stack[i + 1]
      BY <3>1, <1>3
    <3> QED BY <3>2, <3>3 DEF Edge, Targets
  <2>5. (\A i \in 1..Len(stack) : i < Len(stack) => Edge(stack[i], stack[i + 1]))'
    BY <2>4, <1>6
  <2> QED BY <2>1, <2>2, <2>3, <2>5 DEF StackIsPath
<1>9. WhiteIsFresh'
  BY <1>1, <1>4 DEF SearchInv, WhiteIsFresh
<1>10. CyclesAreReal'
  BY <1>1 DEF SearchInv, CyclesAreReal, IsCycle, Edge, Targets, graphVars
<1>11. WalkedIsDone'
  <2> SUFFICES ASSUME cycles = {}, NEW i \in 1..Len(stack'), NEW k \in 1..Len(imports[stack'[i]]),
                      k < next[stack'[i]], imports[stack'[i]][k].to \in modules
               PROVE  \/ color'[imports[stack'[i]][k].to] = "black"
                      \/ i < Len(stack') /\ stack'[i + 1] = imports[stack'[i]][k].to
    BY <1>1 DEF WalkedIsDone, graphVars
  <2> DEFINE u == imports[stack'[i]][k].to
  <2>1. i \in 1..Len(stack) /\ i # Len(stack) /\ stack'[i] = stack[i]
    BY <1>3
  <2>2. u = imports[stack[i]][k].to /\ u \in modules /\ u \in Names
    BY <2>1 DEF SearchInv, SearchTypeOK
  <2>3. color[u] = "black" \/ (i < Len(stack) /\ stack[i + 1] = u)
    BY <2>1, <2>2 DEF SearchInv, WalkedIsDone
  <2> HIDE DEF u
  <2>4. CASE color[u] = "black"
    BY <2>2, <2>4, <1>4 DEF u
  <2>5. CASE i + 1 = Len(stack) /\ stack[i + 1] = u
    <3>1. u = Top
      BY <2>5, <1>2
    <3> QED BY <3>1, <2>2, <1>4 DEF u
  <2>6. CASE i + 1 < Len(stack) /\ stack[i + 1] = u
    <3>1. i < Len(stack') /\ i + 1 \in 1..Len(stack')
      BY <2>6, <1>2, <1>3
    <3> QED BY <3>1, <2>6, <1>3 DEF u
  <2>7. i < Len(stack) => i + 1 = Len(stack) \/ i + 1 < Len(stack)
    BY <1>2
  <2> QED BY <2>3, <2>4, <2>5, <2>6, <2>7
<1>12. BlackIsOrdered'
  <2> SUFFICES ASSUME cycles = {},
                      NEW n \in modules, color'[n] = "black",
                      NEW u \in modules, Edge(n, u)
               PROVE  color'[u] = "black" /\ rank'[u] < rank'[n]
    BY <1>1, <1>6 DEF BlackIsOrdered, graphVars
  <2>1. n \in Names /\ u \in Names
    BY DEF SearchInv, SearchTypeOK
  <2>2. CASE n = Top
    <3>1. PICK k \in 1..Len(imports[Top]) : imports[Top][k].to = u
      BY <2>2 DEF Edge, Targets
    <3>2. k < next[Top]
      <4>1. imports[Top] \in Seq(Import) /\ next[Top] \in Nat
        BY <1>2 DEF SearchInv, SearchTypeOK
      <4> QED BY <4>1, <1>1
    <3>3. color[u] = "black"
      <4>1. ~(Len(stack) < Len(stack))
        BY <1>2
      <4> QED BY <4>1, <3>1, <3>2, <1>2 DEF SearchInv, WalkedIsDone
    <3>4. u # Top
      BY <3>3, <1>2
    <3>5. rank[u] \in Nat /\ rank[u] <= clock
      BY <2>1 DEF SearchInv, SearchTypeOK, RankIsPast
    <3> QED BY <2>1, <2>2, <3>3, <3>4, <3>5, <1>4, <1>5
  <2>3. CASE n # Top
    <3>1. color[n] = "black"
      BY <2>1, <2>3, <1>4
    <3>2. color[u] = "black" /\ rank[u] < rank[n]
      BY <3>1 DEF SearchInv, BlackIsOrdered
    <3>3. u # Top
      BY <3>2, <1>2
    <3> QED BY <2>1, <2>3, <3>2, <3>3, <1>4, <1>5
  <2> QED BY <2>2, <2>3
<1>13. RankIsPast'
  <2> SUFFICES ASSUME NEW n \in Names
               PROVE  rank'[n] <= clock'
    BY DEF RankIsPast
  <2>1. rank[n] \in Nat /\ rank[n] <= clock
    BY DEF SearchInv, SearchTypeOK, RankIsPast
  <2> QED BY <2>1, <1>1, <1>5
<1> QED BY <1>7, <1>8, <1>9, <1>10, <1>11, <1>12, <1>13 DEF SearchInv

-----------------------------------------------------------------------------
(* The theorems.                                                           *)

\* The invariant is about the graph and the search only.
LEMMA SearchInvFrame ==
  ASSUME SearchInv, UNCHANGED graphVars, UNCHANGED searchVars
  PROVE  SearchInv'
<1>1. SearchTypeOK' /\ WhiteIsFresh' /\ RankIsPast'
  BY DEF SearchInv, SearchTypeOK, WhiteIsFresh, RankIsPast, graphVars, searchVars
<1>2. StackIsPath' /\ CyclesAreReal'
  BY DEF SearchInv, StackIsPath, CyclesAreReal, IsCycle, Edge, Targets, graphVars, searchVars
<1>3. WalkedIsDone' /\ BlackIsOrdered'
  BY DEF SearchInv, WalkedIsDone, BlackIsOrdered, Edge, Targets, graphVars, searchVars
<1> QED BY <1>1, <1>2, <1>3 DEF SearchInv

\* Until the search starts it is in its initial state.
LoadPhase == phase \in {"load", "deps"} => InitSearch

\* Only files of the project are read.
UnreadIsFile == unread \subseteq Files

ProjectInv == SearchInv /\ LoadPhase /\ UnreadIsFile

\* Inserting a module leaves a graph.
LEMMA InsertGraph ==
  ASSUME SearchInv, NEW m \in Names, NEW f, NEW l \in Seq(Import), Insert(m, f, l)
  PROVE  modules' \subseteq Names /\ imports' \in [Names -> Seq(Import)]
BY DEF SearchInv, SearchTypeOK, Insert

\* The graph may change while files are read, before the search.
LEMMA LoadKeeps ==
  ASSUME ProjectInv, phase \in {"load", "deps"}, UNCHANGED searchVars,
         modules' \subseteq Names, imports' \in [Names -> Seq(Import)], unread' \subseteq unread
  PROVE  ProjectInv'
<1>1. InitSearch'
  BY DEF ProjectInv, LoadPhase, InitSearch, searchVars
<1>2. SearchTypeOK'
  BY <1>1, NamesAssumption DEF InitSearch, SearchTypeOK
<1>3. StackIsPath' /\ WhiteIsFresh' /\ WalkedIsDone' /\ RankIsPast'
  BY <1>1 DEF InitSearch, StackIsPath, WhiteIsFresh, WalkedIsDone, RankIsPast
<1>4. CyclesAreReal'
  BY <1>1 DEF InitSearch, CyclesAreReal
<1>5. BlackIsOrdered'
  BY <1>1, <1>2 DEF InitSearch, BlackIsOrdered, SearchTypeOK
<1>6. UnreadIsFile'
  BY DEF ProjectInv, UnreadIsFile
<1> QED BY <1>1, <1>2, <1>3, <1>4, <1>5, <1>6 DEF ProjectInv, SearchInv, LoadPhase

\* Every step of a command keeps the invariant.
LEMMA CommandInv ==
  ASSUME ProjectInv, [Next]_vars
  PROVE  ProjectInv'
<1>1. CASE LoadFile
  <2>1. phase = "load" /\ UNCHANGED searchVars /\ unread' \subseteq unread
    BY <1>1 DEF LoadFile
  <2>2. modules' \subseteq Names /\ imports' \in [Names -> Seq(Import)]
    <3>1. CASE UNCHANGED graphVars
      BY <3>1 DEF ProjectInv, SearchInv, SearchTypeOK, graphVars
    <3>2. ASSUME NEW f \in Files, NEW m \in KeysOf[f], NEW l \in ImportLists, Insert(m, f, l)
          PROVE  modules' \subseteq Names /\ imports' \in [Names -> Seq(Import)]
      <4>1. m \in Names /\ l \in Seq(Import)
        BY KeysAssumption, ImportsAssumption
      <4> QED BY <3>2, <4>1, InsertGraph DEF ProjectInv
    <3>3. unread \subseteq Files
      BY DEF ProjectInv, UnreadIsFile
    <3> QED BY <1>1, <3>1, <3>2, <3>3 DEF LoadFile, ReadFails
  <2> QED BY <2>1, <2>2, LoadKeeps
<1>2. CASE LoadDep
  <2>1. phase = "deps" /\ UNCHANGED searchVars /\ unread' \subseteq unread
    BY <1>2 DEF LoadDep
  <2>2. modules' \subseteq Names /\ imports' \in [Names -> Seq(Import)]
    <3>1. CASE UNCHANGED graphVars
      BY <3>1 DEF ProjectInv, SearchInv, SearchTypeOK, graphVars
    <3>2. CASE \E d \in DepNames, l \in DepImports : Insert(d, "dep", l)
      BY <3>2, InsertGraph, ImportsAssumption, DepNamesAssumption DEF ProjectInv
    <3> QED BY <1>2, <3>1, <3>2 DEF LoadDep, ReadFails, Wanted
  <2> QED BY <2>1, <2>2, LoadKeeps
<1>3. CASE SearchStep
  <2>1. phase = "search" /\ phase' = "search" /\ unread' = unread /\ Search
    BY <1>3 DEF SearchStep, projectVars
  <2>2. SearchInv'
    BY <2>1, StartSearchInv, WalkEdgeInv, LeaveInv DEF ProjectInv, Search
  <2> QED BY <2>1, <2>2 DEF ProjectInv, LoadPhase, UnreadIsFile
<1>4. ASSUME UNCHANGED graphVars, UNCHANGED searchVars, UNCHANGED unread,
             phase' \in {"load", "deps"} => phase \in {"load", "deps"}
      PROVE  ProjectInv'
  <2>1. SearchInv'
    BY <1>4, SearchInvFrame DEF ProjectInv
  <2>2. LoadPhase'
    BY <1>4 DEF ProjectInv, LoadPhase, InitSearch, searchVars
  <2> QED BY <2>1, <2>2, <1>4 DEF ProjectInv, UnreadIsFile
<1>5. CASE NoFiles \/ AllLoaded \/ AllDepsLoaded
  BY <1>4, <1>5 DEF NoFiles, AllLoaded, AllDepsLoaded
<1>6. CASE SearchEnds \/ Resolve \/ CheckModule
  BY <1>4, <1>6 DEF SearchEnds, Resolve, CheckModule
<1>7. CASE CheckEnds \/ TypesDone \/ WriteModule \/ OutputFails \/ BuildEnds
  BY <1>4, <1>7 DEF CheckEnds, TypesDone, WriteModule, OutputFails, BuildEnds
<1>8. CASE UNCHANGED vars
  BY <1>4, <1>8 DEF vars, projectVars
<1> QED BY <1>1, <1>2, <1>3, <1>5, <1>6, <1>7, <1>8 DEF Next, Command, Exited

\* The invariant holds in every state of every command, for every project.
THEOREM ProjectInvariant == Spec => []ProjectInv
<1>1. Init => ProjectInv
  <2> SUFFICES ASSUME Init PROVE ProjectInv
    OBVIOUS
  <2>1. InitSearch /\ modules \subseteq Names /\ imports \in [Names -> Seq(Import)]
    BY DEF Init
  <2>2. UnreadIsFile
    BY DEF Init, UnreadIsFile
  <2> QED BY <2>1, <2>2, InitSearchInv DEF ProjectInv, LoadPhase
<1>2. ProjectInv /\ [Next]_vars => ProjectInv'
  BY CommandInv
<1> QED BY <1>1, <1>2, PTL DEF Spec

\* Every circular import reported by check or build on a directory is a
\* cycle of imports, for every number of files and imports.
THEOREM ReportedCyclesAreReal == Spec => []CyclesAreReal
<1>1. ProjectInv => CyclesAreReal
  BY DEF ProjectInv, SearchInv
<1> QED BY <1>1, ProjectInvariant, PTL

\* When detect_project_import_cycles reports nothing, the modules are in an
\* order in which each comes after its imports, so that there is no cycle.
THEOREM UnreportedIsOrdered == Spec => []NoReportMeansOrdered
<1>1. ProjectInv => NoReportMeansOrdered
  <2> SUFFICES ASSUME ProjectInv, SearchDone, cycles = {},
                      NEW m \in modules, NEW t \in modules, Edge(m, t)
               PROVE  rank[t] < rank[m]
    BY DEF NoReportMeansOrdered
  <2>1. m \in Names /\ color[m] \in {"white", "gray", "black"}
    BY DEF ProjectInv, SearchInv, SearchTypeOK
  <2>2. color[m] # "gray"
    BY <2>1 DEF SearchDone, ProjectInv, SearchInv, StackIsPath
  <2>3. color[m] = "black"
    BY <2>1, <2>2 DEF SearchDone
  <2> QED BY <2>3 DEF ProjectInv, SearchInv, BlackIsOrdered
<1> QED BY <1>1, ProjectInvariant, PTL

-----------------------------------------------------------------------------
(* What a command that succeeds has checked, and why one fails.            *)

\* Whatever can make a command fail.
HasCause == faults # {} \/ HasCycle \/ \E m \in modules \ DepNames : BadImport(m)

Loading == phase \in {"load", "deps"}
Resolving == phase \in {"resolve", "units", "write"}
Visiting == phase \in {"units", "write"}

\* Types of the command's own state.
CommandType ==
  /\ cmd \in Commands
  /\ phase \in {"load", "deps", "search", "resolve", "units", "write", "exit"}
  /\ unread \subseteq files /\ files \subseteq Files
  /\ fileOf \in [Names -> Files \cup {"dep", "none"}]
  /\ todo \subseteq modules /\ broken \subseteq modules
  /\ errors \subseteq {"load", "empty", "cycle", "resolve"}
  /\ outcome \in [Names -> Outcomes]
  /\ \A m \in Names : outcome[m] # "none" => m \in modules
  /\ exit \in {"running", "success", "failure", "invalid"}

\* Each error was counted in its phase.
ErrorsInOrder ==
  /\ Loading \/ phase = "search" => errors \subseteq {"load"}
  /\ phase = "resolve" => errors \subseteq {"load", "cycle"}
  /\ Visiting => "empty" \notin errors
  /\ phase # "load" => unread = {}
  /\ Visiting \/ Loading \/ phase \in {"search", "resolve"} => exit = "running"
  /\ phase = "write" => cmd = "build"
  /\ Resolving => SearchDone /\ ("cycle" \in errors <=> cycles # {})

\* What is counted as an error did go wrong.
ErrorsAreFaults ==
  /\ "load" \in errors \/ broken # {} \/ ~(tried \subseteq modules) => faults # {}
  /\ \A m \in Names : outcome[m] \in {"type_error", "refuted"} => faults # {}

\* A file of the project is in the map under m, a path of f's.
Holds(f, m) == m \in modules /\ m \in KeysOf[f] /\ \E g \in files : m \in KeysOf[g] /\ fileOf[m] = g

\* The path of every file that was read without an error is in the map.
ReadIsMapped == "load" \notin errors => \A f \in files \ unread : \E m \in Names : Holds(f, m)

\* While modules are visited and there is no error, every module resolves and
\* is visited, or still to visit.
AllVisited ==
  phase = "units" /\ errors = {} =>
    \A m \in modules : ~ImportError(m) /\ (m \in todo \/ outcome[m] # "none")

\* Every import list comes from the file it was read in.
ImportsAreRead ==
  \A m \in Names :
    \/ imports[m] = <<>>
    \/ m \in DepNames /\ imports[m] \in DepImports
    \/ m \notin DepNames /\ imports[m] \in ImportLists

\* The modules of dependencies that somebody wants were tried.
AllWantedTried == ~Loading /\ phase # "exit" => Wanted = {}

\* An error has a cause while the modules are visited, and a failure has one.
ErrorsHaveCause ==
  /\ Visiting /\ errors # {} => HasCause
  /\ exit \in {"failure", "invalid"} /\ files # {} => HasCause

CommandInvariant == CommandType /\ ErrorsInOrder /\ ErrorsAreFaults /\ AllWantedTried /\ ImportsAreRead

\* What parsing counts.
Counted(m) ==
  /\ errors' = errors \/ (errors' = errors \cup {"load"} /\ faults' # {})
  /\ broken' \subseteq broken \/ (broken' \subseteq broken \cup {m} /\ faults' # {})
  /\ faults \subseteq faults'

LEMMA ParsedCounts ==
  ASSUME NEW m, NEW r \in {"ok", "partial", "unsound"}, Parsed(m, r)
  PROVE  Counted(m)
BY DEF Parsed, Counted

\* The effects of the two actions that read files.
LEMMA LoadFileStep ==
  ASSUME ProjectInv, LoadFile
  PROVE  /\ phase = "load" /\ tried' = tried
         /\ UNCHANGED <<searchVars, cmd, phase, files, todo, outcome, lib, exit>>
         /\ \E f \in unread :
              /\ unread' = unread \ {f} /\ f \in Files
              /\ \/ ReadFails
                 \/ \E m \in KeysOf[f], l \in ImportLists :
                      Insert(m, f, l) /\ Counted(m) /\ m \in Names \ DepNames
<1>1. /\ phase = "load" /\ tried' = tried
      /\ UNCHANGED <<searchVars, cmd, phase, files, todo, outcome, lib, exit>>
  BY DEF LoadFile
<1>2. PICK f \in unread :
        /\ unread' = unread \ {f}
        /\ \/ ReadFails
           \/ \E m \in KeysOf[f], l \in ImportLists, r \in {"ok", "partial", "unsound"} :
                Insert(m, f, l) /\ Parsed(m, r)
  BY DEF LoadFile
<1>3. f \in Files
  BY DEF ProjectInv, UnreadIsFile
<1>4. \A m \in KeysOf[f] : m \in Names \ DepNames
  BY <1>3, KeysAssumption
<1> QED
  BY <1>1, <1>2, <1>3, <1>4, ParsedCounts

LEMMA LoadDepStep ==
  ASSUME LoadDep
  PROVE  /\ phase = "deps"
         /\ UNCHANGED <<searchVars, cmd, phase, files, unread, todo, outcome, lib, exit>>
         /\ \E d \in DepNames :
              /\ d \in Names /\ tried' = tried \cup {d}
              /\ \/ ReadFails
                 \/ \E l \in DepImports : Insert(d, "dep", l) /\ Counted(d)
<1>1. /\ phase = "deps"
      /\ UNCHANGED <<searchVars, cmd, phase, files, unread, todo, outcome, lib, exit>>
  BY DEF LoadDep
<1>2. PICK d \in Wanted :
        /\ tried' = tried \cup {d}
        /\ \/ ReadFails
           \/ \E l \in DepImports, r \in {"ok", "partial", "unsound"} :
                Insert(d, "dep", l) /\ Parsed(d, r)
  BY DEF LoadDep
<1>3. d \in DepNames /\ d \in Names
  BY DepNamesAssumption DEF Wanted
<1> QED
  BY <1>1, <1>2, <1>3, ParsedCounts

\* The search leaves the graph alone and withdraws no report.
LEMMA SearchStepKeeps ==
  ASSUME SearchStep
  PROVE  /\ phase = "search" /\ UNCHANGED <<projectVars, graphVars>>
         /\ cycles \subseteq cycles'
BY DEF SearchStep, Search, StartSearch, WalkEdge, Leave

LEMMA CommandTypeKept ==
  ASSUME ProjectInv, CommandType, [Next]_vars
  PROVE  CommandType'
<1>0. modules \subseteq Names
  BY DEF ProjectInv, SearchInv, SearchTypeOK
<1>1. CASE LoadFile
  <2>1. PICK f \in unread :
          /\ unread' = unread \ {f} /\ f \in Files
          /\ \/ ReadFails
             \/ \E m \in KeysOf[f], l \in ImportLists :
                  Insert(m, f, l) /\ Counted(m) /\ m \in Names \ DepNames
    BY <1>1, LoadFileStep
  <2>2. UNCHANGED <<cmd, phase, files, todo, outcome, exit>>
    BY <1>1, LoadFileStep
  <2>3. CASE ReadFails
    BY <2>1, <2>2, <2>3 DEF ReadFails, CommandType, graphVars
  <2>4. CASE \E m \in KeysOf[f], l \in ImportLists :
               Insert(m, f, l) /\ Counted(m) /\ m \in Names \ DepNames
    <3>1. PICK m \in KeysOf[f], l \in ImportLists :
            Insert(m, f, l) /\ Counted(m) /\ m \in Names \ DepNames
      BY <2>4
    <3>2. fileOf' \in [Names -> Files \cup {"dep", "none"}]
      BY <2>1, <3>1 DEF Insert, CommandType
    <3>3. modules \subseteq modules' /\ broken' \subseteq modules'
      BY <3>1 DEF Insert, Counted, CommandType
    <3>4. errors' \subseteq {"load", "empty", "cycle", "resolve"}
      BY <3>1 DEF Counted, CommandType
    <3> QED
      BY <2>1, <2>2, <3>2, <3>3, <3>4 DEF CommandType
  <2> QED
    BY <2>1, <2>3, <2>4
<1>2. CASE LoadDep
  <2>1. PICK d \in DepNames :
          /\ d \in Names /\ tried' = tried \cup {d}
          /\ \/ ReadFails
             \/ \E l \in DepImports : Insert(d, "dep", l) /\ Counted(d)
    BY <1>2, LoadDepStep
  <2>2. UNCHANGED <<cmd, phase, files, unread, todo, outcome, exit>>
    BY <1>2, LoadDepStep
  <2>3. CASE ReadFails
    BY <2>1, <2>2, <2>3 DEF ReadFails, CommandType, graphVars
  <2>4. CASE \E l \in DepImports : Insert(d, "dep", l) /\ Counted(d)
    BY <2>1, <2>2, <2>4 DEF Insert, Counted, CommandType
  <2> QED
    BY <2>1, <2>3, <2>4
<1>3. CASE NoFiles
  BY <1>3 DEF NoFiles, CommandType, graphVars, Err
<1>4. CASE AllLoaded \/ AllDepsLoaded \/ SearchEnds
  BY <1>4 DEF AllLoaded, AllDepsLoaded, SearchEnds, CommandType, graphVars
<1>5. CASE SearchStep
  BY <1>5, SearchStepKeeps DEF CommandType, graphVars, projectVars
<1>6. CASE Resolve
  <2>1. /\ todo' \subseteq modules /\ errors' \subseteq errors \cup {"resolve"}
        /\ phase' \in {"exit", "units"} /\ exit' \in {exit, Err}
        /\ UNCHANGED <<graphVars, cmd, files, unread, fileOf, broken, outcome>>
    BY <1>6 DEF Resolve
  <2> QED
    BY <2>1 DEF CommandType, graphVars, Err
<1>7. CASE CheckModule
  BY <1>0, <1>7 DEF CheckModule, CommandType, graphVars, Outcomes
<1>8. CASE CheckEnds \/ TypesDone
  BY <1>8 DEF CheckEnds, TypesDone, CommandType, graphVars
<1>9. CASE WriteModule \/ OutputFails \/ BuildEnds
  BY <1>9 DEF WriteModule, OutputFails, BuildEnds, CommandType, graphVars
<1>10. CASE UNCHANGED vars
  BY <1>10 DEF CommandType, vars, graphVars, projectVars
<1> QED
  BY <1>1, <1>2, <1>3, <1>4, <1>5, <1>6, <1>7, <1>8, <1>9, <1>10 DEF Next, Command, Exited

LEMMA ErrorsInOrderKept ==
  ASSUME ProjectInv, CommandType, ErrorsInOrder, [Next]_vars
  PROVE  ErrorsInOrder'
<1> USE DEF ErrorsInOrder, Loading, Resolving, Visiting
<1>1. CASE LoadFile \/ LoadDep
  <2>1. /\ UNCHANGED <<cmd, phase, exit>> /\ phase \in {"load", "deps"}
        /\ unread' \subseteq unread
        /\ errors' \subseteq errors \cup {"load"}
    BY <1>1, LoadFileStep, LoadDepStep DEF ReadFails, Counted
  <2> QED
    BY <2>1
<1>2. CASE NoFiles
  BY <1>2 DEF NoFiles, CommandType
<1>3. CASE AllLoaded \/ AllDepsLoaded \/ SearchEnds
  BY <1>3 DEF AllLoaded, AllDepsLoaded, SearchEnds, CommandType, SearchDone, searchVars, graphVars
<1>4. CASE SearchStep
  BY <1>4, SearchStepKeeps DEF projectVars
<1>5. CASE Resolve
  <2>1. /\ phase = "resolve" /\ errors' \in {errors, errors \cup {"resolve"}}
        /\ phase' = "exit" \/ (phase' = "units" /\ exit' = exit)
        /\ UNCHANGED <<graphVars, searchVars, cmd, unread>>
    BY <1>5 DEF Resolve
  <2> QED
    BY <2>1 DEF SearchDone, searchVars, graphVars
<1>6. CASE CheckModule \/ CheckEnds \/ TypesDone
  BY <1>6 DEF CheckModule, CheckEnds, TypesDone, SearchDone, searchVars, graphVars
<1>7. CASE WriteModule \/ OutputFails \/ BuildEnds
  BY <1>7 DEF WriteModule, OutputFails, BuildEnds, SearchDone, searchVars, graphVars
<1>8. CASE UNCHANGED vars
  BY <1>8 DEF vars, graphVars, searchVars, projectVars, SearchDone
<1> QED
  BY <1>1, <1>2, <1>3, <1>4, <1>5, <1>6, <1>7, <1>8 DEF Next, Command, Exited

LEMMA ErrorsAreFaultsKept ==
  ASSUME ProjectInv, CommandType, ErrorsAreFaults, [Next]_vars
  PROVE  ErrorsAreFaults'
<1>1. CASE LoadFile
  <2>1. PICK f \in unread :
             \/ ReadFails
             \/ \E m \in KeysOf[f], l \in ImportLists : Insert(m, f, l) /\ Counted(m)
    BY <1>1, LoadFileStep
  <2>2. UNCHANGED <<tried, outcome>>
    BY <1>1, LoadFileStep
  <2> QED
    BY <2>1, <2>2 DEF ReadFails, Insert, Counted, ErrorsAreFaults, graphVars
<1>2. CASE LoadDep
  <2>1. PICK d \in DepNames :
          /\ tried' = tried \cup {d}
          /\ \/ ReadFails
             \/ \E l \in DepImports : Insert(d, "dep", l) /\ Counted(d)
    BY <1>2, LoadDepStep
  <2>2. outcome' = outcome
    BY <1>2, LoadDepStep
  <2> QED
    BY <2>1, <2>2 DEF ReadFails, Insert, Counted, ErrorsAreFaults, graphVars
<1>3. CASE NoFiles \/ AllLoaded \/ AllDepsLoaded \/ SearchEnds
  BY <1>3 DEF NoFiles, AllLoaded, AllDepsLoaded, SearchEnds, ErrorsAreFaults, graphVars
<1>4. CASE SearchStep
  BY <1>4, SearchStepKeeps DEF ErrorsAreFaults, graphVars, projectVars
<1>5. CASE Resolve \/ CheckModule
  BY <1>5 DEF Resolve, CheckModule, ErrorsAreFaults, CommandType, Outcomes, graphVars
<1>6. CASE CheckEnds \/ TypesDone \/ WriteModule \/ OutputFails \/ BuildEnds
  BY <1>6 DEF CheckEnds, TypesDone, WriteModule, OutputFails, BuildEnds, ErrorsAreFaults, graphVars
<1>7. CASE UNCHANGED vars
  BY <1>7 DEF ErrorsAreFaults, vars, graphVars, projectVars
<1> QED
  BY <1>1, <1>2, <1>3, <1>4, <1>5, <1>6, <1>7 DEF Next, Command, Exited

LEMMA ImportsAreReadKept ==
  ASSUME ProjectInv, ImportsAreRead, [Next]_vars
  PROVE  ImportsAreRead'
<1>0. imports \in [Names -> Seq(Import)]
  BY DEF ProjectInv, SearchInv, SearchTypeOK
<1>1. ASSUME UNCHANGED graphVars PROVE ImportsAreRead'
  BY <1>1 DEF ImportsAreRead, graphVars
<1>2. CASE LoadFile
  <2>1. CASE ReadFails
    BY <1>1, <2>1 DEF ReadFails
  <2>2. ASSUME NEW m \in Names \ DepNames, NEW f, NEW l \in ImportLists, Insert(m, f, l)
        PROVE  ImportsAreRead'
    BY <1>0, <2>2 DEF Insert, ImportsAreRead
  <2> QED
    BY <1>2, <2>1, <2>2, LoadFileStep
<1>3. CASE LoadDep
  <2>1. CASE ReadFails
    BY <1>1, <2>1 DEF ReadFails
  <2>2. ASSUME NEW d \in DepNames, d \in Names, NEW l \in DepImports, Insert(d, "dep", l)
        PROVE  ImportsAreRead'
    BY <1>0, <2>2 DEF Insert, ImportsAreRead
  <2> QED
    BY <1>3, <2>1, <2>2, LoadDepStep
<1>4. CASE SearchStep
  BY <1>1, <1>4, SearchStepKeeps
<1>5. CASE NoFiles \/ AllLoaded \/ AllDepsLoaded \/ SearchEnds \/ Resolve \/ CheckModule
  BY <1>1, <1>5 DEF NoFiles, AllLoaded, AllDepsLoaded, SearchEnds, Resolve, CheckModule
<1>6. CASE CheckEnds \/ TypesDone \/ WriteModule \/ OutputFails \/ BuildEnds \/ UNCHANGED vars
  BY <1>1, <1>6 DEF CheckEnds, TypesDone, WriteModule, OutputFails, BuildEnds, vars
<1> QED
  BY <1>2, <1>3, <1>4, <1>5, <1>6 DEF Next, Command, Exited

LEMMA AllWantedTriedKept ==
  ASSUME AllWantedTried, [Next]_vars, ProjectInv
  PROVE  AllWantedTried'
<1>1. ASSUME UNCHANGED <<graphVars, tried>>,
             Loading /\ ~Loading' => phase' = "exit" \/ Wanted = {}, phase = "exit" => phase' = "exit"
      PROVE  AllWantedTried'
  <2>1. Wanted' = Wanted
    BY <1>1 DEF Wanted, graphVars
  <2> QED
    BY <1>1, <2>1 DEF AllWantedTried
<1>2. CASE LoadFile \/ LoadDep
  BY <1>2, LoadFileStep, LoadDepStep DEF AllWantedTried, Loading
<1>3. CASE SearchStep
  BY <1>1, <1>3, SearchStepKeeps DEF projectVars, Loading
<1>4. CASE NoFiles \/ AllLoaded \/ AllDepsLoaded \/ SearchEnds \/ Resolve \/ CheckModule
  BY <1>1, <1>4 DEF NoFiles, AllLoaded, AllDepsLoaded, SearchEnds, Resolve, CheckModule, Loading
<1>5. CASE CheckEnds \/ TypesDone \/ WriteModule \/ OutputFails \/ BuildEnds \/ UNCHANGED vars
  BY <1>1, <1>5 DEF CheckEnds, TypesDone, WriteModule, OutputFails, BuildEnds, vars, projectVars, Loading
<1> QED
  BY <1>2, <1>3, <1>4, <1>5 DEF Next, Command, Exited

LEMMA CommandInvariantKept ==
  ASSUME ProjectInv, CommandInvariant, [Next]_vars
  PROVE  CommandInvariant'
BY CommandTypeKept, ErrorsInOrderKept, ErrorsAreFaultsKept, AllWantedTriedKept, ImportsAreReadKept
   DEF CommandInvariant

LEMMA CommandInvariantInit == Init => CommandInvariant
<1> SUFFICES ASSUME Init PROVE CommandInvariant
  OBVIOUS
<1>1. CommandType
  BY DEF Init, CommandType, Outcomes
<1>2. ErrorsInOrder /\ ErrorsAreFaults
  BY DEF Init, ErrorsInOrder, ErrorsAreFaults, Loading, Resolving, Visiting
<1>3. AllWantedTried /\ ImportsAreRead
  BY DEF Init, AllWantedTried, ImportsAreRead, Loading
<1> QED
  BY <1>1, <1>2, <1>3 DEF CommandInvariant

\* The command keeps its types, whatever the files, keys and imports are.
THEOREM CommandTypeCorrect == Spec => []TypeOK
<1>1. ProjectInv /\ CommandInvariant => TypeOK
  BY DEF ProjectInv, SearchInv, CommandInvariant, CommandType, TypeOK
<1>2. Spec => []CommandInvariant
  BY ProjectInvariant, CommandInvariantInit, CommandInvariantKept, PTL DEF Spec
<1> QED
  BY <1>1, <1>2, ProjectInvariant, PTL

-----------------------------------------------------------------------------
(* Success of check.                                                       *)

LEMMA ReadIsMappedKept ==
  ASSUME ProjectInv, CommandInvariant, ReadIsMapped, [Next]_vars
  PROVE  ReadIsMapped'
<1>0. /\ fileOf \in [Names -> Files \cup {"dep", "none"}]
      /\ files \subseteq Files /\ modules \subseteq Names
  BY DEF CommandInvariant, CommandType, ProjectInv, SearchInv, SearchTypeOK
<1>1. ASSUME UNCHANGED <<modules, fileOf, files, unread>>, "load" \in errors => "load" \in errors'
      PROVE  ReadIsMapped'
  BY <1>1 DEF ReadIsMapped, Holds
<1>2. CASE LoadFile
  <2>1. PICK g \in unread :
          /\ unread' = unread \ {g} /\ g \in Files
          /\ \/ ReadFails
             \/ \E m \in KeysOf[g], l \in ImportLists :
                  Insert(m, g, l) /\ Counted(m) /\ m \in Names \ DepNames
    BY <1>2, LoadFileStep
  <2>2. CASE ReadFails
    BY <2>2 DEF ReadFails, ReadIsMapped
  <2>3. ASSUME NEW k \in KeysOf[g], NEW l \in ImportLists, Insert(k, g, l), Counted(k), k \in Names,
               "load" \notin errors', NEW f \in files' \ unread'
        PROVE  \E m \in Names : Holds(f, m)'
    <3>1. f \in files /\ "load" \notin errors /\ f \in Files /\ files' = files /\ g \in files
      BY <1>0, <1>2, <2>1, <2>3, LoadFileStep DEF Counted, CommandInvariant, CommandType
    <3>2. k \in modules' /\ fileOf'[k] = g
      BY <1>0, <2>3 DEF Insert
    <3>3. CASE k \in KeysOf[f]
      BY <2>3, <3>1, <3>2, <3>3 DEF Holds
    <3>4. CASE k \notin KeysOf[f]
      <4>1. f # g
        BY <2>3, <3>4
      <4>2. PICK m \in Names : Holds(f, m)
        BY <2>1, <2>3, <3>1, <4>1 DEF ReadIsMapped
      <4>3. m # k /\ m \in modules
        BY <3>4, <4>2 DEF Holds
      <4>4. m \in modules' /\ fileOf'[m] = fileOf[m]
        BY <1>0, <2>3, <4>3 DEF Insert
      <4> QED
        BY <3>1, <4>2, <4>4 DEF Holds
    <3> QED
      BY <3>3, <3>4
  <2> QED
    BY <2>1, <2>2, <2>3 DEF ReadIsMapped
<1>3. CASE LoadDep
  <2>1. PICK d \in DepNames :
          /\ d \in Names
          /\ \/ ReadFails
             \/ \E l \in DepImports : Insert(d, "dep", l) /\ Counted(d)
    BY <1>3, LoadDepStep
  <2>2. CASE ReadFails
    BY <2>2 DEF ReadFails, ReadIsMapped
  <2>3. ASSUME NEW l \in DepImports, Insert(d, "dep", l), Counted(d),
               "load" \notin errors', NEW f \in files' \ unread'
        PROVE  \E m \in Names : Holds(f, m)'
    <3>1. files' = files /\ f \in files \ unread /\ "load" \notin errors /\ f \in Files
      BY <1>0, <1>3, <2>3, LoadDepStep DEF Counted
    <3>2. PICK m \in Names : Holds(f, m)
      BY <3>1 DEF ReadIsMapped
    <3>3. m # d /\ m \in modules
      BY <3>1, <3>2, KeysAssumption DEF Holds
    <3>4. m \in modules' /\ fileOf'[m] = fileOf[m]
      BY <1>0, <2>1, <2>3, <3>3 DEF Insert
    <3> QED
      BY <3>1, <3>2, <3>4 DEF Holds
  <2> QED
    BY <2>1, <2>2, <2>3 DEF ReadIsMapped
<1>4. CASE SearchStep
  BY <1>1, <1>4, SearchStepKeeps DEF projectVars, graphVars
<1>5. CASE NoFiles \/ AllLoaded \/ AllDepsLoaded \/ SearchEnds \/ Resolve \/ CheckModule
  BY <1>1, <1>5 DEF NoFiles, AllLoaded, AllDepsLoaded, SearchEnds, Resolve, CheckModule, graphVars
<1>6. CASE CheckEnds \/ TypesDone \/ WriteModule \/ OutputFails \/ BuildEnds \/ UNCHANGED vars
  BY <1>1, <1>6 DEF CheckEnds, TypesDone, WriteModule, OutputFails, BuildEnds, vars, projectVars, graphVars
<1> QED
  BY <1>2, <1>3, <1>4, <1>5, <1>6 DEF Next, Command, Exited

LEMMA AllVisitedKept ==
  ASSUME ProjectInv, CommandInvariant, AllVisited, [Next]_vars
  PROVE  AllVisited'
<1>0. modules \subseteq Names /\ outcome \in [Names -> Outcomes]
  BY DEF CommandInvariant, CommandType, ProjectInv, SearchInv, SearchTypeOK
<1>1. ASSUME phase' # "units" PROVE AllVisited'
  BY <1>1 DEF AllVisited
<1>2. ASSUME UNCHANGED graphVars, phase = "units", errors' = errors,
             \A m \in modules : m \in todo \/ outcome[m] # "none" => m \in todo' \/ outcome'[m] # "none"
      PROVE  AllVisited'
  <2>1. modules' = modules /\ \A m : ImportError(m)' <=> ImportError(m)
    BY <1>2 DEF graphVars, ImportError
  <2> QED
    BY <1>2, <2>1 DEF AllVisited
<1>3. CASE LoadFile \/ LoadDep \/ SearchStep
  BY <1>1, <1>3, LoadFileStep, LoadDepStep, SearchStepKeeps DEF projectVars
<1>4. CASE NoFiles \/ AllLoaded \/ AllDepsLoaded \/ SearchEnds
  BY <1>1, <1>4 DEF NoFiles, AllLoaded, AllDepsLoaded, SearchEnds
<1>5. CASE Resolve
  <2>1. UNCHANGED <<modules, imports>>
    BY <1>5 DEF Resolve, graphVars
  <2>2. \A m : ImportError(m)' <=> ImportError(m)
    BY <2>1 DEF ImportError
  <2>3. errors' = {} => todo' = modules /\ \A m \in modules : ~ImportError(m)
    BY <1>5 DEF Resolve
  <2> QED
    BY <2>1, <2>2, <2>3 DEF AllVisited
<1>6. CASE CheckModule
  <2>1. PICK k \in todo, o \in Outcomes \ {"none"} :
          todo' = todo \ {k} /\ outcome' = [outcome EXCEPT ![k] = o]
    BY <1>6 DEF CheckModule
  <2>2. \A m \in modules : m \in todo \/ outcome[m] # "none" => m \in todo' \/ outcome'[m] # "none"
    BY <1>0, <2>1
  <2>3. UNCHANGED graphVars /\ phase = "units" /\ errors' = errors
    BY <1>6 DEF CheckModule
  <2> QED
    BY <1>2, <2>2, <2>3
<1>7. CASE CheckEnds \/ TypesDone \/ WriteModule \/ OutputFails \/ BuildEnds
  BY <1>1, <1>7 DEF CheckEnds, TypesDone, WriteModule, OutputFails, BuildEnds
<1>8. CASE UNCHANGED vars
  BY <1>1, <1>2, <1>8 DEF vars, projectVars
<1> QED
  BY <1>3, <1>4, <1>5, <1>6, <1>7, <1>8 DEF Next, Command, Exited

\* A nonempty set of numbers has a least one.
LEMMA LeastNumber ==
  ASSUME NEW S \in SUBSET Nat, S # {}
  PROVE  \E n \in S : \A m \in S : n <= m
<1> DEFINE R == {ss \in Nat \X Nat : ss[1] < ss[2]}
<1>1. IsWellFoundedOn(R, Nat)
  <2>1. OpToRel(<, Nat) = R
    BY Zenon DEF OpToRel
  <2> QED
    BY <2>1, NatLessThanWellFounded, Zenon
<1> HIDE DEF R
<1>2. PICK n \in S : \A m \in S : <<m, n>> \notin R
  BY <1>1, WFMin
<1>3. \A m \in S : ~(m < n)
  BY <1>2 DEF R
<1> QED
  BY <1>3

\* Modules that each come after their imports have no cycle: of the modules
\* of a cycle, the one that turned black first imports an earlier one.
LEMMA OrderedHasNoCycle ==
  ASSUME ProjectInv, \A m, t \in modules : Edge(m, t) => rank[t] < rank[m]
  PROVE  ~HasCycle
<1> SUFFICES ASSUME NEW S \in SUBSET modules, S # {}, \A m \in S : \E t \in S : Edge(m, t)
             PROVE  FALSE
  BY DEF HasCycle
<1>1. \A m \in S : m \in modules /\ rank[m] \in Nat
  BY DEF ProjectInv, SearchInv, SearchTypeOK
<1> DEFINE R == {rank[m] : m \in S}
<1>2. R \in SUBSET Nat /\ R # {}
  BY <1>1
<1>3. PICK r \in R : \A q \in R : r <= q
  <2> HIDE DEF R
  <2> QED
    BY <1>2, LeastNumber
<1>4. PICK m \in S : rank[m] = r
  BY <1>3
<1>5. PICK t \in S : Edge(m, t)
  BY <1>4
<1>6. rank[t] < rank[m] /\ rank[m] <= rank[t]
  BY <1>1, <1>3, <1>4, <1>5
<1> QED
  BY <1>1, <1>6

LEMMA AcceptedKept ==
  ASSUME ProjectInv, CommandInvariant, ReadIsMapped, AllVisited, AcceptedIsChecked, [Next]_vars
  PROVE  AcceptedIsChecked'
<1>1. ASSUME exit' # "success" PROVE AcceptedIsChecked'
  BY <1>1 DEF AcceptedIsChecked
<1>2. CASE exit = "success"
  <2>1. phase = "exit"
    BY <1>2 DEF CommandInvariant, CommandType, ErrorsInOrder, Loading, Visiting
  <2>2. UNCHANGED vars
    BY <2>1, SearchStepKeeps DEF Next, Command, Exited, LoadFile, NoFiles, AllLoaded, LoadDep, AllDepsLoaded,
       SearchEnds, Resolve, CheckModule, CheckEnds, TypesDone, WriteModule, OutputFails, BuildEnds
  <2>3. UNCHANGED <<cmd, exit, files, modules, imports, fileOf, outcome>>
    BY <2>2 DEF vars, graphVars, projectVars
  <2>4. \A m, t : Edge(m, t)' <=> Edge(m, t)
    BY <2>3 DEF Edge, Targets
  <2>5. HasCycle' <=> HasCycle
    BY <2>3, <2>4 DEF HasCycle
  <2> QED
    BY <2>3, <2>5 DEF AcceptedIsChecked, Targets
<1>3. CASE exit # "success" /\ CheckEnds /\ exit' = "success"
  <2>1. /\ errors = {} /\ todo = {} /\ phase = "units"
        /\ \A m \in Names : outcome[m] \in {"none", "ok"}
        /\ UNCHANGED <<cmd, files, modules, imports, fileOf, outcome>>
    BY <1>3 DEF CheckEnds, graphVars
  <2>2. /\ modules \subseteq Names /\ imports \in [Names -> Seq(Import)] /\ unread = {}
        /\ SearchDone /\ cycles = {}
    BY <2>1 DEF CommandInvariant, ErrorsInOrder, Resolving, ProjectInv, SearchInv, SearchTypeOK
  <2>3. \A m \in modules : outcome[m] = "ok" /\ ~ImportError(m)
    BY <2>1, <2>2 DEF AllVisited
  <2>4. ASSUME NEW f \in files
        PROVE  \E g \in files : \E m \in KeysOf[f] \cap KeysOf[g] :
                 m \in modules /\ fileOf[m] = g /\ outcome[m] = "ok"
    <3>1. PICK m \in Names : Holds(f, m)
      BY <2>1, <2>2 DEF ReadIsMapped
    <3>2. outcome[m] = "ok"
      BY <2>3, <3>1 DEF Holds
    <3> QED
      BY <3>1, <3>2 DEF Holds
  <2>5. \A m \in modules : Targets(m) \subseteq modules
    BY <2>3 DEF Targets, ImportError
  <2>6. ~HasCycle
    <3>1. ASSUME NEW m \in modules, NEW t \in modules, Edge(m, t) PROVE rank[t] < rank[m]
      <4>1. m \in Names /\ color[m] \in {"white", "gray", "black"} /\ color[m] # "white"
        BY <2>2 DEF ProjectInv, SearchInv, SearchTypeOK, SearchDone
      <4>2. color[m] # "gray"
        BY <2>2, <4>1 DEF SearchDone, ProjectInv, SearchInv, StackIsPath
      <4> QED
        BY <2>2, <3>1, <4>1, <4>2 DEF ProjectInv, SearchInv, BlackIsOrdered
    <3> QED
      BY <3>1, OrderedHasNoCycle
  <2>7. HasCycle' <=> HasCycle
    <3>1. \A m, t : Edge(m, t)' <=> Edge(m, t)
      BY <2>1 DEF Edge, Targets
    <3> QED
      BY <2>1, <3>1 DEF HasCycle
  <2> QED
    BY <2>1, <2>4, <2>5, <2>6, <2>7 DEF AcceptedIsChecked, Targets
<1>4. CASE exit # "success" /\ ~CheckEnds /\ exit' = "success"
  <2>1. CASE BuildEnds
    BY <2>1 DEF BuildEnds, CommandInvariant, ErrorsInOrder, AcceptedIsChecked
  <2>2. CASE ~BuildEnds
    BY <1>4, <2>2, SearchStepKeeps, LoadFileStep, LoadDepStep
       DEF Next, Command, Exited, vars, projectVars, NoFiles, AllLoaded, AllDepsLoaded, SearchEnds, Resolve,
           CheckModule, TypesDone, WriteModule, OutputFails, Err
  <2> QED
    BY <2>1, <2>2
<1> QED
  BY <1>1, <1>2, <1>3, <1>4

\* A check that succeeds has checked a file of the project under the path of
\* each of its files, found no import cycle, and left no import without its
\* module, in whatever order the files were read and the modules visited.
THEOREM AcceptedAreChecked == Spec => []AcceptedIsChecked
<1> DEFINE Inv == CommandInvariant /\ ReadIsMapped /\ AllVisited /\ AcceptedIsChecked
<1>1. Init => Inv
  BY CommandInvariantInit DEF Init, ReadIsMapped, AllVisited, AcceptedIsChecked
<1>2. ProjectInv /\ Inv /\ [Next]_vars => Inv'
  BY CommandInvariantKept, ReadIsMappedKept, AllVisitedKept, AcceptedKept
<1>3. Inv => AcceptedIsChecked
  OBVIOUS
<1> QED
  BY <1>1, <1>2, <1>3, ProjectInvariant, PTL DEF Spec

\* No two files of the project declare the same module path.
OwnPaths == \A f, g \in Files : f # g => KeysOf[f] \cap KeysOf[g] = {}

\* ... and so each file itself, if the files have module paths of their own.
THEOREM FilesAreChecked == ASSUME OwnPaths PROVE Spec => []EveryFileIsChecked
<1>1. TypeOK /\ AcceptedIsChecked => EveryFileIsChecked
  <2> SUFFICES ASSUME files \subseteq Files, AcceptedIsChecked, cmd = "check", exit = "success",
                      NEW f \in files
               PROVE  \E m \in modules : fileOf[m] = f /\ outcome[m] = "ok"
    BY DEF TypeOK, EveryFileIsChecked
  <2>1. PICK g \in files : \E m \in KeysOf[f] \cap KeysOf[g] :
               m \in modules /\ fileOf[m] = g /\ outcome[m] = "ok"
    BY DEF AcceptedIsChecked
  <2>2. f = g
    BY <2>1 DEF OwnPaths
  <2> QED
    BY <2>1, <2>2
<1> QED
  BY <1>1, CommandTypeCorrect, AcceptedAreChecked, PTL

-----------------------------------------------------------------------------
(* Failure.                                                                *)

\* Modules of dependencies import nothing themselves, and a local file that
\* imports from a dependency names a module of it, not an item in one:
\* load_dep_modules_for_project loads neither kind of import.
DepsAreFlat ==
  /\ \A l \in DepImports : l = <<>>
  /\ \A l \in ImportLists : \A i \in 1..Len(l) : l[i].to \in DepNames => l[i].item = 0

\* A cycle that was reported is one.
LEMMA ReportIsCause ==
  ASSUME ProjectInv, cycles # {}
  PROVE  HasCycle
<1>1. PICK c : IsCycle(c)
  BY DEF ProjectInv, SearchInv, CyclesAreReal
<1>2. /\ Len(c) \in Nat /\ Len(c) >= 2 /\ c[1] = c[Len(c)]
      /\ \A i \in 1..Len(c) : c[i] \in modules
      /\ \A i \in 1..(Len(c) - 1) : Edge(c[i], c[i + 1])
  BY <1>1 DEF IsCycle
<1> DEFINE S == {c[i] : i \in 1..(Len(c) - 1)}
<1>3. S \in SUBSET modules /\ S # {}
  BY <1>2
<1>4. ASSUME NEW m \in S PROVE \E t \in S : Edge(m, t)
  <2>1. PICK i \in 1..(Len(c) - 1) : m = c[i]
    BY <1>4
  <2>2. Edge(m, c[i + 1])
    BY <1>2, <2>1
  <2>3. c[i + 1] \in S
    <3>1. CASE i + 1 = Len(c)
      BY <1>2, <3>1
    <3>2. CASE i + 1 # Len(c)
      BY <1>2, <2>1, <3>2
    <3> QED
      BY <3>1, <3>2
  <2> QED
    BY <2>2, <2>3
<1> HIDE DEF S
<1> QED
  BY <1>3, <1>4 DEF HasCycle

\* An import that does not resolve has a cause.
LEMMA ImportErrorIsCause ==
  ASSUME DepsAreFlat, ProjectInv, CommandInvariant, phase = "resolve",
         NEW m \in modules, ImportError(m)
  PROVE  HasCause
<1>1. /\ modules \subseteq Names /\ m \in Names
      /\ imports \in [Names -> Seq(Import)] /\ imports[m] \in Seq(Import)
  BY DEF ProjectInv, SearchInv, SearchTypeOK
<1>2. PICK i \in 1..Len(imports[m]) :
        \/ imports[m][i] = [to |-> m, item |-> 0]
        \/ imports[m][i].to \notin modules
        \/ \E j \in 1..(i - 1) : imports[m][j] = imports[m][i]
  BY DEF ImportError
<1>3. m \notin DepNames /\ imports[m] \in ImportLists
  <2>1. imports[m] # <<>>
    BY <1>2
  <2>2. imports[m] \notin DepImports
    BY <2>1 DEF DepsAreFlat
  <2> QED
    BY <1>1, <2>1, <2>2 DEF CommandInvariant, ImportsAreRead
<1>4. imports[m][i] \in Import
  BY <1>1
<1>5. CASE imports[m][i] = [to |-> m, item |-> 0]
  <2>1. m \in Targets(m)
    BY <1>5 DEF Targets
  <2>2. Edge(m, m)
    BY <2>1 DEF Edge
  <2>3. {m} \in SUBSET modules /\ {m} # {} /\ \A k \in {m} : \E t \in {m} : Edge(k, t)
    BY <2>2
  <2>4. HasCycle
    BY <2>3 DEF HasCycle
  <2> QED
    BY <2>4 DEF HasCause
<1>6. CASE imports[m][i].to \notin modules /\ imports[m][i].to \notin DepNames
  <2>1. BadImport(m)
    BY <1>6 DEF BadImport
  <2> QED
    BY <1>3, <2>1 DEF HasCause
<1>7. CASE imports[m][i].to \notin modules /\ imports[m][i].to \in DepNames
  <2> DEFINE d == imports[m][i].to
  <2>1. imports[m][i].item = 0
    BY <1>3, <1>7 DEF DepsAreFlat
  <2>2. imports[m][i] = [to |-> d, item |-> 0]
    BY <1>4, <2>1 DEF Import
  <2>3. Wanted = {}
    BY DEF CommandInvariant, AllWantedTried, Loading
  <2>4. d \in tried
    BY <1>3, <1>7, <2>2, <2>3 DEF Wanted
  <2> QED
    BY <1>7, <2>4 DEF CommandInvariant, ErrorsAreFaults, HasCause
<1>8. CASE \E j \in 1..(i - 1) : imports[m][j] = imports[m][i]
  <2>1. BadImport(m)
    BY <1>8 DEF BadImport
  <2> QED
    BY <1>3, <2>1 DEF HasCause
<1> QED
  BY <1>2, <1>5, <1>6, <1>7, <1>8

\* Once the files are read, a cause stays.
LEMMA CauseStays ==
  ASSUME UNCHANGED graphVars, faults \subseteq faults', HasCause
  PROVE  HasCause'
<1>1. modules' = modules /\ \A m, t : Edge(m, t)' <=> Edge(m, t)
  BY DEF graphVars, Edge, Targets
<1>2. HasCycle' <=> HasCycle
  BY <1>1 DEF HasCycle
<1>3. \A m : BadImport(m)' <=> BadImport(m)
  BY DEF BadImport, graphVars
<1> QED
  BY <1>1, <1>2, <1>3 DEF HasCause

LEMMA ErrorsHaveCauseKept ==
  ASSUME DepsAreFlat, ProjectInv, CommandInvariant, ErrorsHaveCause, [Next]_vars
  PROVE  ErrorsHaveCause'
<1>0. \A m \in Names : outcome[m] \in Outcomes
  BY DEF CommandInvariant, CommandType
<1>1. CASE LoadFile \/ LoadDep \/ SearchStep
  <2>1. phase' \notin {"units", "write"} /\ exit' = "running"
    BY <1>1, LoadFileStep, LoadDepStep, SearchStepKeeps
       DEF projectVars, CommandInvariant, ErrorsInOrder, Loading
  <2> QED
    BY <2>1 DEF ErrorsHaveCause, Visiting
<1>2. CASE NoFiles
  BY <1>2 DEF NoFiles, ErrorsHaveCause, Visiting
<1>3. CASE AllLoaded \/ AllDepsLoaded \/ SearchEnds
  BY <1>3 DEF AllLoaded, AllDepsLoaded, SearchEnds, ErrorsHaveCause, Visiting,
              CommandInvariant, ErrorsInOrder, Loading
<1>4. CASE Resolve
  <2>1. /\ phase = "resolve" /\ UNCHANGED graphVars /\ UNCHANGED <<faults, broken, cycles>>
        /\ errors' # {} => errors # {} \/ \E m \in modules : m \in broken \/ ImportError(m)
        /\ exit' = exit \/ errors' # {}
    BY <1>4 DEF Resolve, searchVars
  <2>2. errors \subseteq {"load", "cycle"} /\ exit = "running"
    BY <2>1 DEF CommandInvariant, ErrorsInOrder
  <2>3. "load" \in errors \/ broken # {} => HasCause
    BY DEF CommandInvariant, ErrorsAreFaults, HasCause
  <2>4. "cycle" \in errors => HasCause
    BY <2>1, ReportIsCause DEF CommandInvariant, ErrorsInOrder, Resolving, HasCause
  <2>5. (\E m \in modules : ImportError(m)) => HasCause
    BY <2>1, ImportErrorIsCause
  <2>6. errors' # {} => HasCause
    BY <2>1, <2>2, <2>3, <2>4, <2>5
  <2>7. errors' # {} => HasCause'
    BY <2>1, <2>6, CauseStays
  <2> QED
    BY <2>1, <2>2, <2>7 DEF ErrorsHaveCause
<1>5. CASE CheckModule
  BY <1>5, CauseStays DEF CheckModule, ErrorsHaveCause, Visiting
<1>6. CASE CheckEnds
  <2>1. /\ phase = "units" /\ phase' = "exit" /\ UNCHANGED graphVars /\ faults' = faults
        /\ exit' \in {"failure", "invalid"} =>
              errors # {} \/ \E m \in Names : outcome[m] \notin {"none", "ok"}
    BY <1>6 DEF CheckEnds
  <2>2. (\E m \in Names : outcome[m] \notin {"none", "ok"}) => faults # {}
    BY <1>0 DEF CommandInvariant, ErrorsAreFaults, Outcomes
  <2>3. exit' \in {"failure", "invalid"} => HasCause
    BY <2>1, <2>2 DEF ErrorsHaveCause, Visiting, HasCause
  <2> QED
    BY <2>1, <2>3, CauseStays DEF ErrorsHaveCause, Visiting
<1>7. CASE TypesDone
  <2>1. /\ phase = "units" /\ UNCHANGED graphVars /\ UNCHANGED <<faults, errors>>
        /\ exit' = exit \/ \E m \in Names : outcome[m] = "type_error"
    BY <1>7 DEF TypesDone
  <2>2. exit = "running"
    BY <2>1 DEF CommandInvariant, ErrorsInOrder, Visiting
  <2>3. exit' # exit => HasCause
    BY <2>1 DEF CommandInvariant, ErrorsAreFaults, HasCause
  <2> QED
    BY <2>1, <2>2, <2>3, CauseStays DEF ErrorsHaveCause, Visiting
<1>8. CASE WriteModule \/ BuildEnds
  BY <1>8, CauseStays DEF WriteModule, BuildEnds, ErrorsHaveCause, Visiting
<1>9. CASE OutputFails
  <2>1. faults' # {} /\ phase' = "exit"
    BY <1>9 DEF OutputFails
  <2> QED
    BY <2>1 DEF ErrorsHaveCause, Visiting, HasCause
<1>10. CASE UNCHANGED vars
  BY <1>10, CauseStays DEF vars, projectVars, ErrorsHaveCause, Visiting
<1> QED
  BY <1>1, <1>2, <1>3, <1>4, <1>5, <1>6, <1>7, <1>8, <1>9, <1>10 DEF Next, Command, Exited

\* check and build reject a project only for something wrong in it: a file, a
\* module or an output that went wrong, an import cycle, or a bad import of a
\* local file, provided the imports stay among what
\* load_dep_modules_for_project loads (DepsAreFlat).
THEOREM RejectionsHaveCause ==
  ASSUME DepsAreFlat PROVE Spec => []RejectedHasFault
<1> DEFINE Inv == CommandInvariant /\ ErrorsHaveCause
<1>1. Init => Inv
  BY CommandInvariantInit DEF Init, ErrorsHaveCause, Visiting
<1>2. ProjectInv /\ Inv /\ [Next]_vars => Inv'
  BY CommandInvariantKept, ErrorsHaveCauseKept
<1>3. Inv => RejectedHasFault
  BY DEF ErrorsHaveCause, RejectedHasFault, HasCause
<1> QED
  BY <1>1, <1>2, <1>3, ProjectInvariant, PTL DEF Spec
=============================================================================
