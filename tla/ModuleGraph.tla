---------------------------- MODULE ModuleGraph -----------------------------
(***************************************************************************)
(* detect_project_import_cycles of assura-resolve: a depth-first search    *)
(* with three colours over the import graph of a project.  A call of dfs   *)
(* is a node on the stack; next holds the loop position of each call.      *)
(*                                                                         *)
(* A module is a number, the position of its dotted path in sorted order.  *)
(* An import has the module its path leads to after prefix matching, 0 for *)
(* none, and the item its path goes on to, 0 if it is the module's own.    *)
(***************************************************************************)
EXTENDS Naturals, Sequences

CONSTANT Names  \* module paths, by their sorted position

ASSUME NamesAssumption == Names \subseteq Nat \ {0}

VARIABLES
  modules,  \* keys of the module map
  imports,  \* imports of each module, in order
  color,    \* "white", "gray" or "black"
  stack,    \* the search's path
  next,     \* index of the import each call looks at next
  cycles,   \* paths reported
  rank,     \* history: order in which the modules turned black
  clock     \* history: modules turned black so far

searchVars == <<color, stack, next, cycles, rank, clock>>
graphVars == <<modules, imports>>

\* ImportDecl.
Import == [to : Names \cup {0}, item : Nat]

Targets(m) == {imports[m][i].to : i \in 1..Len(imports[m])}

\* Edges of the graph: both the exact key and the longest prefix lead there.
Edge(m, t) == m \in modules /\ t \in modules /\ t \in Targets(m)

Top == stack[Len(stack)]
Pop == [i \in 1..(Len(stack) - 1) |-> stack[i]]

-----------------------------------------------------------------------------

InitSearch ==
  /\ color = [m \in Names |-> "white"]
  /\ stack = <<>>
  /\ next = [m \in Names |-> 1]
  /\ cycles = {}
  /\ rank = [m \in Names |-> 0]
  /\ clock = 0

\* Start of dfs.
Enter(m) ==
  /\ color' = [color EXCEPT ![m] = "gray"]
  /\ stack' = Append(stack, m)

\* The loop over the sorted keys starts a search at every white one.
StartSearch ==
  /\ stack = <<>>
  /\ \E m \in modules :
       /\ color[m] = "white"
       /\ \A k \in modules : color[k] = "white" => m <= k
       /\ Enter(m)
  /\ UNCHANGED <<next, cycles, rank, clock, graphVars>>

\* Mutant of CycleTo: the whole path is reported, not only its end.
MutantCycleTo(t) ==
  [i \in 1..(Len(stack) + 1) |-> IF i = Len(stack) + 1 THEN t ELSE stack[i]]

\* The path from the gray target to the top of the stack, closed.
CycleTo(t) ==
  LET start == CHOOSE i \in 1..Len(stack) : stack[i] = t IN
  [i \in 1..(Len(stack) - start + 2) |->
     IF i = Len(stack) - start + 2 THEN t ELSE stack[start + i - 1]]

\* Mutant of WalkEdge: an import of a module on the path is not reported.
MutantWalkEdge ==
  /\ stack # <<>>
  /\ next[Top] <= Len(imports[Top])
  /\ LET t == imports[Top][next[Top]].to IN
     /\ next' = [next EXCEPT ![Top] = @ + 1]
     /\ \/ t \in modules /\ color[t] = "white" /\ Enter(t)
        \/ (t \in modules => color[t] # "white") /\ UNCHANGED <<color, stack>>
  /\ UNCHANGED <<cycles, rank, clock, graphVars>>

\* One turn of the loop over the imports of the top module, with walk_edge.
WalkEdge ==
  /\ stack # <<>>
  /\ next[Top] <= Len(imports[Top])
  /\ LET t == imports[Top][next[Top]].to IN
     /\ next' = [next EXCEPT ![Top] = @ + 1]
     /\ \/ /\ t \notin modules
           /\ UNCHANGED <<color, stack, cycles>>
        \/ /\ t \in modules /\ color[t] = "gray"
           /\ cycles' = cycles \cup {CycleTo(t)}
           /\ UNCHANGED <<color, stack>>
        \/ /\ t \in modules /\ color[t] = "white"
           /\ Enter(t)
           /\ UNCHANGED cycles
        \/ /\ t \in modules /\ color[t] = "black"
           /\ UNCHANGED <<color, stack, cycles>>
  /\ UNCHANGED <<rank, clock, graphVars>>

\* End of dfs.
Leave ==
  /\ stack # <<>>
  /\ next[Top] > Len(imports[Top])
  /\ color' = [color EXCEPT ![Top] = "black"]
  /\ stack' = Pop
  /\ rank' = [rank EXCEPT ![Top] = clock + 1]
  /\ clock' = clock + 1
  /\ UNCHANGED <<next, cycles, graphVars>>

Search == StartSearch \/ WalkEdge \/ Leave

SearchDone == stack = <<>> /\ \A m \in modules : color[m] # "white"

\* The search alone, on any graph.
InitGraph ==
  /\ modules \in SUBSET Names
  /\ imports \in [Names -> Seq(Import)]
  /\ InitSearch

SearchSpec == InitGraph /\ [][Search]_<<graphVars, searchVars>>

-----------------------------------------------------------------------------
(* Properties.                                                             *)

\* Type correctness of the search.
SearchTypeOK ==
  /\ modules \subseteq Names
  /\ imports \in [Names -> Seq(Import)]
  /\ color \in [Names -> {"white", "gray", "black"}]
  /\ stack \in Seq(modules)
  /\ next \in [Names -> Nat \ {0}]
  /\ rank \in [Names -> Nat]
  /\ clock \in Nat

\* c is a path of the import graph that ends where it begins.
IsCycle(c) ==
  /\ c \in Seq(modules) /\ Len(c) >= 2
  /\ c[1] = c[Len(c)]
  /\ \A i \in 1..(Len(c) - 1) : Edge(c[i], c[i + 1])

\* Every "circular import" reported is a cycle of imports.
CyclesAreReal == \A c \in cycles : IsCycle(c)

\* When the search ends without a report, the modules turned black in an
\* order in which each comes after all it imports: there is no cycle.
NoReportMeansOrdered ==
  SearchDone /\ cycles = {} =>
    \A m, t \in modules : Edge(m, t) => rank[t] < rank[m]

=============================================================================
