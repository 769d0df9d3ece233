---------------------------- MODULE ProjectCheck ----------------------------
(***************************************************************************)
(* assura check and assura build on a directory: discovery of the files of *)
(* a project and its dependencies, the search for import cycles of         *)
(* ModuleGraph, resolution, and the pass over the resolved modules that    *)
(* checks them or generates their code.                                    *)
(*                                                                         *)
(* Maps are Rust HashMaps and files come in directory order: every choice  *)
(* of the next file or module is nondeterministic.  What a file holds is   *)
(* chosen when it is read, what checking it gives when it is checked.      *)
(***************************************************************************)
EXTENDS ModuleGraph

CONSTANTS
  Files,        \* .assura files that may be in the project
  KeysOf,       \* module paths each file may have
  DepNames,     \* module paths of files in dependencies
  ImportLists,  \* imports a local file may have
  DepImports,   \* imports a file of a dependency may have
  Commands      \* subset of "check" and "build"

ASSUME KeysAssumption == KeysOf \in [Files -> SUBSET (Names \ DepNames)]
ASSUME DepNamesAssumption == DepNames \subseteq Names
ASSUME ImportsAssumption == ImportLists \subseteq Seq(Import) /\ DepImports \subseteq Seq(Import)

VARIABLES
  cmd,       \* the command
  phase,     \* "load", "deps", "search", "resolve", "units", "write", "exit"
  files,     \* files in the project
  unread,    \* files not read yet
  tried,     \* modules of dependencies looked up
  fileOf,    \* file each key of the module map comes from
  broken,    \* modules whose names do not resolve
  errors,    \* kinds of errors discovery returns, as "warnings" or as Err
  todo,      \* modules the current loop has still to visit
  outcome,   \* what checking each module gave
  lib,       \* module whose code is in src/lib.rs, 0 for none
  exit,      \* exit status: "running", "success", "failure" or "invalid"
  faults     \* history: what really went wrong outside the import graph

projectVars ==
  <<cmd, phase, files, unread, tried, fileOf, broken, errors, todo, outcome, lib, exit, faults>>
vars == <<graphVars, searchVars, projectVars>>

Outcomes == {"none", "ok", "type_error", "refuted"}

\* Status 2 of check is "invalid"; build has only 1.
Err == IF cmd = "check" THEN "invalid" ELSE "failure"

Init ==
  /\ modules = {}
  /\ imports = [m \in Names |-> <<>>]
  /\ InitSearch
  /\ cmd \in Commands
  /\ phase = "load"
  /\ files \in SUBSET Files
  /\ unread = files
  /\ tried = {}
  /\ fileOf = [m \in Names |-> "none"]
  /\ broken = {}
  /\ errors = {}
  /\ todo = {}
  /\ outcome = [m \in Names |-> "none"]
  /\ lib = 0
  /\ exit = "running"
  /\ faults = {}

-----------------------------------------------------------------------------
(* discover_and_resolve_project_with_deps.                                 *)

\* The file f is parsed and inserted under m; an earlier entry is replaced.
Insert(m, f, l) ==
  /\ modules' = modules \cup {m}
  /\ imports' = [imports EXCEPT ![m] = l]
  /\ fileOf' = [fileOf EXCEPT ![m] = f]

\* What reading and parsing gives: "ok"; "partial", an AST and errors;
\* "unsound", an AST with names that will not resolve.  Errors are counted.
Parsed(m, r) ==
  /\ errors' = IF r = "partial" THEN errors \cup {"load"} ELSE errors
  /\ broken' = IF r = "unsound" THEN broken \cup {m} ELSE broken \ {m}
  /\ faults' = IF r = "ok" THEN faults ELSE faults \cup {"file"}

\* The file cannot be read, or has no AST.
ReadFails ==
  /\ errors' = errors \cup {"load"}
  /\ faults' = faults \cup {"file"}
  /\ UNCHANGED <<graphVars, fileOf, broken>>

LoadFile ==
  /\ phase = "load"
  /\ \E f \in unread :
       /\ unread' = unread \ {f}
       /\ \/ ReadFails
          \/ \E m \in KeysOf[f], l \in ImportLists, r \in {"ok", "partial", "unsound"} :
               Insert(m, f, l) /\ Parsed(m, r)
  /\ UNCHANGED <<searchVars, cmd, phase, files, tried, todo, outcome, lib, exit>>

\* collect_assura_files found nothing.
NoFiles ==
  /\ phase = "load" /\ files = {}
  /\ phase' = "exit" /\ exit' = Err
  /\ errors' = errors \cup {"empty"}
  /\ UNCHANGED <<graphVars, searchVars, cmd, files, unread, tried, fileOf, broken, todo, outcome, lib, faults>>

AllLoaded ==
  /\ phase = "load" /\ unread = {} /\ files # {}
  /\ phase' = "deps"
  /\ UNCHANGED <<graphVars, searchVars, cmd, files, unread, tried, fileOf, broken, errors, todo,
                 outcome, lib, exit, faults>>

\* Mutant of Wanted: dependencies are not loaded.
MutantWanted == {}

\* Paths of local imports that lead to a file of a dependency.  The modules
\* loaded here are not searched for imports of their own.
Wanted ==
  {d \in DepNames \ (modules \cup tried) :
     \E m \in modules \ DepNames : \E i \in 1..Len(imports[m]) :
       imports[m][i] = [to |-> d, item |-> 0]}

\* load_dep_modules_for_project.
LoadDep ==
  /\ phase = "deps"
  /\ \E d \in Wanted :
       /\ tried' = tried \cup {d}
       /\ \/ ReadFails
          \/ \E l \in DepImports, r \in {"ok", "partial", "unsound"} :
               Insert(d, "dep", l) /\ Parsed(d, r)
  /\ UNCHANGED <<searchVars, cmd, phase, files, unread, todo, outcome, lib, exit>>

AllDepsLoaded ==
  /\ phase = "deps" /\ Wanted = {}
  /\ phase' = "search"
  /\ UNCHANGED <<graphVars, searchVars, cmd, files, unread, tried, fileOf, broken, errors, todo,
                 outcome, lib, exit, faults>>

\* One step of detect_project_import_cycles.
SearchStep == phase = "search" /\ Search /\ UNCHANGED projectVars

SearchEnds ==
  /\ phase = "search" /\ SearchDone
  /\ phase' = "resolve"
  /\ errors' = IF cycles = {} THEN errors ELSE errors \cup {"cycle"}
  /\ UNCHANGED <<graphVars, searchVars, cmd, files, unread, tried, fileOf, broken, todo, outcome,
                 lib, exit, faults>>

\* resolve_imports on module m: circular (only its own path is visited),
\* not found, or one full path imported twice.  The target is the longest
\* prefix among all modules of the project; in a map from which a load error
\* left one out a shorter prefix may match, but the check fails anyway.
ImportError(m) ==
  \E i \in 1..Len(imports[m]) :
    \/ imports[m][i] = [to |-> m, item |-> 0]
    \/ imports[m][i].to \notin modules
    \/ \E j \in 1..(i - 1) : imports[m][j] = imports[m][i]

\* resolve_with_modules on every module of the map.
Resolve ==
  /\ phase = "resolve"
  /\ LET resolved == {m \in modules : m \notin broken /\ ~ImportError(m)}
         errs == IF resolved = modules THEN errors ELSE errors \cup {"resolve"}
         failed == resolved = {} /\ errs # {} IN
     /\ errors' = errs
     /\ todo' = resolved
     /\ phase' = IF failed THEN "exit" ELSE "units"
     /\ exit' = IF failed THEN Err ELSE exit
  /\ UNCHANGED <<graphVars, searchVars, cmd, files, unread, tried, fileOf, broken, outcome, lib, faults>>

-----------------------------------------------------------------------------
(* run_check_project and run_build_project.                                *)

\* Type check of a resolved module, and its verification by check.  refuted
\* stands for a counterexample, a timeout, or with --strict an unknown.
CheckModule ==
  /\ phase = "units"
  /\ \E m \in todo, o \in Outcomes \ {"none"} :
       /\ todo' = todo \ {m}
       /\ outcome' = [outcome EXCEPT ![m] = o]
       /\ faults' = IF o = "ok" THEN faults ELSE faults \cup {o}
  /\ UNCHANGED <<graphVars, searchVars, cmd, phase, files, unread, tried, fileOf, broken, errors, lib, exit>>

\* Mutant of CheckEnds: what discovery calls warnings does not count.
MutantCheckEnds ==
  /\ cmd = "check" /\ phase = "units" /\ todo = {}
  /\ phase' = "exit"
  /\ exit' = IF \A m \in Names : outcome[m] \in {"none", "ok"} THEN "success" ELSE "failure"
  /\ UNCHANGED <<graphVars, searchVars, cmd, files, unread, tried, fileOf, broken, errors, todo,
                 outcome, lib, faults>>

\* check fails on any error; what discovery calls warnings counts.
CheckEnds ==
  /\ cmd = "check" /\ phase = "units" /\ todo = {}
  /\ phase' = "exit"
  /\ exit' = IF errors = {} /\ \A m \in Names : outcome[m] \in {"none", "ok"}
             THEN "success" ELSE "failure"
  /\ UNCHANGED <<graphVars, searchVars, cmd, files, unread, tried, fileOf, broken, errors, todo,
                 outcome, lib, faults>>

\* build fails on type errors only, and generates code for the others.
TypesDone ==
  /\ cmd = "build" /\ phase = "units" /\ todo = {}
  /\ IF \E m \in Names : outcome[m] = "type_error"
     THEN phase' = "exit" /\ exit' = "failure" /\ UNCHANGED todo
     ELSE phase' = "write" /\ todo' = {m \in Names : outcome[m] # "none"} /\ UNCHANGED exit
  /\ UNCHANGED <<graphVars, searchVars, cmd, files, unread, tried, fileOf, broken, errors, outcome,
                 lib, faults>>

\* The code of every module goes to the same src/lib.rs.
WriteModule ==
  /\ phase = "write"
  /\ \E m \in todo :
       /\ todo' = todo \ {m}
       /\ lib' = m
  /\ UNCHANGED <<graphVars, searchVars, cmd, phase, files, unread, tried, fileOf, broken, errors,
                 outcome, exit, faults>>

\* A write fails, or cargo rejects the result.
OutputFails ==
  /\ phase = "write"
  /\ phase' = "exit" /\ exit' = "failure"
  /\ faults' = faults \cup {"output"}
  /\ UNCHANGED <<graphVars, searchVars, cmd, files, unread, tried, fileOf, broken, errors, todo,
                 outcome, lib>>

BuildEnds ==
  /\ phase = "write" /\ todo = {}
  /\ phase' = "exit" /\ exit' = "success"
  /\ UNCHANGED <<graphVars, searchVars, cmd, files, unread, tried, fileOf, broken, errors, todo,
                 outcome, lib, faults>>

\* The process is over.
Exited == phase = "exit" /\ UNCHANGED vars

Command ==
  \/ LoadFile \/ NoFiles \/ AllLoaded \/ LoadDep \/ AllDepsLoaded
  \/ SearchStep \/ SearchEnds \/ Resolve
  \/ CheckModule \/ CheckEnds \/ TypesDone \/ WriteModule \/ OutputFails \/ BuildEnds

Next == Command \/ Exited

\* One sequential process that nothing waits for.
Spec == Init /\ [][Next]_vars /\ WF_vars(Command)

-----------------------------------------------------------------------------
(* Properties.                                                             *)

\* Type correctness of the command's state.
TypeOK ==
  /\ SearchTypeOK
  /\ cmd \in Commands
  /\ phase \in {"load", "deps", "search", "resolve", "units", "write", "exit"}
  /\ unread \subseteq files /\ files \subseteq Files
  /\ fileOf \in [Names -> Files \cup {"dep", "none"}]
  /\ todo \cup broken \subseteq modules
  /\ errors \subseteq {"load", "empty", "cycle", "resolve"}
  /\ outcome \in [Names -> Outcomes]
  /\ exit \in {"running", "success", "failure", "invalid"}

\* Reference: some modules each import another one of them.
HasCycle ==
  \E S \in SUBSET modules : S # {} /\ \A m \in S : \E t \in S : Edge(m, t)

\* "This discovers all `.assura` files, resolves imports (including
\* dependencies), and type-checks every module": a check that succeeds has
\* checked, under the path of every file of the project, that file or the one
\* that replaced it in the map, found no cycle, and left no import without
\* its module (discover_and_resolve_project_with_deps, run_check_project).
AcceptedIsChecked ==
  cmd = "check" /\ exit = "success" =>
    /\ \A f \in files : \E g \in files : \E m \in KeysOf[f] \cap KeysOf[g] :
         m \in modules /\ fileOf[m] = g /\ outcome[m] = "ok"
    /\ ~HasCycle
    /\ \A m \in modules : Targets(m) \subseteq modules

\* A local file imports what is neither there nor in a dependency, or
\* imports something twice.
BadImport(m) ==
  \E i \in 1..Len(imports[m]) :
    \/ imports[m][i].to \notin modules \cup DepNames
    \/ \E j \in 1..(i - 1) : imports[m][j] = imports[m][i]

\* A project is rejected only for something wrong in it: a bad file, a bad
\* module, a failed output, a cycle, or a bad import of a local file.
RejectedHasFault ==
  exit \in {"failure", "invalid"} /\ files # {} =>
    \/ faults # {}
    \/ HasCycle
    \/ \E m \in modules \ DepNames : BadImport(m)

\* The search reports a cycle exactly if there is one.
CycleFoundIffAny == phase = "resolve" => (cycles # {} <=> HasCycle)

\* Every command ends.
Terminates == <>(phase = "exit")

\* The same without the exception: each file itself was checked.  Of two
\* files with one path only the one read last is.
EveryFileIsChecked ==
  cmd = "check" /\ exit = "success" =>
    \A f \in files : \E m \in modules : fileOf[m] = f /\ outcome[m] = "ok"

\* "Project-mode build: resolve, type-check, and codegen all .assura files":
\* after a build of sound files that succeeds the library has the code of every module.
BuiltAllModules ==
  cmd = "build" /\ exit = "success" /\ faults = {} =>
    \A f \in files : \E m \in modules : fileOf[m] = f /\ lib = m

\* "Assura does not allow circular dependencies between modules": no build
\* of a project with a cycle succeeds.
BuildRejectsCycles == cmd = "build" /\ exit = "success" => ~HasCycle

\* "The only discover Err today is "no .assura files"": status 2 of check
\* means the project is empty.
InvalidIsEmpty == exit = "invalid" => files = {}

=============================================================================
