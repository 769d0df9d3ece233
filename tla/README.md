# A TLA+ verification project for Assura

Assura is a contract language for AI-written code. Its compiler parses and type
checks `.assura` files and hands every contract clause to an SMT solver; a user
acts on the verdict (`Verified`, `Counterexample`, `Timeout`, `Unknown`). This
directory specifies and checks the parts that keep state or decide something over
several steps. First the part that decides which verdict is reported for which
clause: the verification engine of `crates/assura-smt`, with its bounded model
checker. A wrong or misplaced verdict there is the worst failure the program has,
and the code between a solver's answer and the report (incremental solver frames,
two caches, a child process with pipes, two solver threads) is where tests reach
least. Then the parts around it: the watch mode, the language server and the
check server, the build that puts a verified body in a crate, the project mode
with its import graph, and the linearity checker.

Paths below are relative to the repository (`src/` in `PROJECT.json`); SMT means
`crates/assura-smt/src`.

## Inventory

| Component | State | Operations | Interacts with | What is hard | What makes it correct |
|---|---|---|---|---|---|
| Verdict policy (`SMT/policy/{clause,solver_outcome,clause_gate,portfolio}_policy.rs`) | none | polarity of a clause kind, outcome to verdict, cached tag to verdict, priority and merge | called by every backend | ensures and rule are negated, invariant and must_not asserted as they are, decreases negates non-negativity; for an invariant sat is success, for all others unsat | the verdict follows from the truth of the clause |
| Z3 clause loop (`SMT/z3_backend/verify.rs`, `policy/vacuity.rs`, `entry/jobs.rs`) | one incremental solver per contract, session cache per file, results vector | begin job, feature clauses, unmodelable gate, cache lookup, solver query, vacuity stamping, skip path, advanced passes | Z3, session cache | assertions leaking between clauses; zipping a slice of results with clauses; early returns that drop clauses | right verdicts, one per clause, in clause order, never withdrawn |
| Parallel verification and disk cache (`SMT/entry/verify.rs`, `cache.rs`) | `.assura-cache/verify/*.json` | get, put, clear, new, disabled; a worker per contract | file system, other processes, the editor | truncate-then-write, crash inside put, concurrent clear, stale keys | a hit is a whole answer to the same question |
| CVC5 shell backend (`SMT/cvc5_backend/cvc5_verify_shell_*.rs`) | child process, stdin/stdout pipes, pending and resolved clauses | gates, script choice, spawn, write, read, kill, parse, zip, fall back, assemble | `cvc5` binary | full pipes both ways, `--tlimit`, rejected commands, output cap | no answer goes to another clause; the call returns; no process is left |
| Portfolio (`SMT/entry/advanced_passes.rs`) | two threads, one mpsc channel | verify in parallel, send, collect, merge, join | both backends | arrival order, a panicking thread, a sender kept alive | the better answer per position, or a panic |
| CVC5 native backend (`cvc5_verify_native_*.rs`) | in-process solver | same gates as the Z3 loop | cvc5 library | same as the Z3 loop | same |
| BMC and k-induction (`SMT/bmc.rs`, `k_induction.rs`) | one unrolled query per call | assert transitions, ask per step or loop point, base case, step | Z3 | a path that cannot be extended, dropped constraints, off by one at the bound | Safe and Verified cover what they claim |
| Encoders, IR modules, Layer 2, feature checkers (rest of SMT) | per call | tree translation | backends | semantics of the encodings | encodings agree with the language |
| Build with IR sidecars (`crates/assura-cli/src/build.rs`, `SMT/ir_modules/ir_loader.rs`) | sidecars, `generated/`, the output crate | write IR, verify, choose bodies, ask a language model, write the crate, cargo | disk, user, model provider | the sidecar is read twice, earlier builds leave files, kills between writes, retries | the body in the crate is the one that was checked |
| Project mode (`crates/assura-resolve/src/{project,imports}.rs`, `assura-cli` check and build) | module map, search colours, results per module | discover, load, load dependencies, search cycles, resolve, check or generate | file system | cycles, files that fail, shared module paths | accepted means every file checked; rejected means a fault |
| Linearity checker (`crates/assura-types/src/checkers/linear.rs`) | usage counts, a copy per branch | use, fork, merge, check | type checker | uses on some paths only, nested branches | agrees with the grades on every path |
| Incremental compiler and watch loop (`SMT/incremental.rs`, `crates/assura-cli/src/check/watch.rs`) | module hashes, dirty flags, file events | register, mark changed/checked; debounce, hash, check | file system notifications | hash and check read the file separately; the watcher starts after the first check | the last saved version is eventually checked |
| LSP server (`crates/assura-lsp/src/lib.rs`) | document map, diagnostics at the editor | open, change, save, close, requests | editor | several handlers in progress, nothing carries a version | both sides settle on the latest text; an answer is about the text asked about |
| Check server (`crates/assura-server`, `assura-pipeline`) | a bounded event channel per stream | check, build, stream, health, HTTP | client | slow or vanished readers, few threads | streams in order and complete; readers are answered |
| MCP server (`crates/assura-mcp`) | none | JSON requests | client | little | as the pipeline |
| LLM layer (`crates/assura-llm`) | file cache, contract database | get/put, provider calls, lemma chains | provider over HTTP | non-atomic cache writes | as the disk cache |
| Rest of the front end (`assura-parser`, `assura-ast`, `assura-resolve`, `assura-types`) | per call | parse, resolve names, check types | each other | many small checkers (typestates, termination, taint) | rejects what it should |
| Back end and tools (`assura-codegen`, `assura-fmt`, `assura-diagnostics`, `assura-driver`, `assura-macros`, `assura-rust-analyzer`, `assura-cli`) | none that lasts | text generation, argument handling | file system | little | output text |
| Runtime (`assura-runtime`) | one counter, one handler pointer | violation, set handler | generated code | single atomics only | counts every violation |

`PROJECT.json` lists every component with its status and every hazard at its line.

## Modules

| Module | Models | Extends |
|---|---|---|
| `Verdicts` | the pure verdict policy | |
| `HonestReport` | abstract specification: a report that only grows and whose definitive verdicts are true | `Verdicts` |
| `ClauseLoop` | the serial Z3 path over one file | `Verdicts` |
| `VerifyCache` | parallel runs over the disk cache | `Verdicts` |
| `Cvc5Shell` | one contract through the `cvc5` binary | `Verdicts` |
| `Portfolio` | both solvers on one file | `Verdicts` |
| `BoundedCheck` | the bounded model checker and k-induction over explicit transition systems | |
| `WatchLoop` | `check --watch` with the user, the file events and the incremental compiler | |
| `LspDocuments` | the language server's documents, with the editor and the protocol library | |
| `CheckServer` | the check server with its pipeline, threads, streams and clients | |
| `IrBuild` | `assura build` on one contract with its sidecars, the user and the language model | |
| `ModuleGraph` | the search for import cycles | |
| `ProjectCheck` | `assura check` and `assura build` on a directory | `ModuleGraph` |
| `LinearUsage` | the linearity checker, on a program chosen while it is walked | |
| `MC...` | small instances for TLC | the module they are named after |
| `ClauseLoopProofs`, `VerifyCacheProofs`, `WatchLoopProofs`, `ProjectCheckProofs`, `IrBuildProofs`, `LinearUsageProofs` | theorems | the module they are named after |
| `SolverProofs` | theorems about the code that asks solvers | `Portfolio`, `BoundedCheck`, `Cvc5Shell` |
| `ServerProofs` | theorems about the two servers | `LspDocuments`, `CheckServer` |

`BoundedCheck`, `Cvc5Shell` and `CheckServer` share a proof module with others, so
their specifications have names of their own (`BmcSpec`, `ShellSpec`,
`ServerSpec`, and `BmcInit`, `ShellTypeOK` and so on).

`ClauseLoop` and `Portfolio` both implement `HonestReport`. `Portfolio` takes
from its backends only what `HonestReport` promises (the operator `HonestTags`),
which is what composes them: two backends that are honest position by position,
merged, are again honest.

The operators named `Mutant...` are plausible bugs (a missing pop, a dropped
guard, an off-by-one). No specification uses them; `PROJECT.json` pairs each
property with the one that violates it.

### How the models correspond to the code

**`Verdicts`.** A clause kind has a polarity (`clause_check_polarity`): ensures
and rule assert the negated body, invariant and must_not the body, decreases the
negated non-negativity of its measure. `interpret_clause_check_result` maps the
solver's outcome and the kind to a verdict: unsat verifies a clause, except an
invariant, which has satisfiability semantics and is verified by sat. `Claim(c)` is what the kind claims
about the body; it belongs to the properties, not to the code.

**`ClauseLoop`.** `pc` and `job` are the job loop of `verify_impl_with_timeout`,
`todo` the clauses a `for` loop has not reached, `stack` the solver's assertion
frames, `session` the `SessionCache`, `results` the growing vector,
`vacuity_from` the variable of that name. A clause body is an identity plus what
a solver can find out about it (`always`, `never`, `alone`) and how the gates
classify it. `check_sat` is external: it may give up, is right when exactly one
clause's assertion is on the stack, and may say anything when several are.
`FinishJob` is the tail of `verify_clauses_with_types`: vacuity stamping, with the
second, requires-free query succeeding for any subset of the clauses it can
succeed for, and then the skipped clauses' Unknowns.

**`VerifyCache`.** `source` is the file with its sidecars, as the editor last
saved it; `run[r]` a process with the jobs it read at the start, and whether it
looked for IR and uses the cache; `worker[r][n]` the rayon closure of job `n`.
`put` is two steps because `std::fs::write` truncates and then writes. A text is
abstracted to its length and the answer it parses to: writing a shorter text
over a longer one, or part of a text, yields one that does not parse. `Crash` may
strike between any two steps, `ClearRemove` may remove any set of entries (it
stops at the first failure) also from under an open file, and creating the
directory may fail. What a verdict depends on beyond the key (parameter types,
constants, callees, lemmas, solver, timeout) is one field, `ctx`.

**`Cvc5Shell`.** The parent is a program counter `stage` over the gates,
`execute_cvc5` and the assembly; the solver process is external and is modelled
by its lines: it reads one query, prints its answer and one more line (the
model), may reject a command, and may be ended by `--tlimit` anywhere. Pipes are
bounded, so a parent that writes and a child that prints can block each other, as
`write_all` before the first read does. A contract with one clause follows
`check_clause_cvc5_shellout`: first answer only, bitvector script first, integer
script if the bitvector answer is not believed. `parse_cvc5_stdout_all` picks the
answers by their positions among the lines; `BodiesAssumption` says that two
clauses of a contract with the same body text mean the same, which is what the
session cache's key relies on. The vacuity stamping at the end marks results and
changes no verdict; it is modelled in `ClauseLoop` only.

**`Portfolio`.** `thread`, `answers`, `channel` and `received` are the two scoped
threads, their vectors, the mpsc queue and the two `Option`s of the collect
loop. A panic unwinds the closure and drops its sender; `Join` is the end of
`std::thread::scope`, which passes the panic on. Both vectors have one result per
position: the backends share job collection, clause preparation, the skip rule
and the advanced passes, and the number of results of a feature or advanced pass
does not depend on a solver's answer.

**`WatchLoop`.** `pc` is the place in `run_watch_loop`; `last_hash` the variable
of that name, `module` the file's entry in the `IncrementalCompiler`. The file is
read by two actions, `HashFirst` or `NoteChange` for the hash and `CheckRead` for
the check, and the user may save between any two steps. `os` counts events the
operating system has raised, `queue` the messages the callback has put in the
channel; `Deliver` may turn several events into one message, as a file-event
backend does within a burst. The removal of a file is not a Modify or Create
event. `time` and `announced` are history: the number of saves so far, and
whether the content was announced by an event. The compiler's timestamps and
dependencies (no caller adds one), the verbose output and an overflow of the
kernel's event queue are left out.

**`BoundedCheck`.** The engine is an algorithm over a transition system that `BmcInit`
chooses, among all of them over the given states. `Unrolled` is the set of models
of everything asserted before the first question, `Models` those of the question
at `query`; `Sat`, `Unsat`, `TimedOut` and `Incomplete` are the arms on the
solver's answer, `Exhausted` the answer Safe behind the loop. `phase` is the base
case or the induction step of `prove`. A predicate is the set of states it holds
in. The code drops what its predicate parser does not understand, each constraint
on its own: `lost` is what that adds to the initial states and to the transitions,
and whether the property or its negation is among what was dropped (the negation
of `true` and `false` is). `negate_predicate` turns one comparison of the text
around, as the code does. The reference definitions (`ReachedWithin`, `Reachable`,
`CycleWithin`) iterate images of the relation and use no paths.

**`LspDocuments`.** `documents` is the server's map, `text` and `shown` are the
editor's side, `stdin` and `outbox` what is under way between them. The library
(external) keeps at most `Concurrency` futures in progress, polls new ones in
the order of arrival and everything on one thread; a handler of this server has
no await before its last statement, so its first poll stores the state and
enqueues the diagnostics (`Poll`), and only its end waits (`Unpark`). An answer
is the text it was computed on; a rename to an invalid name is refused before the
document is looked at and is left out. `MaxChanges` is 1: see Known differences.

**`CheckServer`.** A request is a call of one client. The pipeline runs inside
the handlers, so `Start` needs one of `Workers` threads; a stream's task gives
it back while it waits for room in the channel. `compile` and `compile_full`
follow `assura-pipeline`, with the A04008 warning that a verified ensures takes
back. Build compiles once more to generate code, on the same source and in the
same poll, which is a flag of the reply. Handlers do not panic in the model.
Clients may stop reading (`Stall`) or go away (`Disconnect`), which drops
the receiver and lets every later `send` return at once.

**`IrBuild`.** One contract, whose versions (`Specs`) hold for some bodies
(`Implements`). `VerifyAndPrint` takes the body the loader finds (next to the
source, then in `generated/`, then the heuristic), `RustBodies` the one code
generation finds (next to the source only), each reading the disk when it gets
there. `LlmAnswers` goes through `verify_ir`; unknown is accepted. Each write is a
step, may fail leaving the old text or a cut one, and `Kill` may strike between
any two. A heuristic text labelled `Stub IR` is never written, any other is, also
one that does not parse.

**`ModuleGraph` and `ProjectCheck`.** `detect_project_import_cycles` is one action
per step of its recursion: start at a module, walk one import, leave a module.
`stack`, `color` and `next` are its variables. `ProjectCheck` adds discovery, the
loading of dependencies (only for imports of local modules, as in the code),
resolution with its import errors, and the pass of either command over the
resolved modules. What a file holds, and whether it parses, is chosen when it is
read; a dependency's module that does not parse counts as a local one does. An
import is its module and the item in it, so that two imports are the same exactly
if their full paths are; two files may declare one path. The module an import
names is fixed among all of the project's; the code matches the longest prefix
again in the map, which differs only if a load error has already failed the
check.

**`LinearUsage`.** One action per node of the expression; the program is chosen
while it is walked, so that every program of `MaxNodes` nodes is covered. `ctx` is
the `LinearContext`, `frames` the enclosing branches with the clones the code
makes. `paths` is history: what each execution of the walked part would count.

## Runs

| Run | Instance | Checks | Shows |
|---|---|---|---|
| `ClauseLoop` | every contract of up to two clauses from a pool of ten, selected ones of three, files of two contracts; 26 389 states | `TypeOK`, `VerdictIsRight`, `NoAssertionLeaks`, `AnsweredInOrder`, `VacuityOnOwnClause`, `ImplementsHonestReport` | verdicts are right through frames and session cache, sit at their own clause, and are never changed later |
| `ClauseLoopDropped` | the same | `EveryVerifiableClauseAnswered` (violated) | finding 1 |
| `VerifyCache` | two interchangeable runs, four versions of a file of one contract; 2.4 million states, about 90 s | `TypeOK`, `HitWasComputed`, `DisabledIsFresh`, `UnconstrainedResultNotJudged` | no torn, mixed or wrong-IR hit; a disabled cache is not read; no judgement over an unconstrained result |
| `Cvc5Shell` | contracts of up to four clauses, one query in the stdin pipe, two lines in the stdout pipe, cap of five lines; 16 714 states | `VerdictIsRight`, `OneResultPerClause`, `NoChildLeftRunning`, `Returns` | answers reach their own clause, no process survives, the call returns even from a mutual block |
| `Portfolio` | files of up to two results; 72 612 states | `SentIsKept`, `ReturnsBestOfBoth`, `Z3WinsTies`, `Ends`, `ImplementsHonestReport` | a vector that was sent is kept under its own solver, the merge does not depend on the order of arrival, a dead thread is never read as an empty report, the caller never waits for ever |
| `WatchLoop` | two contents besides an unreadable file, four saves; 19 713 states | `TypeOK`, `NoLostWakeup`, `CheckFollowsHash`, `CatchesUp` | no announced save is slept through, no check is older than the hash that goes with it, every announced save is hashed in the end |
| `BoundedCheck` | every transition system over three states, bounds 1 and 2, three comparisons alone and joined, five ways to lose constraints; 3.35 million states, about 100 s | `SafeCoversBound`, `CounterexampleIsReal`, `VerifiedIsUnbounded` | outside the cases under Known differences, Safe covers every execution of K steps, counterexamples are executions, and k-induction proves safety for every length |
| `LspDocuments` | two documents, three texts, four messages, three futures; 1.75 million states | `SettledIsLatest`, `AnswerIsAboutAskedText` | editor and server settle on the same text and its diagnostics; an answer misses no earlier notification and sees no later one |
| `CheckServer` | two clients with any request on one thread, a channel of two; 306 667 states, about 70 s | `StreamInOrder`, `Answered` | streams are delivered in order and whole, and a client that reads gets to the end of its answer even if the other stalls or leaves |
| `IrBuild` | two versions, two bodies, four edits and builds, three attempts; 894 410 states, about 70 s | `BodyIsChecked`, `OutputIsOfThisBuild`, `VerifiedBodyImplements`, `BuildEnds` | the body in the crate went through verification, a finished build's files are its own, a verified contract's body implements it, the build ends |
| `ProjectCheck` | up to three files, one of which may take the path of another, with nine import lists and one dependency; 1.85 million states, about 25 s, deadlock checked | `CyclesAreReal`, `NoReportMeansOrdered`, `AcceptedIsChecked`, `RejectedHasFault` | cycles are found and real, nothing unchecked is accepted, nothing sound is rejected |
| `LinearUsage` | all programs of six nodes and branches over one parameter of every grade; 769 758 states | `AcceptedIsUsedAsGraded`, `NoFalseAlarm` | the merge of branches is both sound and precise |

Why the bounds are enough. In `ClauseLoop` a clause can only disturb a later one
through the frames, the session cache or the position in the vector; two clauses
after a feature clause, three clauses, and a second contract after a first give
each of these an instance, and the proofs lift the bound for verdicts, frames,
order and vacuity marks. In `VerifyCache` two runs are enough for every pair of reader, writer,
clearer and crashed writer of one entry; sizes are chosen so that a writer can
meet a longer, an equal and a shorter text; the proofs lift the number of runs,
jobs and versions. In `Cvc5Shell` the pipes hold less than a script and less than
a query's output, so both sides block; three answers pass the cap; the proofs
lift contracts, pipes and cap for all but the return. In
`Portfolio` two positions show a mismatch of positions, and the proofs lift it.
In `WatchLoop` two contents allow an edit and its undo, and four saves one in each
window between hash, check, watcher and wait; the proofs lift both. In
`BoundedCheck` a system of three states has dead ends, cycles and states at every
distance up to the bound, and with the bound 1 some that only the induction step
can rule out; the proofs hold for every finite system and bound. In `LspDocuments` four messages fill the futures and the queue
behind them, and allow a document to be closed and opened again under a request.
In `CheckServer` one thread makes each client wait for the other, and every
stream is longer than the channel. In `IrBuild` four edits allow a build, an edit,
a second build and an edit inside it. In `ProjectCheck` three modules have cycles
of every shape a fourth would repeat. In `LinearUsage` six nodes allow uses
before, in and after a branch inside a branch, and parameters do not affect each
other. The proofs lift the bounds of these last five models too, except for the
liveness properties.

The modules without a type invariant in their run state one all the same
(`TypeOK`); it was checked on the same instances and the runs spend their time on
the others.

Deadlock is checked in `VerifyCache`, where an edit is always possible, and in
`ProjectCheck`, where a command that has not exited can always go on. `WatchLoop`
and `LspDocuments` wait when the user does nothing more; the other models
describe calls, which end.

### Fairness

`Cvc5Shell` assumes that the parent's thread runs (`WF(Parent)`) and that the
time limit strikes (`WF(ChildTimeout)`): `--tlimit` is on every command line with
a floor on its value (`clause_timeout_tlimit`). The solver itself is given no
fairness, so it may hang until then. `Portfolio` assumes weak fairness of the
caller and of each thread: they share no lock, and each solver query carries the
configured timeout, so a thread always goes on. `WatchLoop` assumes weak fairness of
the loop's thread and of the callback's, which wait on nothing but each other's
messages, and none of the user, who may stop saving at any time; the bound on
saves is what ends a burst, and a user who saves faster than the debounce for
ever does keep the loop in its drain. `CheckServer` assumes that the runtime polls
every task that can run and that the pipeline returns (each query has a timeout),
and that a client which reads goes on reading until it stalls or leaves; nothing
is assumed of clients that do. `IrBuild` assumes that the build's process runs and
its calls return (HTTP calls of a model provider have a timeout; a provider that is
a command has none and is taken to end), `ProjectCheck` the same of its one
process. The other modules assume no fairness and claim no liveness.

## Proofs

All theorems hold for every value of the constants that satisfies the named
assumptions, and are checked by TLAPS to the last leaf. The assumptions say that
the constants have their types (files are sequences of well-formed jobs,
capacities and sizes are positive), that a marker such as `None` is none of the
values it stands beside, and that the same key or text asks the same question
(`KeyDecides`, `BodiesAssumption`). TLC evaluates them in the runs. Three theorems
about the language server and two about project mode have a hypothesis of their
own, named below.

*`ClauseLoopProofs`*: `TypeCorrect`, `VerdictsAreRight`, `AssertionsNeverLeak`,
`JobsAreAnswered`, `MarksAreOwn`, `LoopImplementsReport`.
`VerdictIsRight` is not inductive: a cached verdict is right only because every
session entry is right for every clause with its key (`SessionRight`, which
needs that key and truth agree, `KeyDecides`), and a solver's answer is about its
clause only because the stack is back at the prelude whenever a clause is left
(`StackAtBase`). `IInv` adds these and `ResultsLocated` (a result names a clause
of the file). `TypeOK` includes that the prelude's frame is never popped
(`stack # <<>>`). The single-clause contract, which does not push, is why
`StackAtBase` speaks only of states with clauses left. For the order, `OrderInv`
says of the job in progress that the results from `vacuity_from` on are those of
the clauses no longer in `todo`, in increasing order. The i-th result of a
finished job is then that of its i-th clause because two increasing enumerations
of one finite set are equal, which is proved once and also gives `stamp_vacuity`
the right clause when it zips. The refinement needs that stamping changes no
verdict and that every action only appends (`Grows`).

*`VerifyCacheProofs`*: `TypeCorrect`, `HitsWereComputed`, `DisabledRunsAreFresh`,
`UnconstrainedResultsNotJudged`. `IInv` adds to the types `DiskRight` (a text that
parses is a complete answer which some version with that key justifies) and
`WorkerRight` (what a worker carries is right for its own job, and what it found
in the cache is justified). The overlay of two writers is where `DiskRight` could
break: the only parsing outcome of a write is the writer's own text.

*`SolverProofs`*, on `Portfolio`: `TypeCorrect`, `NothingSentIsLost`, `BestOfBoth`,
`TiesGoToZ3`, `Refinement`. The invariant follows a vector from thread to channel to slot
(`AnswersHonest`, `SentComplete`, `QueueFaithful`, `ReceivedFaithful`) and states
that a thread that has sent is found in the queue or in its slot (`NothingLost`),
so that when the channel disconnects an empty slot means a panic. The refinement
theorem then needs one step only: `Join`.

On `BoundedCheck`: `BmcTypeCorrect`, `SafeIsCovered`, `CounterexamplesAreReal`,
`VerifiedHolds`. The inductive invariant is small: the questions behind the loop
had no model (`BaseAsked`, `StepAsked`), and what was found is a model of the
question it stopped at (`Found`). What remains is mathematics about walks, which
the reference definitions do not mention: `Post` and `Avoid` are the sets of ends
of walks (`PostIsWalks`, `AvoidIsWalks`), `GoesOn` the states with walks of a given
length before them, and a walk can be cut, joined and, where a cycle is closed,
continued up to the bound. Dead ends are no exception: Safe covers exactly the
bad states from which the system can go on to step K. A walk that the asserted
transitions allow although the parser dropped some of them is a walk more, never
one less, which is why dropped constraints do not hurt Safe.
k-induction is sound by the least bad step: if an execution reaches a bad state,
the first such step is either within the base case or has k good steps before it,
which is a model of the step's question.

On `Cvc5Shell`: `ShellTypeCorrect`, `ShellVerdictsAreRight`,
`ShellAnswersEveryClause`, `NoSolverIsLeft`. The inductive invariant numbers the
lines of the solver's output: line 2n - 1, whether in the parent's buffer, in the
pipe or still owed by the solver (`OutputInOrder`), answers the n-th pending
clause, or is the last one, printed by a solver that stopped. Truncation, kills
and rejected commands only take lines away from the end, so if there are as many
answers as pending clauses, the n-th answer is the n-th clause's
(`NthOfIncreasing`, `AnswersAlign`). `GatesInOrder` says that resolved and pending
clauses are all the clauses, so that the merge has one result for each.

*`WatchLoopProofs`*: `TypeCorrect`, `NeverSleepsThroughASave`,
`ChecksFollowHashes`. `NoLostWakeup` speaks only of a waiting loop; `IInv` follows
the save through the loop (`EventCoversSave`: an announced content is hashed, or
an event, a message or a read that will find it is still to come), and
`HashThenCheck` does the same for the times of the two reads.

*`ProjectCheckProofs`*: `ReportedCyclesAreReal`, `UnreportedIsOrdered`,
`CommandTypeCorrect`, `AcceptedAreChecked`, `FilesAreChecked`,
`RejectionsHaveCause`. The reference
for "no cycle" is a rank that falls along every import, kept as the history
variable of the search: a module gets its rank when it is left. The inductive
invariant says that the stack is a path (`StackIsPath`), that unvisited modules
have no rank (`WhiteIsFresh`), that the imports walked so far lead to modules that
are done or on the stack (`WalkedIsDone`), and that finished modules are ordered
(`BlackIsOrdered`, `RankIsPast`); during loading the search has not begun
(`LoadPhase`). `CommandInvariant` then ties the error counters to their causes.
Success means that under the path of every file a module was checked, that file or
the one that replaced it in the map (`AcceptedAreChecked`, no hypothesis); it is
the file itself if no two files declare one module path (`FilesAreChecked`, with
`OwnPaths`). Failure has a
cause if dependencies' modules import nothing and local files import modules of a
dependency, not items in them (`DepsAreFlat`): the loader follows neither kind of
import, a known difference. The instance of the run satisfies `DepsAreFlat`, not
`OwnPaths`.

*`IrBuildProofs`*: `TypeCorrect`, `GeneratedBodiesWereChecked`, `OutputsAreOwn`,
`VerifiedBodiesImplement`. The sidecar is read twice. `VerifiedWhatIsThere` says
that between the reads the disk still holds what verification used, unless the
user touched it (the case the properties leave out); `SameBodyTwice` carries it to
the body in the crate, `ModelNeedsOption` and `AttemptsLeft` bound what the
language model may replace, and `CargoIsOfThisBuild` and `ExitMeansIdle` say which
files a finished build has written.

*`ServerProofs`*, on `LspDocuments`: `DocumentsTyped`, `ServerSettlesOnEditor`,
`AnswersAreTimely`. A message's effect comes long after it is sent, so the
invariant says what the queues will lead to: handling everything under way takes
the server to the editor's texts (`QueueLeadsToText`), handling what is before a
request takes it to the text the request was about (`QueueLeadsToAsked`), and
receiving what is in the outbox shows the diagnostics of what is kept
(`OutboxLeadsToShown`). The hypothesis `MaxChanges <= 1` is what an editor does
under the full synchronisation the server announces; with two the property fails
(Known differences), because `did_change` takes the first content change.

On `CheckServer`: `StreamsArriveInOrder`, `StreamsArriveWhole`. What a client has
received followed by what is in its channel is the part of the events handed over
so far; a stream ends only when that is all of them. The number of clients, the
channel and the threads are arbitrary.

*`LinearUsageProofs`*: `WalkTypeCorrect`, `AcceptedUses`, `GoodUsesAccepted`. A
context of counts stands for a set of executions: for a parameter that no inner
binding hides, the count is the largest use of any of them and the use of all of
them unless a difference was reported (`CountsSummarise`), and a reported
difference is one between two executions that exist (`DifferenceStays`), also
after the branches around it are merged. `CountsGrow` says that the subtractions
of the merge never saturate.

Induction over data is done through sets: the library's `WFMin` says that a
nonempty set of numbers has a least element (`LeastNumber`), which gives induction
for a set of numbers (`SetInduction`), and so facts about the recursively defined
functions `Post` and `Avoid` once they are shown to satisfy their equations
(`PostRec`, `AvoidRec`).

Model-checked only: the liveness properties `Returns` (`Cvc5Shell`), `Ends`
(`Portfolio`), `CatchesUp` (`WatchLoop`), `Answered` (`CheckServer`) and
`BuildEnds` (`IrBuild`), which are outside the prover. Every invariant of every
passing run, and both refinements, are stated by a theorem.

## Findings

**Clauses without a result** (run `ClauseLoopDropped`). When an ensures is skipped
for want of an IR body and no ensures or invariant is left, the contract's rule,
must_not and decreases clauses are not verified and not reported
(`z3_backend/verify.rs:622`, likewise in `entry/verify.rs` and
`entry/advanced_passes.rs`).

### Known differences

Other places where the code does not do what a document or comment says. Each is
stated as a property of the module (the last part, or the comment quotes the
text); each fails on the module's instance, or with the constants given, and the
properties of the runs leave out exactly these cases.

| Property | The code | The text |
|---|---|---|
| `VerifyCache!HitIsFresh` | the cache key leaves out parameters, constants, callees, lemmas, solver and timeout (`cache.rs:143`) | `cache.rs:175` |
| `Cvc5Shell!TimeoutIsReported` | a script interrupted after its first answer is a count mismatch: Unknown, not Timeout (`cvc5_verify_shell_contract.rs:172`) | `cvc5_verify_shell_runner.rs:186` |
| `WatchLoop!SkipIsRedundant` | a save between the hash and the check, undone later, leaves the report of the undone text (`check/watch.rs:195`) | `docs/SCENARIOS.md:214` |
| `WatchLoop!EveryChangeIsChecked` | a save during the first check is not heard of (`check/watch.rs:136`) | `docs/SCENARIOS.md:214` |
| `BoundedCheck!SafeMeansUnreachable` | all transitions are asserted before the first question, so a bad state on a path that ends is not found (`bmc.rs:280`); a predicate that does not parse is never asked (`:295`); an Unknown that is no timeout is read as no (`:308`) | `bmc.rs:262`, `bmc.rs:131`, `README.md:64` |
| `BoundedCheck!VerifiedSafetyHolds` | the negation of a conjunction negates one comparison (`k_induction.rs:265`) | `k_induction.rs:53`, `:260` |
| `BoundedCheck!VerifiedLivenessHolds` | no hypothesis in the liveness step; a longer lasso is missed (`k_induction.rs:217`) | `docs/SPECIFICATION.md:4453` |
| `CheckServer!SuccessIsVerified` | success is the absence of error diagnostics; a refuted clause is none (`main.rs:21`) | `assura-pipeline/src/lib.rs:236` |
| `CheckServer!UnsetLayerIsSmt` | an unset layer arrives as 0, structural only (`main.rs:147`) | `proto/assura.proto:25` |
| `IrBuild!SynthesizedWithoutSidecar` (`Heuristic <- MCHeuristic`) | IR an earlier build left in `generated/` comes before synthesis (`ir_loader.rs:148`) | `entry/verify.rs:125` |
| `IrBuild!VerifiedIsImplemented` | code generation takes co-located sidecars only; a contract verified otherwise is built with `todo!()` (`build.rs:1610`) | `docs/GETTING-STARTED.md:215` |
| `IrBuild!TestsAreCurrent` | tests of an earlier contract stay when all clauses are decided (`build.rs:586`) | `docs/GETTING-STARTED.md:193` |
| `ProjectCheck!EveryFileIsChecked` | two files with one module path: the second replaces the first (`project.rs:488`) | `docs/TUTORIAL.md:257` |
| `ProjectCheck!RejectedHasFault` (one file, `DepImports <- InnerImports`) | imports of a dependency's modules are not loaded (`project.rs:629`), nor is the module of an item imported from a dependency (`project.rs:263`) | `docs/TUTORIAL.md:257` |
| `ProjectCheck!InvalidIsEmpty` | discovery also returns Err when no file resolves (`project.rs:534`) | `check/project.rs:62` |
| `ProjectCheck!BuiltAllModules` | every module is written to the same `src/lib.rs` (`build.rs:1839`) | `build.rs:1711` |
| `ProjectCheck!BuildRejectsCycles` | project build prints import cycles as warnings (`build.rs:1753`) | `assura-diagnostics/src/catalog.rs:71` |
| `LinearUsage!UnusedIsReported` | uses of a let or pattern variable count for the linear parameter it shadows (`linear.rs:447`) | `docs/SPECIFICATION.md:1708` |
| `LspDocuments!SettledIsLatest` (`MaxChanges = 2`) | of several full-text changes in one notification the first is taken, and the last is the text (`lib.rs:275`) | comment at `lib.rs:274` |

Smaller differences between text and code, met on the way and not modelled:
`assura-config/src/lib.rs:454-456` speaks of an ephemeral cache directory where
the code uses `VerificationCache::disabled()`; `assura-smt/src/lib.rs:6` and
`assura-config/src/lib.rs:18` describe the portfolio as Z3 first with CVC5 as a
fallback, while both run at once and are merged; `clause_gate_policy.rs`
documents the unmodelable gate before the cache lookup, while the CVC5 shell looks
up first (not observable, unmodelable clauses are never stored);
`docs/FAQ.md:337` says that watch mode tracks the file and not its directory, while
the code watches the directory.

## Plan

Done: verdicts, Z3 loop, disk cache, CVC5 shell, portfolio, watch mode; then the
bounded checker, the build, the project mode, the check server, the language
server and the linearity checker; then proofs of every invariant the runs check.

Next:

1. `NativeLoop`: the CVC5 native backend against `HonestReport`.
2. The termination and typestate checkers of `assura-types`, in the manner of
   `LinearUsage`; the lemma chain of `assura-llm`.

## Not modelled, and why

Encoding expressions as solver terms, parsing, formatting and code generation are
pure functions over large trees whose correctness is about language semantics;
they have no interleaving or lasting state and are out of TLC's reach beyond toy
inputs. Solvers are trusted to be right when they answer sat or unsat. SHA-256
is taken to be injective. Models do not cover the wording of messages, models in
counterexamples, or unsat cores. Vendored code (`third_party/z3-sys`), editors,
examples and scripts are left out.

Most of the repository's lines are of this kind: encoders for two solvers, IR
generation and lowering, the code generator, the parser, some sixty syntactic
checkers with one rule each, the error catalogue, and the unit tests that stand
inside the source files. The map therefore covers a small share of all lines. It
covers most of the code that keeps state, waits for something or decides over
several steps; a model of the rest would be a transliteration of tree walks with
nothing to check them against.

In project mode, `--showcase-only` and the library functions no command calls
(`resolve_project`, `build_module_graph_with_deps`) are left out; the incremental
compiler's propagation to dependents is, too, since its only user registers one
module. The cache of the LLM layer is written without a lock, but what is loaded
from it is verified again. The language server's contract overlay reads a Rust
text and keeps nothing.

## Running

    tlc -config ClauseLoop.cfg MCClauseLoop
    tlapm ClauseLoopProofs.tla

and likewise for the other pairs of the tables above.
