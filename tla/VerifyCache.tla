---------------------------- MODULE VerifyCache -----------------------------
(***************************************************************************)
(* Parallel verification over the on-disk verification cache.              *)
(* verify_parallel_with_solver hands every job of a file to a rayon        *)
(* worker; a worker answers skipped clauses without the solver, else tries *)
(* VerificationCache::get, else verifies and puts.  Several runs (a check, *)
(* a watch, an editor) may work on one cache directory at once, the source *)
(* is edited between and during them, a run may be killed anywhere, and    *)
(* the cache may be cleared.                                               *)
(*                                                                         *)
(* put is std::fs::write: open with truncation, then write.  Both are      *)
(* steps here, so two writers of one entry can overlay each other's bytes: *)
(* a write lands at offset 0 and leaves the tail of a longer text, and a   *)
(* text made of two JSON arrays, or cut short, does not parse.             *)
(***************************************************************************)
EXTENDS Verdicts

CONSTANTS
  Runs,         \* verification runs, each one process
  Names,        \* declaration names
  Bodies,       \* clause bodies
  IrBodies,     \* IR bodies, without "none"
  Contexts,     \* all else a verification reads: params, return type, constants,
                \* callee specs, lemmas, solver, timeout
  Sources,      \* the versions of the file and its sidecars: sequences of jobs
  Holds(_, _),  \* Holds(j, i): clause i of job j holds
  Size(_)       \* the length of the JSON text of an answer

Clause == [kind : VerifiableKinds, body : Bodies, needs_ir : BOOLEAN]
Job == [name : Names, clauses : Seq(Clause), ir : IrBodies \cup {"none"}, ctx : Contexts]

\* An answer: the verdict of every clause that was answered.
Answer(j) == UNION {[S -> Tags] : S \in SUBSET DOMAIN j.clauses}

AllJobs == UNION {{s[n] : n \in DOMAIN s} : s \in Sources}

ASSUME SourcesAssumption == \A s \in Sources : s \in Seq(Job)
ASSUME HoldsAssumption == \A j \in AllJobs : \A i \in DOMAIN j.clauses : Holds(j, i) \in BOOLEAN
ASSUME SizeAssumption == \A j \in AllJobs : \A a \in Answer(j) : Size(a) \in Nat \ {0}

VARIABLES
  source,   \* the file and its sidecars, as they are on disk now
  dir,      \* the cache directory exists
  clearing, \* a clear is between its two halves
  disk,     \* the cache files: name |-> content
  run,      \* each run's phase and what it read when it started
  worker    \* each run's workers: one record for each job of the run

vars == <<source, dir, clearing, disk, run, worker>>

\* A worker's steps and what it carries between them.
Phases == {"start", "miss", "verified", "opened", "unlinked", "done"}

\* No clause answered: the start of every worker, and what torn texts hold.
NoAnswer == <<>>

\* The jobs of run r, as it read them when it started.
JobOf(r, n) == run[r].jobs[n]

-----------------------------------------------------------------------------
(* Cache files.                                                            *)

\* A text on disk: its length, and the answer it parses to, if it does.
Json(ans) == [size |-> Size(ans), parses |-> TRUE, ans |-> ans]
Torn(size) == [size |-> size, parses |-> FALSE, ans |-> NoAnswer]

\* The entry's file name.  SHA-256 is taken to be injective.
\* Mutant: the IR fingerprint is left out of the key.
MutantHashClauses(j) == <<j.name, [i \in DOMAIN j.clauses |-> <<j.clauses[i].kind, j.clauses[i].body>>]>>

hash_clauses(j) == <<j.name, [i \in DOMAIN j.clauses |-> <<j.clauses[i].kind, j.clauses[i].body>>], j.ir>>

\* Writing an answer at offset 0: a longer text keeps its tail.
WholeWrite(text, ans) ==
  IF Size(ans) >= text.size THEN Json(ans) ELSE Torn(text.size)

\* A write that fails after k bytes.
PartialWrite(text, k) == Torn(IF k >= text.size THEN k ELSE text.size)

HasFile(h) == h \in DOMAIN disk
SetFile(h, text) == [g \in DOMAIN disk \cup {h} |-> IF g = h THEN text ELSE disk[g]]

\* read_to_string and from_str both succeed.
get_is_some(h) == HasFile(h) /\ disk[h].parses

-----------------------------------------------------------------------------
(* What a run does with a job.                                             *)

\* Mutant: clauses are only skipped when nothing else is left to verify.
MutantSkipped(r, n) ==
  IF JobOf(r, n).ir # "none" \/ ~run[r].attempted
     \/ \E i \in DOMAIN JobOf(r, n).clauses : JobOf(r, n).clauses[i].kind = "invariant" THEN {}
  ELSE {i \in DOMAIN JobOf(r, n).clauses :
          JobOf(r, n).clauses[i].kind = "ensures" /\ JobOf(r, n).clauses[i].needs_ir}

\* Clauses answered Unknown because result is unconstrained (#703).
Skipped(r, n) ==
  IF JobOf(r, n).ir # "none" \/ ~run[r].attempted THEN {}
  ELSE {i \in DOMAIN JobOf(r, n).clauses :
          JobOf(r, n).clauses[i].kind = "ensures" /\ JobOf(r, n).clauses[i].needs_ir}

\* What is left for the solver: nothing if no ensures or invariant is left.
Filtered(r, n) ==
  LET kept == DOMAIN JobOf(r, n).clauses \ Skipped(r, n) IN
  IF \E i \in kept : JobOf(r, n).clauses[i].kind \in {"ensures", "invariant"} THEN kept ELSE {}

RightFor(j, i, tag) ==
  /\ tag = "verified" => Holds(j, i)
  /\ tag = "counterexample" => ~Holds(j, i)

\* verify_contract_with_types_and_solver on the clauses S: right, or gave up.
Verdicts_of(j, S) == {a \in [S -> Tags] : \A i \in S : RightFor(j, i, a[i])}

Idle == [phase |-> "idle", jobs |-> <<>>, attempted |-> FALSE, cached |-> FALSE]

Init ==
  /\ source \in Sources
  /\ dir = FALSE
  /\ clearing = FALSE
  /\ disk = <<>>
  /\ run = [r \in Runs |-> Idle]
  /\ worker = [r \in Runs |-> <<>>]

\* The user saves a new version of the file or of a sidecar.
Edit ==
  /\ source' \in Sources \ {source}
  /\ UNCHANGED <<dir, clearing, disk, run, worker>>

\* Verifier::verify: read the file and its sidecars, choose the cache
\* (VerificationCache::new creates the directory and ignores a failure,
\* disabled() touches nothing).
StartRun(r) ==
  /\ run[r].phase = "idle"
  /\ \E attempted, cached \in BOOLEAN :
       /\ run' = [run EXCEPT ![r] = [phase |-> "running", jobs |-> source,
                                     attempted |-> attempted, cached |-> cached]]
       /\ dir' \in {dir, dir \/ cached}
  /\ worker' = [worker EXCEPT ![r] = [n \in DOMAIN source |->
                                        [phase |-> "start", ans |-> NoAnswer, hit |-> FALSE]]]
  /\ UNCHANGED <<source, clearing, disk>>

\* Run r's worker n goes to a phase, holding an answer (a cache hit or not).
Goto(r, n, phase, ans, hit) ==
  worker' = [worker EXCEPT ![r][n] = [phase |-> phase, ans |-> ans, hit |-> hit]]

At(r, n, phase) ==
  run[r].phase = "running" /\ n \in DOMAIN worker[r] /\ worker[r][n].phase = phase

\* The skip path: verify what is left, append the Unknowns, never put (#712).
SkipPath(r, n) ==
  /\ At(r, n, "start")
  /\ Skipped(r, n) # {}
  /\ \E a \in Verdicts_of(JobOf(r, n), Filtered(r, n)) :
       Goto(r, n, "done", [i \in Filtered(r, n) \cup Skipped(r, n) |->
                             IF i \in Skipped(r, n) THEN "unknown" ELSE a[i]], FALSE)
  /\ UNCHANGED <<source, dir, clearing, disk, run>>

\* Mutant: a disabled cache is read all the same (the old ephemeral path).
MutantCacheHit(r, n) ==
  /\ At(r, n, "start")
  /\ Skipped(r, n) = {}
  /\ get_is_some(hash_clauses(JobOf(r, n)))
  /\ Goto(r, n, "done", disk[hash_clauses(JobOf(r, n))].ans, TRUE)
  /\ UNCHANGED <<source, dir, clearing, disk, run>>

\* The cache is consulted: a text that parses is returned as it is.
CacheHit(r, n) ==
  /\ At(r, n, "start")
  /\ Skipped(r, n) = {}
  /\ run[r].cached
  /\ get_is_some(hash_clauses(JobOf(r, n)))
  /\ Goto(r, n, "done", disk[hash_clauses(JobOf(r, n))].ans, TRUE)
  /\ UNCHANGED <<source, dir, clearing, disk, run>>

\* No cache, no file, or a text that does not parse.
CacheMiss(r, n) ==
  /\ At(r, n, "start")
  /\ Skipped(r, n) = {}
  /\ ~run[r].cached \/ ~get_is_some(hash_clauses(JobOf(r, n)))
  /\ Goto(r, n, "miss", NoAnswer, FALSE)
  /\ UNCHANGED <<source, dir, clearing, disk, run>>

\* The solver's work, outside any lock.
Verify(r, n) ==
  /\ At(r, n, "miss")
  /\ \E a \in Verdicts_of(JobOf(r, n), DOMAIN JobOf(r, n).clauses) : Goto(r, n, "verified", a, FALSE)
  /\ UNCHANGED <<source, dir, clearing, disk, run>>

\* Mutant: the file appears although its directory is gone.
MutantPutOpen(r, n) ==
  /\ At(r, n, "verified")
  /\ run[r].cached
  /\ disk' = SetFile(hash_clauses(JobOf(r, n)), Torn(0))
  /\ Goto(r, n, "opened", worker[r][n].ans, FALSE)
  /\ UNCHANGED <<source, dir, clearing, run>>

\* put, first half: open and truncate.
PutOpen(r, n) ==
  /\ At(r, n, "verified")
  /\ run[r].cached /\ dir
  /\ disk' = SetFile(hash_clauses(JobOf(r, n)), Torn(0))
  /\ Goto(r, n, "opened", worker[r][n].ans, FALSE)
  /\ UNCHANGED <<source, dir, clearing, run>>

\* put with a disabled cache, or whose open fails: nothing.
PutNothing(r, n) ==
  /\ At(r, n, "verified")
  /\ Goto(r, n, "done", worker[r][n].ans, FALSE)
  /\ UNCHANGED <<source, dir, clearing, disk, run>>

\* put, second half: the write; its failure is ignored.
PutWrite(r, n) ==
  /\ At(r, n, "opened")
  /\ LET h == hash_clauses(JobOf(r, n)) IN
     \/ disk' = SetFile(h, WholeWrite(disk[h], worker[r][n].ans))
     \/ \E k \in 0..(Size(worker[r][n].ans) - 1) : disk' = SetFile(h, PartialWrite(disk[h], k))
  /\ Goto(r, n, "done", worker[r][n].ans, FALSE)
  /\ UNCHANGED <<source, dir, clearing, run>>

\* The opened file was removed by a clear: the write reaches no name.
PutUnlinked(r, n) ==
  /\ At(r, n, "unlinked")
  /\ Goto(r, n, "done", worker[r][n].ans, FALSE)
  /\ UNCHANGED <<source, dir, clearing, disk, run>>

\* All workers joined: the results are flattened and returned.
Report(r) ==
  /\ run[r].phase = "running"
  /\ \A n \in DOMAIN worker[r] : worker[r][n].phase = "done"
  /\ run' = [run EXCEPT ![r].phase = "reported"]
  /\ UNCHANGED <<source, dir, clearing, disk, worker>>

\* The process is killed: open files stay as they are.
Crash(r) ==
  /\ run[r].phase = "running"
  /\ run' = [run EXCEPT ![r].phase = "crashed"]
  /\ UNCHANGED <<source, dir, clearing, disk, worker>>

\* VerificationCache::clear, first half: remove_dir_all, which removes the
\* files one by one and stops with a warning at the first failure.
ClearRemove ==
  /\ ~clearing
  /\ clearing' = TRUE
  /\ \E gone \in SUBSET DOMAIN disk :
       /\ disk' = [h \in DOMAIN disk \ gone |-> disk[h]]
       /\ dir' \in {dir /\ gone # DOMAIN disk, dir}
       /\ worker' = [r \in Runs |-> [n \in DOMAIN worker[r] |->
            IF worker[r][n].phase = "opened" /\ hash_clauses(JobOf(r, n)) \in gone
            THEN [worker[r][n] EXCEPT !.phase = "unlinked"] ELSE worker[r][n]]]
  /\ UNCHANGED <<source, run>>

\* clear, second half: create_dir_all, which may fail too.
ClearCreate ==
  /\ clearing
  /\ clearing' = FALSE
  /\ dir' \in {dir, TRUE}
  /\ UNCHANGED <<source, disk, run, worker>>

Next ==
  \/ Edit
  \/ ClearRemove
  \/ ClearCreate
  \/ \E r \in Runs :
       \/ StartRun(r)
       \/ Report(r)
       \/ Crash(r)
       \/ \E n \in DOMAIN worker[r] :
            \/ SkipPath(r, n)
            \/ CacheHit(r, n)
            \/ CacheMiss(r, n)
            \/ Verify(r, n)
            \/ PutOpen(r, n)
            \/ PutNothing(r, n)
            \/ PutWrite(r, n)
            \/ PutUnlinked(r, n)

Spec == Init /\ [][Next]_vars

-----------------------------------------------------------------------------
(* Properties.                                                             *)

Answered(r, n) == n \in DOMAIN worker[r] /\ worker[r][n].phase = "done"

\* Every variable has its type; no directory, no files; what is open exists.
TypeOK ==
  /\ source \in Sources
  /\ dir \in BOOLEAN
  /\ clearing \in BOOLEAN
  /\ ~dir => DOMAIN disk = {}
  /\ \A h \in DOMAIN disk : disk[h].size \in Nat /\ disk[h].parses \in BOOLEAN
  /\ run \in [Runs -> [phase : {"idle", "running", "reported", "crashed"}, jobs : Sources \cup {<<>>},
                       attempted : BOOLEAN, cached : BOOLEAN]]
  /\ DOMAIN worker = Runs
  /\ \A r \in Runs : DOMAIN worker[r] = DOMAIN run[r].jobs
  /\ \A r \in Runs : \A n \in DOMAIN worker[r] :
       /\ worker[r][n] \in [phase : Phases, ans : Answer(JobOf(r, n)), hit : BOOLEAN]
       /\ worker[r][n].phase = "opened" => HasFile(hash_clauses(JobOf(r, n)))

\* The job k asks what job j asks, as far as the contract's text and its IR go.
SameQuestion(j, k) ==
  /\ j.name = k.name /\ j.ir = k.ir
  /\ DOMAIN j.clauses = DOMAIN k.clauses
  /\ \A i \in DOMAIN j.clauses :
       j.clauses[i].kind = k.clauses[i].kind /\ j.clauses[i].body = k.clauses[i].body

\* An answer to every clause of j that some version of the same contract and
\* IR justifies.
JustifiedBy(j, k, ans) ==
  SameQuestion(j, k) /\ ans \in Verdicts_of(k, DOMAIN j.clauses)

\* A cache hit is a complete answer to the same contract with the same IR
\* body: never the remains of a write cut short by a crash or a full disk,
\* never two writers' texts mixed, never another IR's verdict
\* (VerificationCache::get against put, clear and concurrent runs).
HitWasComputed ==
  \A r \in Runs : \A n \in DOMAIN worker[r] :
    (Answered(r, n) /\ worker[r][n].hit) =>
      \E k \in AllJobs : JustifiedBy(JobOf(r, n), k, worker[r][n].ans)

\* A run whose cache is disabled reports only what its own solver said of the
\* file it read, whatever is on disk (#833).
DisabledIsFresh ==
  \A r \in Runs : \A n \in DOMAIN worker[r] :
    (Answered(r, n) /\ ~run[r].cached) =>
      \A i \in DOMAIN worker[r][n].ans :
        RightFor(JobOf(r, n), i, worker[r][n].ans[i])

\* A run that looked for IR and found none never judges an ensures over the
\* unconstrained result, not even with a verdict cached by a run that did not
\* look (#703: such verdicts are spurious counterexamples).
UnconstrainedResultNotJudged ==
  \A r \in Runs : \A n \in DOMAIN worker[r] :
    (Answered(r, n) /\ run[r].attempted /\ JobOf(r, n).ir = "none") =>
      \A i \in DOMAIN JobOf(r, n).clauses :
        (JobOf(r, n).clauses[i].kind = "ensures" /\ JobOf(r, n).clauses[i].needs_ir) =>
          i \in DOMAIN worker[r][n].ans /\ worker[r][n].ans[i] = "unknown"

\* Every answer is right for the contract the run read: when the contract
\* changes, the old entry is not used (cache.rs: "the hash changes and the old
\* entry is naturally invalidated").
HitIsFresh ==
  \A r \in Runs : \A n \in DOMAIN worker[r] :
    Answered(r, n) =>
      \A i \in DOMAIN worker[r][n].ans : RightFor(JobOf(r, n), i, worker[r][n].ans[i])
=============================================================================
