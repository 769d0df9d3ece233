------------------------------ MODULE IrBuild -------------------------------
(***************************************************************************)
(* `assura build` on one file with one contract, and the implementation IR *)
(* it verifies and generates Rust from.  A body may come from a sidecar    *)
(* next to the source, from a sidecar an earlier build left in generated/, *)
(* from the ensures heuristics, or from a language model that is asked up  *)
(* to MaxRetries times.  Verification, code generation and the writes are  *)
(* separate steps that read the disk on their own; the user edits, a write *)
(* fails and the process is killed between any two of them.                *)
(***************************************************************************)
EXTENDS Naturals

CONSTANTS
  Specs,       \* versions of the contract that compile
  Bodies,      \* implementation IR that parses
  Implements,  \* Implements[s]: the bodies for which the clauses of s hold
  Heuristic,   \* Heuristic[s]: the text synthesized from s; None if it is labelled "Stub IR"
  Unusable,    \* a file that holds a stub, or no IR module
  Broken,      \* a source that does not compile
  None,        \* no file, no body, nothing written yet
  MaxRetries,  \* MAX_RETRIES
  MaxEdits     \* bound: edits of the user, and builds

ASSUME SpecsAssumption ==
  /\ None \notin Specs \cup Bodies \cup {Unusable, Broken}
  /\ None \notin {0, 1, 2}
  /\ Broken \notin Specs
  /\ Unusable \notin Bodies
  /\ Implements \in [Specs -> SUBSET Bodies]
  /\ Heuristic \in [Specs -> Bodies \cup {Unusable, None}]
ASSUME BoundsAssumption == MaxRetries \in Nat \ {0} /\ MaxEdits \in Nat

VARIABLES
  source,     \* the source file
  colocated,  \* {Contract}.ir next to it
  generated,  \* generated/{Contract}.ir
  out,        \* what the files of the output directory were made from; None: no such
              \* file, or a write of it that failed
  pc,         \* step of the build, or "idle"
  opts,       \* --write-ir and --auto-implement
  typed,      \* the source that was compiled
  checked,    \* the body verification used, and its verdict
  body,       \* the body generated Rust gets; None is todo!()
  attempt,    \* calls of the model that failed
  judged,     \* history: what verify_ir said of the model's answers in this build
  exit,       \* exit code of the last build; None if it was killed
  edits,      \* edits and builds so far
  touched     \* history: the user changed a sidecar during this build

disk == <<source, colocated, generated>>
vars == <<source, colocated, generated, out, pc, opts, typed, checked, body, attempt, judged,
          exit, edits, touched>>

IrText == Bodies \cup {Unusable}
Verdicts == {"verified", "counterexample", "unknown"}

\* What a sidecar holds once fs::write has failed: nothing changed, or the
\* text was cut off.
WriteFails(old) == {old, Unusable}

\* The same for a file of the output directory.
OutFails(old) == {old, None}

NotChecked == [body |-> None, verdict |-> "unknown"]

-----------------------------------------------------------------------------
(* The IR loader.                                                          *)

\* load_ir_file: neither a stub nor what cannot be parsed.
load_ir_file(text) == IF text \in Bodies THEN text ELSE None

\* Mutant: generated/ is searched first.
MutantResolve(here, gen) ==
  IF load_ir_file(gen) # None THEN load_ir_file(gen) ELSE load_ir_file(here)

\* ir_search_dirs_for_source and resolve_ir_sidecar.
resolve_ir_sidecar(here, gen) ==
  IF load_ir_file(here) # None THEN load_ir_file(here) ELSE load_ir_file(gen)

\* The text of stub_ir_sidecars_for_typed as a body: neither a stub nor what
\* cannot be parsed.
heuristic(s) == load_ir_file(Heuristic[s])

\* What a sidecar holds after the text for s was to be written to it: a stub
\* never is, a text that cannot be parsed is.
SidecarAfterWrite(old, s) ==
  IF Heuristic[s] = None THEN {old} ELSE {Heuristic[s]} \cup WriteFails(old)

load_or_synthesize(here, gen, s) ==
  IF resolve_ir_sidecar(here, gen) # None THEN resolve_ir_sidecar(here, gen) ELSE heuristic(s)

\* What verification may answer; a result clause without a body is unknown.
Outcomes(b, s) ==
  {"unknown"} \cup (IF b = None THEN {}
                    ELSE IF b \in Implements[s] THEN {"verified"} ELSE {"counterexample"})

-----------------------------------------------------------------------------
Init ==
  /\ source \in Specs
  /\ colocated = None
  /\ generated = None
  /\ out = [cargo |-> None, lib |-> None, tests |-> None]
  /\ pc = "idle"
  /\ opts = [write_ir |-> FALSE, auto_implement |-> FALSE]
  /\ typed = None
  /\ checked = NotChecked
  /\ body = None
  /\ attempt = 0
  /\ judged = {}
  /\ exit = None
  /\ edits = 0
  /\ touched = FALSE

(* The user.                                                               *)

EditSource(s) ==
  /\ edits < MaxEdits
  /\ edits' = edits + 1
  /\ source' = s
  /\ UNCHANGED <<colocated, generated, out, pc, opts, typed, checked, body, attempt, judged, exit, touched>>

EditSidecar(text) ==
  /\ edits < MaxEdits
  /\ edits' = edits + 1
  /\ colocated' = text
  /\ touched' = (touched \/ pc # "idle")
  /\ UNCHANGED <<source, generated, out, pc, opts, typed, checked, body, attempt, judged, exit>>

-----------------------------------------------------------------------------
(* run_build.                                                              *)

\* The process ends, and its variables with it.
Fail(code) ==
  /\ pc' = "idle"
  /\ exit' = code
  /\ typed' = None
  /\ checked' = NotChecked
  /\ body' = None
  /\ attempt' = 0
  /\ judged' = {}
  /\ touched' = FALSE

Goes(step) ==
  /\ pc' = step
  /\ UNCHANGED <<exit, typed, checked, body, attempt, judged, touched>>

\* Reading fails: exit 2.  Errors: exit 1.
StartBuild(write_ir, auto_implement) ==
  /\ pc = "idle"
  /\ edits < MaxEdits
  /\ edits' = edits + 1
  /\ opts' = [write_ir |-> write_ir, auto_implement |-> auto_implement]
  /\ \/ Fail(2)
     \/ source = Broken /\ Fail(1)
     \/ /\ source # Broken
        /\ pc' = IF write_ir THEN "write_ir" ELSE "verify"
        /\ typed' = source
        /\ exit' = None
        /\ checked' = NotChecked
        /\ body' = None
        /\ touched' = FALSE
        /\ UNCHANGED <<attempt, judged>>
  /\ UNCHANGED <<disk, out>>

\* write_colocated_ir_sidecars: a failure is a warning.
WriteColocatedIr ==
  /\ pc = "write_ir"
  /\ pc' = "verify"
  /\ colocated' \in SidecarAfterWrite(colocated, typed)
  /\ UNCHANGED <<source, generated, out, opts, typed, checked, body, attempt, judged, exit,
                 edits, touched>>

\* verify_and_print: no verdict stops the build.
VerifyAndPrint ==
  /\ pc = "verify"
  /\ pc' = "bodies"
  /\ LET b == load_or_synthesize(colocated, generated, typed)
     IN \E v \in Outcomes(b, typed) : checked' = [body |-> b, verdict |-> v]
  /\ UNCHANGED <<source, colocated, generated, out, opts, typed, body, attempt, judged, exit, edits,
                 touched>>

\* rust_bodies_from_ir_sidecars reads the sidecar next to the source again;
\* with --auto-implement, the heuristics come next and the model last.
RustBodies ==
  /\ pc = "bodies"
  /\ body' = IF load_ir_file(colocated) = None /\ opts.auto_implement THEN heuristic(typed)
             ELSE load_ir_file(colocated)
  /\ pc' = IF body' = None /\ opts.auto_implement THEN "llm" ELSE "out_dir"
  /\ UNCHANGED <<source, colocated, generated, out, opts, typed, checked, attempt, judged, exit,
                 edits, touched>>

\* call_llm_for_ir gives up at once on a setup error (no command, no key).
LlmSetupFails ==
  /\ pc = "llm"
  /\ pc' = "out_dir"
  /\ UNCHANGED <<disk, out, opts, typed, checked, body, attempt, judged, exit, edits, touched>>

\* Mutant: feedback starts the count again, so the loop has no last attempt.
MutantTryAgain == attempt' = (attempt + 1) % MaxRetries /\ UNCHANGED pc

TryAgain ==
  /\ attempt' = attempt + 1
  /\ pc' = IF attempt + 1 < MaxRetries THEN "llm" ELSE "out_dir"

\* The call fails, or the answer does not parse.
LlmCallFails ==
  /\ pc = "llm"
  /\ TryAgain
  /\ UNCHANGED <<disk, out, opts, typed, checked, body, judged, exit, edits, touched>>

\* Mutant: an answer that cannot be validated is taken as well.
MutantAccepts(v) == v # "error"

\* No counterexample and no error; unknown is accepted.
accepts(v) == v \notin {"counterexample", "error"}

\* The answer b parses and goes through verify_ir.
LlmAnswers(b) ==
  /\ pc = "llm"
  /\ \E v \in Outcomes(b, typed) \cup {"error"} :
       /\ judged' = judged \cup {<<b, v>>}
       /\ IF accepts(v) THEN body' = b /\ pc' = "out_dir" /\ UNCHANGED attempt
          ELSE TryAgain /\ UNCHANGED body
  /\ UNCHANGED <<disk, out, opts, typed, checked, exit, edits, touched>>

-----------------------------------------------------------------------------
(* The writes.  Those that matter end the build with exit 1 if they fail.  *)

CreateOutDir ==
  /\ pc = "out_dir"
  /\ Goes("cargo_toml") \/ Fail(1)
  /\ UNCHANGED <<disk, out, opts, edits>>

WriteCargoToml ==
  /\ pc = "cargo_toml"
  /\ \/ out' = [out EXCEPT !.cargo = typed] /\ Goes("generated_ir")
     \/ (\E t \in OutFails(out.cargo) : out' = [out EXCEPT !.cargo = t]) /\ Fail(1)
  /\ UNCHANGED <<disk, opts, edits>>

\* A failure is ignored.
WriteGeneratedIr ==
  /\ pc = "generated_ir"
  /\ Goes("lib_rs")
  /\ generated' \in SidecarAfterWrite(generated, typed)
  /\ UNCHANGED <<source, colocated, out, opts, edits>>

\* Mutant: a failure is a warning only.
MutantWriteLibRs ==
  /\ pc = "lib_rs"
  /\ \E t \in {<<typed, body>>} \cup OutFails(out.lib) : out' = [out EXCEPT !.lib = t]
  /\ Goes("metadata")
  /\ UNCHANGED <<disk, opts, edits>>

WriteLibRs ==
  /\ pc = "lib_rs"
  /\ \/ out' = [out EXCEPT !.lib = <<typed, body>>] /\ Goes("metadata")
     \/ (\E t \in OutFails(out.lib) : out' = [out EXCEPT !.lib = t]) /\ Fail(1)
  /\ UNCHANGED <<disk, opts, edits>>

\* assura-contracts.json; a failure is a warning.
WriteMetadata ==
  /\ pc = "metadata"
  /\ Goes("wasm_config")
  /\ UNCHANGED <<disk, out, opts, edits>>

\* .cargo/config.toml, for WASM only.
WriteWasmConfig ==
  /\ pc = "wasm_config"
  /\ Goes("tests") \/ Fail(1)
  /\ UNCHANGED <<disk, out, opts, edits>>

\* write_unresolved_tests: only if a clause is unknown or timed out.
WriteUnresolvedTests ==
  /\ pc = "tests"
  /\ Goes("cargo_build")
  /\ IF checked.verdict # "unknown" THEN UNCHANGED out
     ELSE \E t \in {typed} \cup OutFails(out.tests) : out' = [out EXCEPT !.tests = t]
  /\ UNCHANGED <<disk, opts, edits>>

\* run_cargo_build: whatever becomes of it, the exit code is 0.
RunCargoBuild ==
  /\ pc = "cargo_build"
  /\ pc' = "idle"
  /\ exit' = 0
  /\ attempt' = 0
  /\ judged' = {}
  /\ UNCHANGED <<disk, out, opts, typed, checked, body, edits, touched>>

\* The process is killed between two steps.
Kill ==
  /\ pc # "idle"
  /\ Fail(None)
  /\ UNCHANGED <<disk, out, opts, edits>>

Build ==
  \/ WriteColocatedIr \/ VerifyAndPrint \/ RustBodies
  \/ LlmSetupFails \/ LlmCallFails \/ \E b \in Bodies : LlmAnswers(b)
  \/ CreateOutDir \/ WriteCargoToml \/ WriteGeneratedIr \/ WriteLibRs \/ WriteMetadata
  \/ WriteWasmConfig \/ WriteUnresolvedTests \/ RunCargoBuild

Next ==
  \/ \E s \in Specs \cup {Broken} : EditSource(s)
  \/ \E t \in IrText \cup {None} : EditSidecar(t)
  \/ \E w, a \in BOOLEAN : StartBuild(w, a)
  \/ Build
  \/ Kill

\* The process runs; every call it makes returns.
Spec == Init /\ [][Next]_vars /\ WF_vars(Build)

-----------------------------------------------------------------------------
(* Properties.                                                             *)

Files == [cargo : Specs \cup {None}, lib : (Specs \X (Bodies \cup {None})) \cup {None},
          tests : Specs \cup {None}]

Steps == {"idle", "write_ir", "verify", "bodies", "llm", "out_dir", "cargo_toml", "generated_ir",
          "lib_rs", "metadata", "wasm_config", "tests", "cargo_build"}

\* Every variable has its type; a build that runs has compiled something.
TypeOK ==
  /\ source \in Specs \cup {Broken}
  /\ colocated \in IrText \cup {None}
  /\ generated \in IrText \cup {None}
  /\ out \in Files
  /\ pc \in Steps
  /\ opts \in [write_ir : BOOLEAN, auto_implement : BOOLEAN]
  /\ typed \in Specs \cup {None}
  /\ (pc # "idle" => typed # None)
  /\ checked \in [body : Bodies \cup {None}, verdict : Verdicts]
  /\ body \in Bodies \cup {None}
  /\ attempt \in 0..MaxRetries
  /\ judged \subseteq Bodies \X (Verdicts \cup {"error"})
  /\ exit \in {None, 0, 1, 2}
  /\ edits \in 0..MaxEdits
  /\ touched \in BOOLEAN

HasBodies == pc \notin {"idle", "write_ir", "verify", "bodies"}

\* The body code generation uses is the one verification used, unless the user
\* changed the sidecar in between; with --auto-implement it may also be the
\* current heuristic, or an answer of the model that verify_ir did not refute.
BodyIsChecked ==
  (HasBodies /\ body # None) =>
    \/ touched
    \/ body = checked.body
    \/ opts.auto_implement /\ body = heuristic(typed)
    \/ opts.auto_implement /\ \E v \in {"verified", "unknown"} : <<body, v>> \in judged

\* Once the writes that matter are over, Cargo.toml and the Rust source are
\* those of this build, whatever earlier builds left half written.
OutputIsOfThisBuild ==
  (exit = 0 \/ pc \in {"metadata", "wasm_config", "tests", "cargo_build"}) =>
    out.cargo = typed /\ out.lib = <<typed, body>>

\* A body that is in place while the contract does not hold for it was not
\* called verified: the Rust code of a build with exit code 0 and a verified
\* contract implements it.  Holds without --auto-implement.
VerifiedBodyImplements ==
  (exit = 0 /\ checked.verdict = "verified" /\ ~touched /\ ~opts.auto_implement /\ body # None) =>
    body \in Implements[typed]

\* A build that is not killed ends: the model is asked at most MaxRetries times.
BuildEnds == pc # "idle" ~> pc = "idle"

-----------------------------------------------------------------------------
(* What the documents say.                                                 *)

\* "When [...] co-located sidecars are missing for result-bearing contracts,
\* synthesize analyzable ensures heuristics in memory".
SynthesizedWithoutSidecar ==
  (pc = "bodies" /\ colocated = None /\ ~touched /\ heuristic(typed) # None) =>
    checked.body = heuristic(typed)

\* "Rust body implements the same IR (not `todo!()`)".
VerifiedIsImplemented ==
  (exit = 0 /\ checked.verdict = "verified" /\ ~touched /\ ~opts.auto_implement) =>
    body = checked.body

\* "re-run `assura build` after contract changes": the tests left in the output
\* directory are about the contract the build was for.
TestsAreCurrent == exit = 0 => out.tests \in {None, typed}
=============================================================================
