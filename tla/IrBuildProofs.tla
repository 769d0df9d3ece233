---------------------------- MODULE IrBuildProofs ---------------------------
(***************************************************************************)
(* For every set of contracts and bodies, any number of edits, builds and  *)
(* attempts of the model: the body in the crate went through verification, *)
(* the files of a finished build are its own, and the body of a verified   *)
(* contract implements it.                                                 *)
(*                                                                         *)
(* The sidecar is read twice, by verification and by code generation.      *)
(* VerifiedWhatIsThere says that until the second read the disk still      *)
(* holds what the first one found, unless the user touched it.             *)
(***************************************************************************)
EXTENDS IrBuild, TLAPS

\* Between the two reads of the sidecar, verification used what the loader
\* still finds.
VerifiedWhatIsThere ==
  (pc = "bodies" /\ ~touched) => checked.body = load_or_synthesize(colocated, generated, typed)

\* Only --auto-implement asks the model.
ModelNeedsOption == pc = "llm" => opts.auto_implement

\* Cargo.toml is of this build once it is written.
CargoIsOfThisBuild == pc \in {"generated_ir", "lib_rs"} => out.cargo = typed

\* Exit code 0 is that of the last build, which is over and compiled something.
ExitMeansIdle == exit = 0 => pc = "idle" /\ typed # None

\* The count of failed attempts starts at 0 and leaves one when the model is asked.
AttemptsLeft ==
  /\ pc \in {"idle", "write_ir", "verify", "bodies"} => attempt = 0
  /\ pc = "llm" => attempt < MaxRetries

\* A verdict verified is about a body that implements the contract.
VerdictIsRight ==
  checked.verdict = "verified" => typed # None /\ checked.body \in Implements[typed]

\* Without --auto-implement, code generation has the body verification had.
SameBodyTwice ==
  (exit = 0 \/ HasBodies) /\ ~touched /\ ~opts.auto_implement /\ body # None =>
    body = checked.body

IInv ==
  /\ TypeOK /\ BodyIsChecked /\ OutputIsOfThisBuild
  /\ VerifiedWhatIsThere /\ ModelNeedsOption /\ CargoIsOfThisBuild
  /\ ExitMeansIdle /\ AttemptsLeft /\ VerdictIsRight /\ SameBodyTwice

-----------------------------------------------------------------------------
(* The loader.                                                             *)

\* What the loader and the heuristics return is a body or None.
LEMMA LoaderType ==
  ASSUME NEW s \in Specs, NEW here, NEW gen
  PROVE  /\ load_ir_file(here) \in Bodies \cup {None}
         /\ heuristic(s) \in Bodies \cup {None}
         /\ load_or_synthesize(here, gen, s) \in Bodies \cup {None}
BY SpecsAssumption DEF load_ir_file, heuristic, load_or_synthesize, resolve_ir_sidecar

\* A sidecar that was to be written holds IR text, if it did before.
LEMMA SidecarType ==
  ASSUME NEW s \in Specs, NEW old \in IrText \cup {None}, NEW text \in SidecarAfterWrite(old, s)
  PROVE  text \in IrText \cup {None}
BY SpecsAssumption DEF SidecarAfterWrite, WriteFails, IrText

\* A sidecar next to the source that loads comes first.
LEMMA ColocatedFirst ==
  ASSUME NEW s, NEW here, NEW gen, load_ir_file(here) # None
  PROVE  load_or_synthesize(here, gen, s) = load_ir_file(here)
BY DEF load_or_synthesize, resolve_ir_sidecar

\* A verdict is one of the three, and verified needs a body that implements.
LEMMA OutcomesRight ==
  ASSUME NEW s \in Specs, NEW b \in Bodies \cup {None}, NEW v \in Outcomes(b, s)
  PROVE  /\ v \in Verdicts
         /\ v = "verified" => b \in Implements[s]
BY DEF Outcomes, Verdicts

-----------------------------------------------------------------------------
(* The steps, in groups that end or go on in the same way.                 *)

\* The initial states satisfy the invariant.
LEMMA InitIInv == Init => IInv
<1> SUFFICES ASSUME Init PROVE IInv
  OBVIOUS
<1>1. out \in Files /\ opts \in [write_ir : BOOLEAN, auto_implement : BOOLEAN]
  BY DEF Init, Files
<1>2. checked \in [body : Bodies \cup {None}, verdict : Verdicts] /\ checked.verdict # "verified"
  BY DEF Init, NotChecked, Verdicts
<1>5. touched \in BOOLEAN
  BY DEF Init
<1>3. TypeOK
  BY <1>1, <1>2, <1>5, BoundsAssumption DEF Init, TypeOK, Steps
<1>4. ~HasBodies /\ exit # 0
  BY SpecsAssumption DEF Init, HasBodies
<1> QED
  BY <1>2, <1>3, <1>4 DEF Init, IInv, BodyIsChecked, OutputIsOfThisBuild, VerifiedWhatIsThere,
     ModelNeedsOption, CargoIsOfThisBuild, ExitMeansIdle, AttemptsLeft, VerdictIsRight, SameBodyTwice

\* A build that ends without success leaves nothing to say, whatever it wrote.
LEMMA FailIInv ==
  ASSUME IInv, NEW code \in {None, 1, 2}, Fail(code),
         source' \in Specs \cup {Broken}, colocated' \in IrText \cup {None},
         generated' \in IrText \cup {None}, out' \in Files,
         opts' \in [write_ir : BOOLEAN, auto_implement : BOOLEAN], edits' \in 0..MaxEdits
  PROVE  IInv'
<1>1. checked' \in [body : Bodies \cup {None}, verdict : Verdicts] /\ checked'.verdict # "verified"
  BY DEF Fail, NotChecked, Verdicts
<1>2. pc' = "idle" /\ exit' # 0 /\ exit' \in {None, 0, 1, 2}
  BY SpecsAssumption DEF Fail
<1>5. touched' \in BOOLEAN
  BY DEF Fail
<1>3. TypeOK'
  BY <1>1, <1>2, <1>5, BoundsAssumption DEF Fail, TypeOK, Steps
<1>4. ~HasBodies'
  BY <1>2 DEF HasBodies
<1> QED
  BY <1>1, <1>2, <1>3, <1>4 DEF Fail, IInv, BodyIsChecked, OutputIsOfThisBuild, VerifiedWhatIsThere,
     ModelNeedsOption, CargoIsOfThisBuild, ExitMeansIdle, AttemptsLeft, VerdictIsRight, SameBodyTwice

\* A step behind code generation that goes on keeps the invariant if it leaves
\* the files right.
LEMMA GoesIInv ==
  ASSUME IInv, NEW step \in Steps \ {"idle", "write_ir", "verify", "bodies", "llm"},
         HasBodies, Goes(step), UNCHANGED <<source, colocated, opts, edits>>,
         generated' \in IrText \cup {None}, out' \in Files,
         step \in {"generated_ir", "lib_rs"} => out'.cargo = typed,
         step \in {"metadata", "wasm_config", "tests", "cargo_build"} =>
           out'.cargo = typed /\ out'.lib = <<typed, body>>
  PROVE  IInv'
<1>1. pc # "idle" /\ exit # 0
  BY DEF HasBodies, IInv, ExitMeansIdle
<1>2. TypeOK'
  BY <1>1 DEF Goes, IInv, TypeOK, Steps
<1>3. HasBodies'
  BY DEF Goes, HasBodies
<1>4. BodyIsChecked' /\ SameBodyTwice'
  BY <1>3 DEF Goes, IInv, BodyIsChecked, SameBodyTwice
<1> QED
  BY <1>1, <1>2, <1>4 DEF Goes, IInv, OutputIsOfThisBuild, VerifiedWhatIsThere,
     ModelNeedsOption, CargoIsOfThisBuild, ExitMeansIdle, AttemptsLeft, VerdictIsRight

\* Every step preserves the invariant.
LEMMA NextIInv == IInv /\ [Next]_vars => IInv'
<1> SUFFICES ASSUME IInv, [Next]_vars PROVE IInv'
  OBVIOUS
<1> USE BoundsAssumption
<1>0. /\ TypeOK
      /\ edits < MaxEdits => edits + 1 \in 0..MaxEdits
  BY DEF IInv, TypeOK
<1>1. ASSUME NEW s \in Specs \cup {Broken}, EditSource(s) PROVE IInv'
  <2>1. TypeOK'
    BY <1>0, <1>1 DEF EditSource, TypeOK
  <2> QED
    BY <1>1, <2>1 DEF EditSource, IInv, BodyIsChecked, OutputIsOfThisBuild, VerifiedWhatIsThere,
       ModelNeedsOption, CargoIsOfThisBuild, ExitMeansIdle, AttemptsLeft, VerdictIsRight,
       SameBodyTwice, HasBodies
<1>2. ASSUME NEW t \in IrText \cup {None}, EditSidecar(t) PROVE IInv'
  <2>1. touched' \in BOOLEAN
    BY <1>0, <1>2 DEF EditSidecar, TypeOK
  <2>2. TypeOK'
    BY <1>0, <1>2, <2>1 DEF EditSidecar, TypeOK
  <2>3. (touched => touched') /\ (pc # "idle" => touched')
    BY <1>2 DEF EditSidecar
  <2> QED
    BY <1>2, <2>2, <2>3 DEF EditSidecar, IInv, BodyIsChecked, OutputIsOfThisBuild,
       VerifiedWhatIsThere, ModelNeedsOption, CargoIsOfThisBuild, ExitMeansIdle, AttemptsLeft,
       VerdictIsRight, SameBodyTwice, HasBodies
<1>3. ASSUME NEW w \in BOOLEAN, NEW a \in BOOLEAN, StartBuild(w, a) PROVE IInv'
  <2>1. /\ opts' \in [write_ir : BOOLEAN, auto_implement : BOOLEAN]
        /\ edits' \in 0..MaxEdits
        /\ UNCHANGED <<source, colocated, generated, out>>
    BY <1>0, <1>3 DEF StartBuild, disk
  <2>2. CASE \E code \in {1, 2} : Fail(code)
    BY <1>0, <2>1, <2>2, FailIInv DEF TypeOK
  <2>3. CASE ~ \E code \in {1, 2} : Fail(code)
    <3>1. /\ pc = "idle" /\ source # Broken
          /\ pc' \in {"write_ir", "verify"}
          /\ typed' = source /\ exit' = None /\ checked' = NotChecked /\ body' = None
          /\ UNCHANGED <<attempt, judged>>
      <4>1. pc' = IF w THEN "write_ir" ELSE "verify"
        BY <1>3, <2>3 DEF StartBuild
      <4> QED
        BY <1>3, <2>3, <4>1 DEF StartBuild
    <3>2. touched' \in BOOLEAN
      BY <1>3, <2>3 DEF StartBuild
    <3>3. checked' \in [body : Bodies \cup {None}, verdict : Verdicts] /\ checked'.verdict # "verified"
      BY <3>1 DEF NotChecked, Verdicts
    <3>4. typed' \in Specs /\ typed' # None /\ exit' # 0 /\ ~HasBodies'
      BY <1>0, <3>1, SpecsAssumption DEF TypeOK, HasBodies
    <3>5. TypeOK'
      BY <1>0, <2>1, <3>1, <3>2, <3>3, <3>4 DEF TypeOK, Steps
    <3> QED
      BY <3>1, <3>3, <3>4, <3>5 DEF IInv, BodyIsChecked, OutputIsOfThisBuild, VerifiedWhatIsThere,
         ModelNeedsOption, CargoIsOfThisBuild, ExitMeansIdle, AttemptsLeft, VerdictIsRight,
         SameBodyTwice
  <2> QED
    BY <2>2, <2>3
<1>4. CASE WriteColocatedIr
  <2>1. colocated' \in IrText \cup {None}
    <3>1. typed \in Specs
      BY <1>0, <1>4 DEF WriteColocatedIr, TypeOK
    <3> QED
      BY <1>0, <1>4, <3>1, SidecarType DEF WriteColocatedIr, TypeOK
  <2>2. TypeOK'
    BY <1>0, <1>4, <2>1 DEF WriteColocatedIr, TypeOK, Steps
  <2> QED
    BY <1>4, <2>2 DEF WriteColocatedIr, IInv, BodyIsChecked, OutputIsOfThisBuild,
       VerifiedWhatIsThere, ModelNeedsOption, CargoIsOfThisBuild, ExitMeansIdle, AttemptsLeft,
       VerdictIsRight, SameBodyTwice, HasBodies
<1>5. CASE VerifyAndPrint
  <2> DEFINE b == load_or_synthesize(colocated, generated, typed)
  <2>1. typed \in Specs /\ b \in Bodies \cup {None}
    BY <1>0, <1>5, LoaderType DEF VerifyAndPrint, TypeOK
  <2>2. PICK v \in Outcomes(b, typed) : checked' = [body |-> b, verdict |-> v]
    BY <1>5 DEF VerifyAndPrint
  <2> HIDE DEF b
  <2>3. v \in Verdicts /\ (v = "verified" => b \in Implements[typed])
    BY <2>1, <2>2, OutcomesRight
  <2>4. TypeOK'
    BY <1>0, <1>5, <2>1, <2>2, <2>3 DEF VerifyAndPrint, TypeOK, Steps
  <2>5. checked'.body = load_or_synthesize(colocated', generated', typed')
    BY <1>5, <2>2 DEF VerifyAndPrint, b
  <2>6. VerdictIsRight'
    BY <1>5, <1>0, <2>2, <2>3 DEF VerifyAndPrint, VerdictIsRight, TypeOK
  <2> QED
    BY <1>5, <2>4, <2>5, <2>6 DEF VerifyAndPrint, IInv, BodyIsChecked, OutputIsOfThisBuild,
       VerifiedWhatIsThere, ModelNeedsOption, CargoIsOfThisBuild, ExitMeansIdle, AttemptsLeft,
       SameBodyTwice, HasBodies
<1>6. CASE RustBodies
  <2>1. /\ typed \in Specs /\ pc = "bodies" /\ exit # 0 /\ attempt = 0
        /\ UNCHANGED <<source, colocated, generated, out, opts, typed, checked, attempt, judged,
                       exit, edits, touched>>
    BY <1>0, <1>6 DEF RustBodies, TypeOK, IInv, ExitMeansIdle, AttemptsLeft
  <2>2. pc' \in {"llm", "out_dir"} /\ (pc' = "llm" => opts.auto_implement)
    BY <1>6 DEF RustBodies
  <2>3. body' \in Bodies \cup {None}
    BY <1>6, <2>1, LoaderType DEF RustBodies
  <2>4. ~touched /\ load_ir_file(colocated) # None => load_ir_file(colocated) = checked.body
    BY <2>1, ColocatedFirst DEF IInv, VerifiedWhatIsThere
  <2>5. BodyIsChecked' /\ SameBodyTwice'
    <3>1. CASE load_ir_file(colocated) = None /\ opts.auto_implement
      BY <1>6, <2>1, <3>1 DEF RustBodies, BodyIsChecked, SameBodyTwice
    <3>2. CASE ~(load_ir_file(colocated) = None /\ opts.auto_implement)
      <4>1. body' = load_ir_file(colocated)
        BY <1>6, <3>2 DEF RustBodies
      <4> QED
        BY <2>1, <2>4, <4>1 DEF BodyIsChecked, SameBodyTwice
    <3> QED
      BY <3>1, <3>2
  <2>6. TypeOK'
    BY <1>0, <2>1, <2>2, <2>3 DEF TypeOK, Steps
  <2> QED
    BY <2>1, <2>2, <2>5, <2>6 DEF IInv, OutputIsOfThisBuild, VerifiedWhatIsThere,
       ModelNeedsOption, CargoIsOfThisBuild, ExitMeansIdle, AttemptsLeft, VerdictIsRight
<1>7. CASE LlmSetupFails
  <2>1. TypeOK'
    BY <1>0, <1>7 DEF LlmSetupFails, TypeOK, Steps, disk
  <2> QED
    BY <1>7, <2>1 DEF LlmSetupFails, disk, IInv, BodyIsChecked, OutputIsOfThisBuild,
       VerifiedWhatIsThere, ModelNeedsOption, CargoIsOfThisBuild, ExitMeansIdle, AttemptsLeft,
       VerdictIsRight, SameBodyTwice, HasBodies
<1>8. ASSUME pc = "llm", TryAgain PROVE /\ attempt' \in 0..MaxRetries
                                        /\ pc' \in {"llm", "out_dir"}
                                        /\ pc' = "llm" => attempt' < MaxRetries
  BY <1>0, <1>8 DEF TryAgain, IInv, AttemptsLeft, TypeOK
<1>9. CASE LlmCallFails
  <2>1. pc = "llm" /\ TryAgain
    BY <1>9 DEF LlmCallFails
  <2>2. TypeOK'
    BY <1>0, <1>8, <1>9, <2>1 DEF LlmCallFails, TypeOK, Steps, disk
  <2> QED
    BY <1>8, <1>9, <2>1, <2>2 DEF LlmCallFails, disk, IInv, BodyIsChecked, OutputIsOfThisBuild,
       VerifiedWhatIsThere, ModelNeedsOption, CargoIsOfThisBuild, ExitMeansIdle, AttemptsLeft,
       VerdictIsRight, SameBodyTwice, HasBodies
<1>10. ASSUME NEW b \in Bodies, LlmAnswers(b) PROVE IInv'
  <2>1. /\ pc = "llm" /\ opts.auto_implement /\ typed \in Specs /\ exit # 0
        /\ UNCHANGED <<source, colocated, generated, out, opts, typed, checked, exit, edits, touched>>
    BY <1>0, <1>10 DEF LlmAnswers, IInv, ModelNeedsOption, ExitMeansIdle, TypeOK, disk
  <2>2. PICK v \in Outcomes(b, typed) \cup {"error"} :
          /\ judged' = judged \cup {<<b, v>>}
          /\ IF accepts(v) THEN body' = b /\ pc' = "out_dir" /\ UNCHANGED attempt
             ELSE TryAgain /\ UNCHANGED body
    BY <1>10 DEF LlmAnswers
  <2>3. v \in Verdicts \cup {"error"}
    BY <2>1, <2>2, OutcomesRight
  <2>4. judged' \subseteq Bodies \X (Verdicts \cup {"error"})
    BY <1>0, <2>2, <2>3 DEF TypeOK
  <2>5. /\ attempt' \in 0..MaxRetries /\ pc' \in {"llm", "out_dir"}
        /\ pc' = "llm" => attempt' < MaxRetries
        /\ body' \in Bodies \cup {None}
    BY <1>0, <1>8, <2>1, <2>2 DEF TypeOK
  <2>6. TypeOK'
    BY <1>0, <2>1, <2>4, <2>5 DEF TypeOK, Steps
  <2>7. BodyIsChecked'
    <3>1. CASE accepts(v)
      <4>1. v \in {"verified", "unknown"} /\ <<body', v>> \in judged'
        BY <2>2, <2>3, <3>1 DEF accepts, Verdicts
      <4> QED
        BY <2>1, <4>1 DEF BodyIsChecked
    <3>2. CASE ~accepts(v)
      <4>1. UNCHANGED body /\ judged \subseteq judged'
        BY <2>2, <3>2
      <4> QED
        BY <2>1, <4>1 DEF IInv, BodyIsChecked, HasBodies
    <3> QED
      BY <3>1, <3>2
  <2> QED
    BY <2>1, <2>5, <2>6, <2>7 DEF IInv, OutputIsOfThisBuild, VerifiedWhatIsThere,
       ModelNeedsOption, CargoIsOfThisBuild, ExitMeansIdle, AttemptsLeft, VerdictIsRight,
       SameBodyTwice
<1>11. CASE CreateOutDir
  BY <1>0, <1>11, GoesIInv, FailIInv DEF CreateOutDir, TypeOK, Steps, HasBodies, disk
<1>12. CASE WriteCargoToml
  <2>1. /\ [out EXCEPT !.cargo = typed] \in Files
        /\ \A t \in OutFails(out.cargo) : [out EXCEPT !.cargo = t] \in Files
        /\ [out EXCEPT !.cargo = typed].cargo = typed
    BY <1>0, <1>12 DEF WriteCargoToml, TypeOK, Files, OutFails
  <2> QED
    BY <1>0, <1>12, <2>1, GoesIInv, FailIInv DEF WriteCargoToml, TypeOK, Steps, HasBodies, disk
<1>13. CASE WriteGeneratedIr
  <2>1. typed \in Specs
    BY <1>0, <1>13 DEF WriteGeneratedIr, TypeOK
  <2>2. generated' \in IrText \cup {None}
    BY <1>0, <1>13, <2>1, SidecarType DEF WriteGeneratedIr, TypeOK
  <2>3. out.cargo = typed
    BY <1>13 DEF WriteGeneratedIr, IInv, CargoIsOfThisBuild
  <2> QED
    BY <1>0, <1>13, <2>2, <2>3, GoesIInv DEF WriteGeneratedIr, TypeOK, Steps, HasBodies
<1>14. CASE WriteLibRs
  <2>1. /\ [out EXCEPT !.lib = <<typed, body>>] \in Files
        /\ \A t \in OutFails(out.lib) : [out EXCEPT !.lib = t] \in Files
        /\ [out EXCEPT !.lib = <<typed, body>>].cargo = typed
        /\ [out EXCEPT !.lib = <<typed, body>>].lib = <<typed, body>>
    BY <1>0, <1>14 DEF WriteLibRs, TypeOK, Files, OutFails, IInv, CargoIsOfThisBuild
  <2> QED
    BY <1>0, <1>14, <2>1, GoesIInv, FailIInv DEF WriteLibRs, TypeOK, Steps, HasBodies, disk
<1>15. CASE WriteMetadata
  BY <1>0, <1>15, GoesIInv DEF WriteMetadata, TypeOK, Steps, HasBodies, disk, IInv, OutputIsOfThisBuild
<1>16. CASE WriteWasmConfig
  BY <1>0, <1>16, GoesIInv, FailIInv
  DEF WriteWasmConfig, TypeOK, Steps, HasBodies, disk, IInv, OutputIsOfThisBuild
<1>17. CASE WriteUnresolvedTests
  <2>1. out.cargo = typed /\ out.lib = <<typed, body>>
    BY <1>17 DEF WriteUnresolvedTests, IInv, OutputIsOfThisBuild
  <2>2. out' \in Files /\ out'.cargo = typed /\ out'.lib = <<typed, body>>
    BY <1>0, <1>17, <2>1 DEF WriteUnresolvedTests, TypeOK, Files, OutFails
  <2> QED
    BY <1>0, <1>17, <2>2, GoesIInv DEF WriteUnresolvedTests, TypeOK, Steps, HasBodies, disk
<1>18. CASE RunCargoBuild
  <2>1. /\ HasBodies /\ ~HasBodies' /\ typed # None /\ checked.verdict = checked'.verdict
        /\ pc' = "idle"
    BY <1>0, <1>18 DEF RunCargoBuild, HasBodies, TypeOK
  <2>2. TypeOK'
    BY <1>0, <1>18 DEF RunCargoBuild, TypeOK, Steps, disk
  <2> QED
    BY <1>18, <2>1, <2>2 DEF RunCargoBuild, disk, IInv, BodyIsChecked, OutputIsOfThisBuild,
       VerifiedWhatIsThere, ModelNeedsOption, CargoIsOfThisBuild, ExitMeansIdle, AttemptsLeft,
       VerdictIsRight, SameBodyTwice
<1>19. CASE Kill
  BY <1>0, <1>19, FailIInv DEF Kill, TypeOK, disk
<1>20. CASE UNCHANGED vars
  BY <1>20 DEF vars, IInv, TypeOK, BodyIsChecked, OutputIsOfThisBuild, VerifiedWhatIsThere,
     ModelNeedsOption, CargoIsOfThisBuild, ExitMeansIdle, AttemptsLeft, VerdictIsRight,
     SameBodyTwice, HasBodies
<1> QED
  BY <1>1, <1>2, <1>3, <1>4, <1>5, <1>6, <1>7, <1>9, <1>10, <1>11, <1>12, <1>13, <1>14, <1>15,
     <1>16, <1>17, <1>18, <1>19, <1>20 DEF Next, Build

-----------------------------------------------------------------------------
\* Every reachable state of the build, its files and its user is well typed;
\* a build that runs has compiled a contract.
THEOREM TypeCorrect == Spec => []TypeOK
<1>1. IInv => TypeOK
  BY DEF IInv
<1> QED
  BY <1>1, InitIInv, NextIInv, PTL DEF Spec

\* The body rust_bodies_from_ir_sidecars puts in the crate was verified, is the
\* heuristic, or was not refuted by verify_ir, unless the user changed the
\* sidecar while the build ran.
THEOREM GeneratedBodiesWereChecked == Spec => []BodyIsChecked
<1>1. IInv => BodyIsChecked
  BY DEF IInv
<1> QED
  BY <1>1, InitIInv, NextIInv, PTL DEF Spec

\* Whatever earlier builds left half written, the files of a build that ends
\* with exit code 0 are its own.
THEOREM OutputsAreOwn == Spec => []OutputIsOfThisBuild
<1>1. IInv => OutputIsOfThisBuild
  BY DEF IInv
<1> QED
  BY <1>1, InitIInv, NextIInv, PTL DEF Spec

\* The Rust body of a contract that run_build reported verified implements it.
THEOREM VerifiedBodiesImplement == Spec => []VerifiedBodyImplements
<1>1. IInv => VerifiedBodyImplements
  BY DEF IInv, SameBodyTwice, VerdictIsRight, VerifiedBodyImplements
<1> QED
  BY <1>1, InitIInv, NextIInv, PTL DEF Spec
=============================================================================
