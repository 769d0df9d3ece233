--------------------------- MODULE MCLspDocuments ---------------------------
(***************************************************************************)
(* Two documents; three texts, one that does not parse, one that does not  *)
(* resolve, and one that is right.                                         *)
(***************************************************************************)
EXTENDS LspDocuments, TLC

DocSymmetry == Permutations(Docs)

MCTexts == {"junk", "loose", "good"}
MCStage ==
  [t \in MCTexts |-> CASE t = "junk" -> "no_ast" [] t = "loose" -> "ast" [] OTHER -> "resolved"]
MCDiagnose == [t \in MCTexts |-> IF t = "good" THEN Clean ELSE t]
=============================================================================
