\* Two documents, so that messages about one overtake none about the other;
\* four messages open a document, close and reopen it, and ask.
CONSTANTS
  Docs = {d1, d2}
  Texts <- MCTexts
  Stage <- MCStage
  Diagnose <- MCDiagnose
  Clean = "clean"
  None = None
  Concurrency = 3
  MaxChanges = 1
  MaxMessages = 4
SPECIFICATION Spec
INVARIANTS
  SettledIsLatest
  AnswerIsAboutAskedText
SYMMETRY DocSymmetry
CHECK_DEADLOCK FALSE
