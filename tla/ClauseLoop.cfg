\* Source path given, so ensures over an unconstrained result are skipped.
CONSTANTS
  Files <- MCFiles
  Bodies <- MCBodies
  Names <- MCNames
  IrAttempted = TRUE
  AdvancedResults <- MCAdvanced
SPECIFICATION Spec
INVARIANTS
  TypeOK
  VerdictIsRight
  NoAssertionLeaks
  AnsweredInOrder
  VacuityOnOwnClause
PROPERTY ImplementsHonestReport
CHECK_DEADLOCK FALSE
