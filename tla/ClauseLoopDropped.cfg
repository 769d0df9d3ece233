\* Source path given, so ensures over an unconstrained result are skipped.
CONSTANTS
  Files <- MCFiles
  Bodies <- MCBodies
  Names <- MCNames
  IrAttempted = TRUE
  AdvancedResults <- MCAdvanced
SPECIFICATION Spec
INVARIANT EveryVerifiableClauseAnswered
CHECK_DEADLOCK FALSE
