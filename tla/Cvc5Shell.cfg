\* A pipe holds one query or one query's lines; three answers pass the cap, and
\* four queries can block both sides.
CONSTANTS
  Contracts <- MCContracts
  Bodies <- MCBodies
  PipeIn = 1
  PipeOut = 2
  StdoutCap = 5
SPECIFICATION ShellSpec
INVARIANTS
  VerdictIsRight
  OneResultPerClause
  NoChildLeftRunning
PROPERTY Returns
CHECK_DEADLOCK FALSE
