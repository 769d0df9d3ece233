\* One parameter, since parameters do not affect each other; six nodes and
\* branches allow uses before, inside and after branches nested in each other.
CONSTANTS
  Vars <- MCVars
  MaxExact = 2
  MaxNodes = 6
SPECIFICATION Spec
INVARIANTS
  AcceptedIsUsedAsGraded
  NoFalseAlarm
CHECK_DEADLOCK FALSE
