\* The calls end in "returned" or "panicked" and take no further step.
CONSTANT Files <- MCFiles
SPECIFICATION Spec
INVARIANTS
  SentIsKept
  ReturnsBestOfBoth
  Z3WinsTies
PROPERTIES
  Ends
  ImplementsHonestReport
CHECK_DEADLOCK FALSE
