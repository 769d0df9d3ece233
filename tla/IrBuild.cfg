\* Four edits and builds: a build, an edit of the contract, a second build
\* and an edit of the sidecar in the middle of it.
CONSTANTS
  Specs <- MCSpecs
  Bodies <- MCBodies
  Implements <- MCImplements
  Heuristic <- MCHeuristicUnparsed
  Unusable = Unusable
  Broken = Broken
  None = None
  MaxRetries = 3
  MaxEdits = 4
SPECIFICATION Spec
INVARIANTS
  BodyIsChecked
  OutputIsOfThisBuild
  VerifiedBodyImplements
PROPERTY BuildEnds
CHECK_DEADLOCK FALSE
