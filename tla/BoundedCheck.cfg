SPECIFICATION BmcSpec
CHECK_DEADLOCK FALSE
CONSTANTS
  States <- MCStates
  Start <- MCStart
  Bounds = {1, 2}
  Atoms <- MCAtoms
  Losses <- MCLosses
  DeadEnds = TRUE
  GivesUp = TRUE
INVARIANT SafeCoversBound
INVARIANT CounterexampleIsReal
INVARIANT VerifiedIsUnbounded
