CONSTANTS
  Runs = {r1, r2}
  Names <- MCNames
  Bodies <- MCBodies
  IrBodies <- MCIrBodies
  Contexts <- MCContexts
  Sources <- MCSources
  Holds <- MCHolds
  Size <- MCSize
SPECIFICATION Spec
SYMMETRY RunSymmetry
INVARIANTS
  TypeOK
  HitWasComputed
  DisabledIsFresh
  UnconstrainedResultNotJudged
