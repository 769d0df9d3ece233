\* Two contents allow an undo; four saves allow one in each of the windows
\* between hash, check, watcher and wait.
CONSTANTS
  Contents <- MCContents
  Unreadable = Unreadable
  MaxSaves = 4
SPECIFICATION Spec
INVARIANTS
  TypeOK
  NoLostWakeup
  CheckFollowsHash
PROPERTY CatchesUp
CHECK_DEADLOCK FALSE
