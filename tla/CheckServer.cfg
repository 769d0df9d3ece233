\* Two threads would serve both clients at once; with one, each waits for the
\* other.  A channel of two is full in the middle of every stream.
CONSTANTS
  Clients = {c1, c2}
  Workers = 1
  Capacity = 2
  Sources <- MCSources
SPECIFICATION ServerSpec
INVARIANTS
  StreamInOrder
PROPERTIES
  Answered
CHECK_DEADLOCK FALSE
