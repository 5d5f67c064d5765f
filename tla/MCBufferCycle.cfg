\* A careful client that asks for a callback with every frame, and a careless one
\* that asks or not, as it likes.  CHECK_DEADLOCK is off because a server that
\* used a freed buffer takes no step.
SPECIFICATION Spec
CONSTANTS
  b1 = b1
  b2 = b2
  c1 = c1
  c2 = c2
  NoBuffer = NoBuffer
  Clients <- TwoClients
  Buffers <- TwoBuffers
  Callbacks <- MCCallbacks
  Careless <- OneCareless
  MaxDestroyed = 1
INVARIANTS
  BufferConserved
  NoTearing
  SilentWithoutCallbacks
  UsesFreedOnlyOfCareless
PROPERTIES
  ReleaseArrives
  CanDrawAgain
  DestroyedOnDisplayBreaks
CHECK_DEADLOCK FALSE
