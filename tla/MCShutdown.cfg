\* Two clients that come and go with five objects.  The server ends, so TLC
\* may stop.
SPECIFICATION Spec
CONSTANTS
  c1 = c1
  c2 = c2
  Clients <- TwoClients
  MaxObjects = 5
SYMMETRY Symmetry
INVARIANTS
  TypeOK
  CursorsDangle
  ShutdownTouchesAbandoned
CHECK_DEADLOCK FALSE
