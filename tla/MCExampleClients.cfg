\* Two main programs and one test1 against one server.
SPECIFICATION Spec
CONSTANTS
  c1 = c1
  c2 = c2
  c3 = c3
  NoBuffer = NoBuffer
  buffer = buffer
  Buffers <- TheBuffer
  Clients <- ThreeClients
  Test1 <- OneTest1
INVARIANTS
  FirstFrameIsPainted
PROPERTIES
  NoPaintWhileHeld
  StallsAfterOneFrame
