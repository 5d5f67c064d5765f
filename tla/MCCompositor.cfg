\* Two clients that come and go, one of them with two bindings, three surfaces,
\* and ids in any order, for shell surfaces too.  CHECK_DEADLOCK is off because
\* a crashed server takes no step.
SPECIFICATION FairSpec
CONSTANTS
  c1 = c1
  c2 = c2
  NoClient = NoClient
  Clients <- TwoClients
  MaxSurfaces = 3
  MaxBindings <- TwoAndOne
  MaxId = 4
INVARIANTS
  HookedObjectsExist
  ListOwnsSurfaces
  NullsByOvertaking
  BreaksOnlyByNulls
PROPERTIES
  NullEntryKills
  ImplementsStack
CHECK_DEADLOCK FALSE
