\* The three programs against one server that may stop.  Programs end, so TLC
\* may stop.
SPECIFICATION StartupSpec
INVARIANTS
  NoMissingGlobalUsed
PROPERTIES
  GlobalsMissedOnlyWithoutServer
  StartupEnds
  EndsWithServer
CHECK_DEADLOCK FALSE
