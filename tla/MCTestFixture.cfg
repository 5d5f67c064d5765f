\* Does every test end?  Deadlock is not the question: a thread may wait.
SPECIFICATION Spec
PROPERTIES
  TestEnds
CHECK_DEADLOCK FALSE
