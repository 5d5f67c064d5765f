\* Three X events, so that a close can be read behind another event and in
\* front of one.  The loop is left when the window is closed: TLC may stop.
SPECIFICATION Spec
CONSTANTS
  MaxEvents = 3
INVARIANTS
  NothingStranded
PROPERTIES
  CloseEndsTheLoop
  QuietAfterClose
  CleanUnlessRepaintDue
CHECK_DEADLOCK FALSE
