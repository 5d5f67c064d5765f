\* One surface, two buffers, two offsets, four frame callbacks: the third and
\* the fourth frame are recycled through both states, and a callback can be
\* overwritten before and after a frame is on display.
SPECIFICATION FairSpec
CONSTANTS
  b1 = b1
  b2 = b2
  NoBuffer = NoBuffer
  Buffers <- MCBuffers
  Offsets <- MCOffsets
  MaxFrames = 4
INVARIANTS
  TypeOK
  StatesAgree
  CallbacksConserved
  PaintedAtOldOffset
PROPERTIES
  AnsweredInOrder
  ImplementsMailbox
  CommittedFrameAnswered
