\* A display of four by three pixels, and frames smaller and larger than it,
\* at all positions around it,
\* the rows without a gap, with one, and overlapping.  A copy ends, so TLC may stop.
SPECIFICATION Spec
CONSTANTS
  Width = 4
  Height = 3
  Sizes = {1, 2, 3, 5}
  Positions <- MCPositions
  Paddings <- MCPaddings
INVARIANTS
  FaultsWhenUnsafe
  CopiesTheClip
CHECK_DEADLOCK FALSE
