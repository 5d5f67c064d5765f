\* Up to three surfaces on a display of five rows (which three strips do not
\* divide evenly), frames lower than, as high as and higher than a strip.
SPECIFICATION Spec
CONSTANTS
  Height = 5
  FrameHeights = {1, 3, 6}
  MaxSurfaces = 3
INVARIANTS
  StripsAreDisjoint
  StripsAreSeen
