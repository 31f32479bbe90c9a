SPECIFICATION Spec
CONSTANTS
  BufSize = 9
  MaxFrames = 4
INVARIANTS
  SegmentBounded
  AlternationLosesNothing
PROPERTY
  ReadsInOrder
\* The sender stops after MaxFrames frames.
CHECK_DEADLOCK FALSE
