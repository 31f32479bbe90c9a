SPECIFICATION Spec
CONSTANTS
  BufSize = 9
  MaxFrames = 2
INVARIANT
  EverythingHandedOver
\* The sender stops after MaxFrames frames.
CHECK_DEADLOCK FALSE
