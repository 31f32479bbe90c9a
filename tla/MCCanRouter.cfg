SPECIFICATION FairSpec
CONSTANTS
  Fds = {3, 4, 5}
  MaxFrames = 2
  MaxIn = 2
  SndCap = 1
INVARIANTS
  CanSocketKept
  WholeMessagesOnly
  ForwardedInOrder
PROPERTY
  FramesForwarded
\* Every return of main, and SIGPIPE, ends the process.
CHECK_DEADLOCK FALSE
