SPECIFICATION SpecTwice
CONSTANTS
  Ram <- MCRam
  Images <- MCImages
  Shared <- MCShared
  MaxNesting = 2
VIEW View
INVARIANTS TypeOK Transparent FramesIntact HandlersMasked
PROPERTIES KeepsCalls Calculates Disciplined
