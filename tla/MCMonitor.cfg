SPECIFICATION Spec
CONSTANTS
  MaxTyped = 3
  MaxPressed = 1
  MAX_BREAK = 2
  MAX_WATCH = 2
  HIST_SIZE = 2
  MaxSteps = 2
  Image <- MCImage
  Entered <- MCEntered
  Named <- MCNamed
  Shown <- MCShown
  Watchable <- MCWatchable
INVARIANTS TypeOK InputKept BreaksOnce
PROPERTIES KeepsSession ClearsTheNamed WatchStops EndOfInputEnds
CHECK_DEADLOCK FALSE
