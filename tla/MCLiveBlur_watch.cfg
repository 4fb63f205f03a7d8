SPECIFICATION FairSpec
CONSTANTS
  None = None
  Viewers = {v1}
  Watchers = {w1, w2}
  Frames <- Table
  Fixed = {fixed}
  ViewerStale = 2
  DetectionStale = 1
  Throttle = 1
  Tolerance = 1
  MaxChanges = 3
INVARIANT FallsBack
PROPERTIES
  WatchersStop
  WatchedIsShown
CHECK_DEADLOCK FALSE
