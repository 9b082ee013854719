CONSTANTS
  Writers = {w1, w2}
  Streams = {s1, s2}
  StreamSlots = 1
  RefreshMs = 2
  MaxVersion = 3
SPECIFICATION Spec
INVARIANTS NothingLost IdleStreamIsCurrent
PROPERTIES FramesNeverRegress PublicationsSpaced StreamsCatchUp ImplementsLatestState
