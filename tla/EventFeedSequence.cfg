CONSTANTS
  Writers = {w1}
  Streams = {s1}
  StreamSlots = 1
  RefreshMs = 1
  MaxVersion = 2
SPECIFICATION Safety
PROPERTIES SnapshotFramesAdvance
