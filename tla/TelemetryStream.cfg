CONSTANTS
  p = p
  q = q
  c1 = c1
  c2 = c2
  Healthy = {p}
  Faulty = {q}
  Conns = {c1, c2}
  Slots = 2
  MaxInvalidFrames = 2
  MaxCrashes = 1
  FrameLimit = 3
  SocketBuffer = 4
  InitialTimeout = 2
  FrameTimeout = 3
  ConfirmedWakeup = 1
  RetryWakeup = 2
SPECIFICATION MCSpec
INVARIANTS HealthyNeverPunished FaultyIsBounded
PROPERTIES EventuallyHeard
