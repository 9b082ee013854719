CONSTANTS
  s1 = s1
  s2 = s2
  s3 = s3
  r1 = r1
  Sessions = {s1, s2, s3}
  Readers = {r1}
  DayMs = 1
  RetentionDays = 2
  MaxDiskBytes = 8
  MaxQuerySamples = 2
  SampleBytes = 3
  MaxNow = 2
  MaxCycles = 3
  MaxFaults = 1
SPECIFICATION MCSpec
INVARIANTS DiskUseSound LossBounded AnswersAreFaithful
PROPERTIES NothingGivenUpNeedlessly
