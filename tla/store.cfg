SPECIFICATION StoreSpec
CONSTANTS
  MaxSamples = 3
  Trusted = 3
  NestedSamples = 1
  HistorySeed = 2
  HistoryMax = 2
  UpdateMax = 1
  RingMax = 1
  MaxFaults = 1
  MaxFrames = 3
  Record <- MCRecord
  Absent = Absent
  Torn = Torn
INVARIANTS StoreTypeOK Saveable OldOrNew
PROPERTIES RecordKept HistorySurvives
