SPECIFICATION Spec
CONSTANTS
  MaxUtt = 3
  JobQueue = 2
  MaxToggles = 1
INVARIANTS
  Accounted
  NoOvertaking
  LockedSpeechIsInert
  StatusNeverStale
PROPERTIES
  KeepsPromise
