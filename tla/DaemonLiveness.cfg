SPECIFICATION Spec
CONSTANTS
  MaxUtt = 2
  JobQueue = 1
  MaxToggles = 1
PROPERTIES
  EveryReleaseEnds
  EveryRecordingEnds
  PromptEnds
