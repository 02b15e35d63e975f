SPECIFICATION Spec
CONSTANTS
  SrcRate = 3
  DstRate = 2
  Levels = {0, 2}
  MaxFrames = 7
  MaxChunk = 3
  MaxSamples = 4
  Frame = 2
  PerMs = 1
  PerCs = 2
  MinMs = 2
  MaxMs = 3
  Threshold = 1
  Gates = {"silero", "energy"}
  Transcripts <- MCTranscripts
  Marks = {"...", "."}
  Blocklist <- MCBlocklist
INVARIANTS
  FailureToldOnce
PROPERTIES
  SpeechArrivesWhole
  EveryStopEnds
CHECK_DEADLOCK FALSE
