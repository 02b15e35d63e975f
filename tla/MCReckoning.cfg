SPECIFICATION Spec
CONSTANTS
  APP_CANDIDATES = 3
  WINDOW_CANDIDATES = 2
  PAYLOAD_SPANS = 2
  DESKTOP_CANDIDATES = 5
  LEARN_CONTEXT = 4
  LEARN_CONTEXT_MAX = 6
  LEARN_SLACK = 3
  GRID_POINTS = 4
  INSERT_VERBS <- Verbs
  ACCEPT_SLACK = 1
CHECK_DEADLOCK FALSE
INVARIANTS
  WordsAsSaid
  FindsWhatWasNamed
  ChordsArePressed
  AnswersDecide
  RetriesEnd
  TextFoundAgain
  AdviceIsSound
