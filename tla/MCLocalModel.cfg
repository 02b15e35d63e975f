SPECIFICATION Spec
CONSTANTS
  a = a
  b = b
  NoToken = NoToken
  Token <- MCToken
  Prompt <- MCPrompt
  Menu <- MCMenu
  Budget = {1, 3}
  NCtx = 6
  Batch = 2
  PerRound = 2
  MaxAsked = 3
INVARIANTS
  CacheInSync
  ReadsOwnText
  PromptHasRoom
  ForkedUnlessTorn
