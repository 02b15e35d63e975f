SPECIFICATION InjectorSpec
CONSTANTS
  Key <- AllKeys
  Char <- Letters
  Width <- Bytewise
  Keymap <- Maps
  Asked <- Commands
  Offer = {"text", "keyboard", "pointer"}
  Prefer <- Preferred
  Chunk = 4
  Attempts = 2
  MaxCommands = 3
  MaxEvents = 1
CHECK_DEADLOCK FALSE
INVARIANTS
  KeysUp
  AnswersTrue
  OnceInOrder
