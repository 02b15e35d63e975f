SPECIFICATION Spec
CONSTANTS
  Window = {w1, w2}
  Phrase = {p1}
  None = None
  MaxUtt = 3
INVARIANTS
  RiskyOnlyAsked
  AsNamed
  NextReplyDecides
PROPERTIES
  KeepsConsent
