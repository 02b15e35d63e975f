SPECIFICATION Spec
CONSTANTS
  Heard = {h}
  Written = {a, b}
  Daemon = {d1, d2}
  UI = ui
  MaxPasses = 2
  MaxEdits = 1
  MaxFaults = 1
SYMMETRY Symmetry
CHECK_DEADLOCK FALSE
INVARIANTS
  WholeFiles
  SeenTwice
  Effective
  NewsArrives
