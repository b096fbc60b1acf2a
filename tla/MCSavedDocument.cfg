SPECIFICATION SavedSpec
CONSTANTS
  root = root
  main = main
  sub = sub
  Labels = {root, main, sub}
  Root = root
  Father <- MCFather
  Slots <- MCSlots
  Values = {v, w}
  Objects = {1, 2}
  None = None
  Modes = {FALSE}
  Denials = {TRUE}
  Limits <- MCLimits
  Careful = TRUE
  MaxTime = 3
  MaxDepth = 2
INVARIANTS ChangesAreTold
