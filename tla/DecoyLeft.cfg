SPECIFICATION Spec
SYMMETRY Symmetry
CONSTANTS
  Containers = {c1, c2, c3}
  NoContainer = NoContainer
  Tasks = {t1, t2}
  MaxDecoys = 2
  MinInterval = 2
  MaxTriggers = 3
  MaxTime = 4
  MaxRestarts = 1
INVARIANT NoDecoyIsLeft
CHECK_DEADLOCK FALSE
