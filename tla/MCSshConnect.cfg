SPECIFICATION Spec
CONSTANTS
  Attempts = {a1, a2}
  Tabs = {t1, t2}
  Windows = {w1, w2}
  Keys = {k1, k2}
  None = None
  MaxAsks = 1
  Scenes <- MCScenes
  a1 = a1
  a2 = a2
  t1 = t1
  t2 = t2
CHECK_DEADLOCK FALSE
INVARIANTS PromptsAgree
PROPERTIES PinsAsAnswered AttemptSettles
