SPECIFICATION Spec
CONSTANTS
  Panes = {p1, p2}
  Links = {l1, l2}
  None = None
  Local = Local
  Tunnels = {t1, t2}
  Remote = {t2}
  Starts = {s1, s2}
  Recs = {r1, r2}
  Dirs = {d1, d2}
  Runs = {n1, n2}
  Scenes <- MCScenes
CHECK_DEADLOCK FALSE
INVARIANTS TunnelsAgree RecordingsAgree ShownIsTabs
PROPERTIES ShownArrives
