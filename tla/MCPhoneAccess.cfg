SPECIFICATION Spec
CONSTANTS
  Servers = {s1, s2}
  Procs = {p1, p2}
  Codes = {c1, c2}
  Devices = {d1, d2}
  Sockets = {w1}
  MaxTries = 2
  None = None
  Scenarios <- MCScenarios
  s1 = s1
  s2 = s2
  p1 = p1
  p2 = p2
  c1 = c1
  c2 = c2
  d1 = d1
  d2 = d2
  w1 = w1
CHECK_DEADLOCK FALSE
INVARIANT AccessIsOwned
PROPERTIES CodesAreOneTime AccessSettles
