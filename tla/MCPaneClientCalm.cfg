SPECIFICATION ClientSpec
CONSTANTS
  p1 = p1
  p2 = p2
  w1 = w1
  w2 = w2
  b1 = b1
  b2 = b2
  b3 = b3
  None = None
  Panes <- TwoPanes
  Windows <- TwoWindows
  Backends <- ThreeBackends
  Telnet <- OneTelnet
  Local <- NoPane
  MaxRetries = 2
  Hasty = FALSE
SYMMETRY BackendSymmetry
CHECK_DEADLOCK FALSE
INVARIANTS BooksAgree
