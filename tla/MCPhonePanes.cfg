SPECIFICATION PanesSpec
CONSTANTS
  f1 = f1
  f2 = f2
  d1 = d1
  s1 = s1
  s2 = s2
  s3 = s3
  Null = Null
  Phone <- TwoPhonePanes
  Desktop <- OneDesktopPane
  Conns <- ThreeSockets
SYMMETRY Symmetry
CHECK_DEADLOCK FALSE
INVARIANTS DesktopNotReaped ReapsTheAbandoned
