SPECIFICATION Spec
CONSTANTS
  Panes = {p1, p2}
  Runs = {n1, n2, n3}
  None = None
  Scenes <- MCScenes
CHECK_DEADLOCK FALSE
INVARIANTS NothingIsLeft HandshakeIsSound
PROPERTIES ConnectSettles
