SPECIFICATION Spec
CONSTANTS
  Scenes <- MCScenes
  Windows = {1, 2}
  Names = {"", "a", "b", "g", "h", "h1", "id", "id2", "key", "a b", "a-b"}
  Hosts = {"", "a", "b", "h1", "u"}
  Ports = {0, 1, 22, 23, 3389, 5900}
  Fingerprints = {"", "f1", "f2"}
  Paths = {"", "~/.ssh/id", "~/.ssh/id2", "C:/id", "/tmp/key", "/old/key"}
  BaseOf <- MCBaseOf
  HomeOf <- MCHomeOf
  Dashed <- MCDashed
CHECK_DEADLOCK FALSE
INVARIANTS TablesAreSound ImportsAreKnown ListIsWhole UnlockAnswers
PROPERTIES RequestsDoAsAsked
