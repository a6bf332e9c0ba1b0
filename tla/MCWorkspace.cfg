SPECIFICATION Spec
CONSTANTS
  Scenes <- MCScenes
  Jobs = {j1, j2}
  Lines = 2
  Terminals = {1, 2}
CHECK_DEADLOCK FALSE
INVARIANTS LayoutIsSound SidesShowTabs
PROPERTIES PanesAccounted SnippetRuns
