CONSTANTS
  f1 = f1
  f2 = f2
  f3 = f3
  f4 = f4
  b1 = b1
  b2 = b2
  Nothing = Nothing
  Files <- FourFiles
  Limits <- TwoLimits
  Batches = {b1, b2}
  Names = {"a", "b", "c", "d"}
  Base <- MCBase
  Numbered <- MCNumbered
  Scenes <- MCScenes
SPECIFICATION FSpec
INVARIANTS SlotAccounting NoLostWakeup
PROPERTIES FifoService BatchesAreSound TransfersEnd
