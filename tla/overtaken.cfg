SPECIFICATION WholeSpec
CONSTANTS
  t1 = t1
  t2 = t2
  Tabs <- TwoTabs
  MaxOps = 2
  Cap = 2
  MaxLineage = 0
  MaxProcess = 0
  MaxReloads = 0
  MaxStray = 0
  MaxForgotten = 0
  Kinds <- MeaningsOnly
  Drafts <- NoDraft
SYMMETRY AnyTab
CHECK_DEADLOCK FALSE
INVARIANTS
  EditsInOrder
