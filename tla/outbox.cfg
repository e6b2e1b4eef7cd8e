SPECIFICATION MCSpec
CONSTANTS
  t1 = t1
  t2 = t2
  Tabs <- TwoTabs
  MaxOps = 3
  Cap = 2
  MaxLineage = 1
  MaxProcess = 1
  MaxReloads = 0
  MaxStray = 1
  MaxForgotten = 1
  Kinds <- AllKinds
  Drafts <- SomeDraft
SYMMETRY AnyTab
CHECK_DEADLOCK FALSE
INVARIANTS
  TypeOK
  AcknowledgedIsApplied
  HandedOffOnce
  UndoAfterCapture
PROPERTIES
  OpenDraftKept
  OnlyAllowedMoves
