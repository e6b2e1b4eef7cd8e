SPECIFICATION WholeFairSpec
CONSTANTS
  t1 = t1
  t2 = t2
  Tabs <- OneTab
  MaxOps = 2
  Cap = 2
  MaxLineage = 0
  MaxProcess = 0
  MaxReloads = 1
  MaxStray = 1
  MaxForgotten = 0
  Kinds <- CapturesAndUndos
  Drafts <- NoDraft
CHECK_DEADLOCK FALSE
PROPERTIES
  EveryIntentSettles
