SPECIFICATION MCSpec
CONSTANTS
  None = None
  u1 = u1
  u2 = u2
  e1 = e1
  t1 = t1
  o1 = o1
  a = a
  l = l
  Urls = {u1, u2}
  Edits = {e1}
  Tracks = {t1}
  Others = {o1}
  Ops = {a}
  LocalRows = {l}
  File = {l}
  Modes = {"merge", "replace-active"}
  MaxRevisions = 4
  MaxQueue = 2
  Scopes <- KeepScope
CHECK_DEADLOCK FALSE
INVARIANTS
  SavedMeansStored
