SPECIFICATION FairSpec
CONSTANTS
  None = None
  c1 = c1
  Clips = {c1}
  Plain = {}
  MaxSnippets = 1
  MaxFaults = 0
CHECK_DEADLOCK FALSE
PROPERTIES
  JobsEnd
