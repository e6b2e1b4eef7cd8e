SPECIFICATION WorkMCSpec
CONSTANTS
  x = x
  y = y
  d1 = d1
  d2 = d2
  Texts = {x, y}
  Empty = Empty
  Paths = {d1, d2}
  Streams = {1, 2}
  StreamsIn <- TwoVideos
  Offsets <- ByOne
  MaxMedia = 3
  MaxTracks = 5
  MaxLines = 3
  MaxTime = 3
  MaxJobs = 2
CHECK_DEADLOCK FALSE

INVARIANTS
  LiveUrlIsCurrent
