SPECIFICATION LearnSpec
CONSTANTS
  w1 = w1
  w2 = w2
  p1 = p1
  p2 = p2
  m1 = m1
  Words = {w1, w2}
  Places = {p1, p2}
  Approved = {p1}
  Meanings = {m1}
  Blank = Blank
  Empty = Empty
  MaxItems = 2
  MaxOccs = 2
  MaxCards = 2
  MaxActs = 2
  MaxEdits = 1
  MaxNow = 1
  x = x
  y = y
  d1 = d1
  d2 = d2
  Texts = {x, y}
  Paths = {d1, d2}
  Streams = {1, 2}
  StreamsIn <- TwoVideos
  Offsets <- ByOne
  MaxMedia = 3
  MaxTracks = 5
  MaxLines = 3
  MaxTime = 3
  MaxJobs = 2
CHECK_DEADLOCK FALSE
INVARIANTS
  StudySound
  VersionsSound
PROPERTIES
  UndoLosesNothingElse
  GradesWhatIsShown
  EditsOutliveApply
  ExtractedWhereAsked
