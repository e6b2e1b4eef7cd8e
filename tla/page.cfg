SPECIFICATION PageMCSpec
CONSTANTS
  None = None
  f1 = f1
  f2 = f2
  x = x
  y = y
  n = n
  m = m
  r1 = r1
  r2 = r2
  Files = {f1, f2}
  Contents = {x, y}
  NameOf <- TwoNames
  Importers = {i1}
  Restorers = {r1, r2}
  MaxAssets = 2
  MaxUrls = 2
  Scopes <- LinkScopes
  Absent = Absent
  Items = {a, b}
  Origins = {o1, o2}
  Home = o1
  Typing = Typing
  MaxStarts = 1
  MaxTransports = 2
  MaxForgets = 1
  MaxOps = 2
  MaxRequests = 2
  BootScopes = {"cache", "pairing"}
  Nil = Nil
  Services = {p1, p2}
  c1 = c1
  c2 = c2
  c3 = c3
  v = v
  u = u
  Cues = {c1, c2, c3}
  Words = {1, 2}
  Odd = {2}
  Contexts = {v, u}
  TrackOf <- WordTracks
  Chunks <- WordChunks
  MaxPairs = 2
  MaxAnalyses = 3
  MaxCaptures = 2
  MaxLoads = 2
CHECK_DEADLOCK FALSE
INVARIANTS
  PageTypeOK
  OpenedMediaPlays
  GoneStaysGone
  WordsAreAsked
PROPERTIES
  LegacyKept
  RestStays
