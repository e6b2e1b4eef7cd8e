SPECIFICATION ServiceMCSpec
CONSTANTS
  None = None
  c1 = c1
  c2 = c2
  c3 = c3
  p1 = p1
  Clips = {c1, c2, c3}
  Plain = {p1}
  MaxSnippets = 2
  MaxFaults = 1
  Nil = Nil
  Missing = Missing
  Broken = Broken
  kot = kot
  Kot = Kot
  dom = dom
  mam = mam
  N = N
  V = V
  Lemmas <- WordLemmas
  KeyOf <- WordKey
  Upos = {N, V}
  Dictionaries <- SmallDictionaries
  Readings <- SomeReadings
  MaxSenses = 2
  MaxForms = 2
  MaxAlternatives = 3
  Recheck = 2
  MaxTime = 5
  MaxAsked = 2
  Nobody = Nobody
  s1 = s1
  s2 = s2
  Processes = {s1, s2}
  q1 = q1
  Calls = {q1}
  Deliveries = {"tty", "socket"}
  Ports = {"fixed", "ephemeral"}
  MaxKills = 1
CHECK_DEADLOCK FALSE
INVARIANTS
  RegistrySound
  ClosedIsClean
  MeaningsHonest
  ServiceWhole
PROPERTIES
  CleanupIsThorough
  CancelledPlainStays
  RunnerWindsDown
