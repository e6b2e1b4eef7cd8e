SPECIFICATION MCSpec
CONSTANTS
  card = card
  state = state
  a = a
  b = b
  RowKeys = {card}
  StateKeys = {state}
  CardOf <- MCCardOf
  Images = {a, b}
  Absent = Absent
  Events = {e1}
  EventCard <- MCEventCard
  Docs = {d1}
  Files <- TwoFiles
  Tracks = {t1}
  OpIds = {o1, o2}
  Payloads = {p}
  ReceiptCap = 1
  MaxRev = 4
  MaxIncarnation = 1
  MaxRequests = 3
SYMMETRY IdSymmetry
INVARIANTS
  TypeOK
  NoOrphanHistory
  FenceExact
  DocumentBasisIsCurrent
  OneReceiptPerRequest
PROPERTIES
  HistoryKept
  RestoreOfWhatWasSeen
  DocumentsKeepOwnedRows
  ImplementsContract
CHECK_DEADLOCK FALSE
