SPECIFICATION Spec
CONSTANTS
  Inits = {i1}
  Chunks = {c1, c2, c3}
  Merges = {m1, m2}
  Users = {u1}
  UploadIds = {x1}
  Versions = {v1}
  MaxChunks = 2
  TTL = 1
  MaxNow = 0
  MaxCrashes = 1
  RenameWorks = TRUE
  Faults = TRUE
  SilentFaults = FALSE
  Monolith = FALSE
  None = None
  Torn = Torn
  Hole = Hole
SYMMETRY Symmetry
CHECK_DEADLOCK FALSE
INVARIANTS
  TypeOK
  CountIsBacked
  MergeFindsChunks
  ReadsInOrder
  TornIsInFlight
  CorruptionNeedsRacingCompletes
PROPERTY
  RegisteredAgainHasCause
