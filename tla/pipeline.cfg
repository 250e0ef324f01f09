SPECIFICATION Spec
CONSTANTS
  Uploads = {r1, r2}
  Downloads = {d1}
  Users = {u1}
  Names = {n1, n2}
  Keys = {k1}
  Blocks = 2
  MaxCrashes = 1
  Faults = TRUE
  SilentFaults = FALSE
  None = None
  Good = Good
  Zero = Zero
  Junk = {}
  MaxStops = 1
SYMMETRY Symmetry
CHECK_DEADLOCK FALSE
INVARIANTS
  TypeOK
  DamageIsUnfinishedPut
  ShortAnswerNeedsRewrite
  AckedMeansBackedUp
PROPERTY
  KeepsPromise
