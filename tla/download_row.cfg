SPECIFICATION Spec
CONSTANTS
  Uploads = {r1, r2}
  Downloads = {d1}
  Users = {u1, u2}
  Names = {n1}
  Keys = {k1}
  Blocks = 1
  MaxCrashes = 0
  Faults = TRUE
  SilentFaults = FALSE
  None = None
  Good = Good
  Zero = Zero
  Junk = {}
  MaxStops = 0
SYMMETRY Symmetry
CHECK_DEADLOCK FALSE
INVARIANTS
  AnswersComeFromRows
