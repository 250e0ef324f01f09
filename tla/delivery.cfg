SPECIFICATION FairSpec
CONSTANTS
  Uploads = {r1, r2}
  Downloads = {}
  Users = {u1}
  Names = {n1}
  Keys = {k1}
  Blocks = 2
  MaxCrashes = 1
  Faults = TRUE
  SilentFaults = TRUE
  None = None
  Good = Good
  Zero = Zero
  Junk = {j1}
  MaxStops = 1
CHECK_DEADLOCK FALSE
INVARIANTS
  MessagesAreAccountedFor
PROPERTIES
  EveryMessageIsHandled
