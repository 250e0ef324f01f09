SPECIFICATION Spec
CONSTANTS
  Anna = Anna
  ANNA = ANNA
  Otto = Otto
  Names = {Anna, ANNA, Otto}
  Collation <- IgnoreCase
  Signups = {u1, u2}
  Signins = {s1, s2}
  Checks = {c1}
  Passwords = {p1, p2}
  TTL = 1
  MaxNow = 2
  MaxCrashes = 1
  Faults = TRUE
  None = None
SYMMETRY Symmetry
INVARIANTS
  TypeOK
  ActsAsOwner
  TokensLast
  OldTokensGone
PROPERTIES
  SignupStands
CHECK_DEADLOCK FALSE
