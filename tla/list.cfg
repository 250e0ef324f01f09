SPECIFICATION Spec
CONSTANTS
  a = a
  A = A
  b = b
  Names = {a, A, b}
  Collation <- IgnoreCase
  Hashes = {h1}
  Keywords = {"", "a"}
  NamesLike <- LikeA
  Everything = ""
  PageSize = 1
  MaxRows = 2
  MaxPage = 2
  MaxLoads = 2
SYMMETRY Symmetry
INVARIANTS
  TypeOK
  PagingMeetsEachRowOnce
  LastCallIsShown
PROPERTY
  TwinsStayTogether
