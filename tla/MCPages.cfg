SPECIFICATION CacheSpec
CONSTANTS
  m1 = m1
  m2 = m2
  Reaction = {"like"}
  Req <- TwoMutations
  First = 3
  MaxPost = 4
  Own = {2}
  Take = 2
  MaxMoves = 3
SYMMETRY Sym
INVARIANTS
  OwnChangesShown
  PagesJoin
CHECK_DEADLOCK FALSE
