\* Up to three pages of up to two users, three users in all, and three tokens.
CONSTANTS
  Ids = {"u1", "u2", "u3"}
  UserPages <- MCUserPages
  t1 = t1
  t2 = t2
  t3 = t3
  Tokens = {t1, t2, t3}
  PageSize = 2
  MaxPages = 3
  MaxRows = 3
SPECIFICATION Spec
SYMMETRY TokenSymmetry
INVARIANTS TypeOK RecordsAreExact CompleteIsWhole WholeIsComplete NoPageTwice
CHECK_DEADLOCK FALSE
