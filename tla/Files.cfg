SPECIFICATION FairSpec
CONSTANTS
  f1 = f1
  f2 = f2
  f3 = f3
  c1 = c1
  c2 = c2
  None = None
  Files = {f1, f2, f3}
  Convs = {c1, c2}
  Workers = {w1, w2}
  Removals = {r1, r2}
  MaxDeliver = 2
  PageLimit = 2
  Plans <- MCPlans
INVARIANT SentFilesAreWhole
PROPERTY OrphansGo
PROPERTY AnnouncedFilesGo
CHECK_DEADLOCK FALSE
