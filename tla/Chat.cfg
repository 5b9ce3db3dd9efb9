SPECIFICATION ChatSpec
CONSTANTS
  c1 = c1
  c2 = c2
  mine1 = mine1
  theirs1 = theirs1
  theirs2 = theirs2
  None = None
  Convs = {c1, c2}
  Mine = {mine1}
  Theirs = {theirs1, theirs2}
  Files = {mine1}
  Home <- MCHome
  MaxDocked = 1
  Budgets <- MCBudgets
INVARIANTS NoDoubles
PROPERTIES NothingVanishes BadgeHeals OpenDotGoesOut
CHECK_DEADLOCK FALSE
