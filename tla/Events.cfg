SPECIFICATION Spec
CONSTANTS
  None = None
  t1 = t1
  t2 = t2
  Tabs = {t1, t2}
  Events <- MCEvents
  PerMonth = 2
  MonthsAhead = 1
  EventsRetention = 2
  DlqRetention = 2
  MaxDeliver = 2
  Filters = {None, "a"}
  PageSizes = {1, 2}
  CountCap = 2
  Plans <- MCPlans
INVARIANTS WindowIsOpen ReplayedIsStored ListAgrees WalkMissesNothing
CHECK_DEADLOCK FALSE
