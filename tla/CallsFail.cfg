SPECIFICATION PlannedFairly
CONSTANTS
  a = a
  b = b
  e = e
  a1 = a1
  a2 = a2
  b1 = b1
  b2 = b2
  e1 = e1
  i1 = i1
  i2 = i2
  chat = chat
  pair = pair
  d1 = d1
  d2 = d2
  None = None
  Owners = {a, b}
  Conns = {a1, b1}
  Late = {}
  Dialers = {a1, b1}
  Calls = {d1, d2}
  Conversations = {pair}
  Instances = {i1, i2}
  Reapers = {i2}
  OwnerOf <- MCOwnerOf
  SessionOf <- OwnSessions
  InstanceOf <- TwoInstances
  People <- Everyone
  MaxParticipants = 3
  MaxFrames = 2
  MaxCloses = 1
  Mortal = {i1}
  MaxCrashes = 1
  MaxRestarts = 1
  MaxFaults = 1
  Plans <- DeathsAndFaults
INVARIANT SweepSparesTheHeld
PROPERTY ClaimsAreFreed
PROPERTY StrandedCallIsReaped
CHECK_DEADLOCK FALSE
