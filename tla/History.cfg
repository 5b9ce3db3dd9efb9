SPECIFICATION Planned
CONSTANTS
  caller = caller
  callee = callee
  answer = answer
  hangup = hangup
  emptied = emptied
  noise = noise
  d1 = d1
  chat = chat
  Null = Null
  Msgs = {answer, hangup, noise}
  Topics <- OneCall
  Workers = {w1, w2}
  MaxDeliver = 2
  BatchSize = 2
  Mortal = {w2}
  MaxStops = 1
  MaxSlow = 1
  Calls = {d1}
  Conversations = {chat}
  Owners = {caller, callee}
  EventOf <- MCEventOf
  StartOf <- MCStartOf
  ConvOf <- MCConvOf
  InvitedTo <- MCInvitedTo
  Lifetime = 6
  Ageing = {d1}
  Droppable = {chat}
  MaxFaults = 2
INVARIANT RowSumsUpEvents
INVARIANT Rebuildable
INVARIANT AnsweredIsDealtWith
PROPERTY OnlyNewsIsShown
PROPERTY EventsAreAnswered
CHECK_DEADLOCK FALSE
