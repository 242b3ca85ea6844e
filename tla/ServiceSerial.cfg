\* One request at a time: the service implements the board, and every request ends.
SPECIFICATION FairSpec
CONSTANTS
  sHold = sHold
  sNew = sNew
  sResolved = sResolved
  sClosed = sClosed
  sOpen = sOpen
  NewStatus = sNew
  ResolvedStatus = sResolved
  ClosedStatus = sClosed
  Nil = Nil
  Tickets = {t1}
  Statuses = {sNew, sResolved, sClosed, sOpen}
  Assignees = {a1}
  Names = {"New", "Resolved", "Closed", "Open", "Hold"}
  Workers = {w1}
  Seeded = {sOpen}
  RenameTo = {}
  ReopenTarget = "Open"
  AutoAssignee = a1
  ReopenWindow = 1
  MaxRequests = 4
  MaxFaults = 0
  MaxRestarts = 0
  MaxDay = 3
  Ops = {"create", "setStatus", "assign", "resolve", "close", "reopen", "reply"}
  InitialName <- MCInitialName
PROPERTIES ImplementsBoard AcceptedReplyReopens RequestsEnd
