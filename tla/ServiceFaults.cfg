\* Statements fail, answers are lost and the process restarts.
SPECIFICATION Spec
CONSTANTS
  sHold = sHold
  sNew = sNew
  sResolved = sResolved
  sClosed = sClosed
  sOpen = sOpen
  NewStatus = sNew
  ResolvedStatus = sResolved
  ClosedStatus = sClosed
  Nil = Nil
  Tickets = {t1}
  Statuses = {sNew, sResolved, sClosed, sOpen}
  Assignees = {a1}
  Names = {"New", "Resolved", "Closed", "Open", "Hold"}
  Workers = {w1, w2}
  Seeded = {sOpen}
  RenameTo = {}
  ReopenTarget = "Open"
  AutoAssignee = Nil
  ReopenWindow = 1
  MaxRequests = 3
  MaxFaults = 1
  MaxRestarts = 1
  MaxDay = 1
  Ops = {"create", "setStatus", "assign", "resolve", "close", "reopen", "reply"}
  InitialName <- MCInitialName
SYMMETRY WorkerSymmetry
INVARIANTS EventsAreTrue
PROPERTIES ImplementsVersions
