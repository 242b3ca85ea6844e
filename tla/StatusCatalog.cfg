\* Statuses are added, edited and removed while tickets move and the process restarts.
SPECIFICATION Spec
CONSTANTS
  sHold = sHold
  sNew = sNew
  sResolved = sResolved
  sClosed = sClosed
  sOpen = sOpen
  NewStatus = sNew
  ResolvedStatus = sResolved
  ClosedStatus = sClosed
  Nil = Nil
  Tickets = {t1}
  Statuses = {sNew, sResolved, sClosed, sOpen, sHold}
  Assignees = {a1}
  Names = {"New", "Resolved", "Closed", "Open", "Hold"}
  Workers = {w1, w2}
  Seeded = {sOpen}
  RenameTo = {}
  ReopenTarget = "Open"
  AutoAssignee = Nil
  ReopenWindow = 1
  MaxRequests = 4
  MaxFaults = 0
  MaxRestarts = 1
  MaxDay = 1
  Ops = {"create", "setStatus", "addStatus", "saveStatus", "removeStatus"}
  InitialName <- MCClashingName
SYMMETRY WorkerSymmetry
INVARIANTS StatusRefs RestartFindsSystemStatuses
