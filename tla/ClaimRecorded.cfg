\* An assignment overlaps a change of status.
SPECIFICATION Spec
CONSTANTS
  sHold = sHold
  sNew = sNew
  sResolved = sResolved
  sClosed = sClosed
  sOpen = sOpen
  NewStatus = sNew
  ResolvedStatus = sResolved
  ClosedStatus = sClosed
  Nil = Nil
  Tickets = {t1}
  Statuses = {sNew, sResolved, sClosed, sOpen}
  Assignees = {a1}
  Names = {"New", "Resolved", "Closed", "Open", "Hold"}
  Workers = {w1, w2}
  Seeded = {sOpen}
  RenameTo = {}
  ReopenTarget = "Open"
  AutoAssignee = Nil
  ReopenWindow = 1
  MaxRequests = 3
  MaxFaults = 0
  MaxRestarts = 0
  MaxDay = 1
  Ops = {"create", "setStatus", "assign"}
  InitialName <- MCInitialName
PROPERTIES EveryTransitionRecorded
