\* One ticket, every atomic operation, histories of up to five entries.
SPECIFICATION Spec
CONSTANTS
  Tickets = {t1}
  Statuses = {sNew, sResolved, sClosed, sOpen}
  NewStatus = sNew
  ResolvedStatus = sResolved
  ClosedStatus = sClosed
  Assignees = {a1}
  Nil = Nil
  ReopenWindow = 1
  MaxDay = 3
  MaxEntries = 5
CONSTRAINT ShortHistories
INVARIANTS HistoryChain ClosedIsGuarded
