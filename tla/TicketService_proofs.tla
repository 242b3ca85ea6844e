------------------------ MODULE TicketService_proofs ------------------------
(***************************************************************************)
(* What holds of the running service for any number of tickets, statuses,  *)
(* concurrent requests, failures and restarts.                             *)
(*                                                                         *)
(* Types alone are not inductive: that a statement finds its ticket, its   *)
(* snapshot and its parameters depends on the way a call reached it.       *)
(* WorkerOK says which statements a call runs through and what the worker  *)
(* holds at each of them.                                                  *)
(***************************************************************************)
EXTENDS TicketService, TLAPS

-----------------------------------------------------------------------------
(* The rows of a ticket.                                                   *)

LEMMA CreatedRowIsRow ==
  ASSUME NEW s \in Statuses
  PROVE  CreatedRow(s) \in Row /\ CreatedRow(s).status = s
  BY DEF Row, CreatedRow, Never

LEMMA AssignedRowIsRow ==
  ASSUME NEW r \in Row, NEW a \in Assignees \cup {Nil}
  PROVE  AssignedRow(r, a) \in Row /\ AssignedRow(r, a).status = r.status
  BY DEF Row, AssignedRow

\* The rows the operations compute are rows, and carry the status they are given.
LEMMA RowsAreRows ==
  ASSUME NEW r \in Row, NEW s \in Statuses, NEW n \in Nat
  PROVE  /\ MovedRow(r, s) \in Row /\ MovedRow(r, s).status = s
         /\ ResolvedRow(r, s, n) \in Row /\ ResolvedRow(r, s, n).status = s
         /\ ClosedRow(r, s, n) \in Row /\ ClosedRow(r, s, n).status = s
         /\ ReopenedRow(r, s) \in Row /\ ReopenedRow(r, s).status = s
         /\ ReplyReopenedRow(r, s) \in Row /\ ReplyReopenedRow(r, s).status = s
  BY DEF Row, MovedRow, ResolvedRow, ClosedRow, ReopenedRow, ReplyReopenedRow, Never

-----------------------------------------------------------------------------
(* The invariant of the types.                                             *)

\* The statements a call of op runs through.
StepsOf(op) ==
  CASE op = "create"             -> {"insert", "record", "announce"}
    [] op = "setStatus"          -> {"get", "check", "write", "record", "announce"}
    [] op = "assign"             -> {"get", "write", "announce"}
    [] op \in {"resolve", "close"} -> {"get", "write", "record", "announce"}
    [] op = "reopen"             -> {"lookup", "get", "write", "record", "announce"}
    [] op = "reply"              -> {"lookup", "get", "check", "reply", "write", "record", "announce"}
    [] op = "addStatus"          -> {"addStatus"}
    [] op = "saveStatus"         -> {"getStatus", "saveStatus"}
    [] op = "removeStatus"       -> {"getStatus", "count", "deleteStatus"}

\* What a call carries, by its operation.
WellFormed(c) ==
  /\ c \in Call
  /\ c.op \in TicketOps => c.ticket \in Tickets
  /\ c.op \in StatusOps \cup {"setStatus"} => c.status \in Statuses
  /\ c.op \in TicketOps \ {"assign"} => c.role \in Roles
  /\ c.op = "addStatus" => c.name \in Names

WorkerOK(w) ==
  /\ pc[w] # "idle" =>
       /\ WellFormed(call[w])
       /\ pc[w] \in StepsOf(call[w].op)
       /\ call[w].op \in TicketOps /\ pc[w] # "insert" => Created(call[w].ticket)
       /\ pc[w] = "saveStatus" => call[w].name \in Names
       /\ followUp[w] # Nil => /\ WellFormed(followUp[w])
                               /\ followUp[w].op = "assign"
                               /\ followUp[w].ticket = call[w].ticket
                               /\ call[w].op \in {"create", "setStatus"}
  /\ pc[w] \in {"check", "reply", "write"} => snap[w] \in Row

WorkersOK == \A w \in Workers : WorkerOK(w)

ServiceInv == TypeOK /\ WorkersOK

-----------------------------------------------------------------------------
(* The two halves of the type invariant: what workers hold, and the rest.  *)

LocalTypes ==
  /\ pc \in [Workers -> Steps]
  /\ call \in [Workers -> Call \cup {Nil}]
  /\ followUp \in [Workers -> Call \cup {Nil}]
  /\ snap \in [Workers -> Row \cup {Nil}]
  /\ target \in [Workers -> Statuses \cup {Nil}]
  /\ outbox \in [Workers -> SUBSET EventTypes]

GlobalTypes ==
  /\ ticket \in [Tickets -> Row \cup {Nil}]
  /\ history \in [Tickets -> Seq(Entry)]
  /\ replies \in [Tickets -> Seq(Roles)]
  /\ life \in [Statuses -> {"unborn", "live", "gone"}]
  /\ nameOf \in [Statuses -> Names]
  /\ up \in BOOLEAN
  /\ sys \in [new : Statuses, resolved : Statuses, closed : Statuses]
  /\ events \in [Tickets -> SUBSET EventTypes]
  /\ versions \in [Tickets -> SUBSET Row]
  /\ now \in 1..MaxDay
  /\ requests \in 0..MaxRequests
  /\ faults \in 0..MaxFaults
  /\ restarts \in 0..MaxRestarts

\* No ticket is ever deleted.
TicketsStay == \A t \in Tickets : ticket[t] # Nil => ticket'[t] # Nil

\* A worker that does not move stays as it should be.
LEMMA StillOK ==
  ASSUME ServiceInv, TicketsStay, NEW v \in Workers,
         pc'[v] = pc[v], call'[v] = call[v], followUp'[v] = followUp[v], snap'[v] = snap[v]
  PROVE  WorkerOK(v)'
  BY DEF ServiceInv, WorkersOK, WorkerOK, WellFormed, TicketsStay, Created

\* A call that ends leaves its worker idle.
LEMMA IdleKeeps ==
  ASSUME ServiceInv, TicketsStay, NEW w \in Workers, Idle(w)
  PROVE  LocalTypes' /\ WorkersOK'
<1>1. LocalTypes'
  BY DEF ServiceInv, TypeOK, LocalTypes, Idle, Steps
<1>2. /\ pc'[w] = "idle" /\ followUp'[w] = Nil
      /\ \A v \in Workers \ {w} : /\ pc'[v] = pc[v] /\ call'[v] = call[v]
                                  /\ followUp'[v] = followUp[v] /\ snap'[v] = snap[v]
  BY DEF ServiceInv, TypeOK, Idle
<1>3. WorkerOK(w)'
  BY <1>2 DEF WorkerOK
<1>4. ASSUME NEW v \in Workers \ {w} PROVE WorkerOK(v)'
  BY <1>2, StillOK
<1> QED BY <1>1, <1>3, <1>4 DEF WorkersOK

\* A call that goes on to its next statement.
LEMMA GotoKeeps ==
  ASSUME ServiceInv, TicketsStay, NEW w \in Workers, NEW step \in Steps \ {"idle", "saveStatus"},
         pc[w] # "idle", Goto(w, step),
         step \in StepsOf(call[w].op),
         call[w].op \in TicketOps /\ step # "insert" => ticket'[call[w].ticket] # Nil,
         snap' \in [Workers -> Row \cup {Nil}],
         \A v \in Workers \ {w} : snap'[v] = snap[v],
         step \in {"check", "reply", "write"} => snap'[w] \in Row,
         target' \in [Workers -> Statuses \cup {Nil}],
         outbox' \in [Workers -> SUBSET EventTypes]
  PROVE  LocalTypes' /\ WorkersOK'
<1>1. LocalTypes'
  BY DEF ServiceInv, TypeOK, LocalTypes, Goto
<1>2. /\ pc'[w] = step /\ call' = call /\ followUp' = followUp
      /\ \A v \in Workers \ {w} : pc'[v] = pc[v]
  BY DEF ServiceInv, TypeOK, Goto
<1>3. WorkerOK(w)'
  BY <1>2 DEF ServiceInv, WorkersOK, WorkerOK, Created
<1>4. ASSUME NEW v \in Workers \ {w} PROVE WorkerOK(v)'
  BY <1>2, StillOK
<1> QED BY <1>1, <1>3, <1>4 DEF WorkersOK

\* A request that arrives, when its call and what may follow are well formed.
LEMMA AcceptKeeps ==
  ASSUME ServiceInv, NEW w \in Workers, NEW c, NEW f, Accept(w, c, f),
         WellFormed(c), c.op \in TicketOps \ {"create"} => Created(c.ticket),
         \/ f = Nil
         \/ /\ WellFormed(f) /\ f.op = "assign" /\ f.ticket = c.ticket
            /\ c.op \in {"create", "setStatus"}
  PROVE  ServiceInv'
<1>1. /\ c \in Call /\ f \in Call \cup {Nil} /\ c.op \in AllOps
  BY DEF WellFormed, Call
<1>2. FirstStep(c.op) \in StepsOf(c.op) /\ FirstStep(c.op) \in Steps
      /\ FirstStep(c.op) \notin {"idle", "saveStatus", "check", "reply", "write"}
      /\ (FirstStep(c.op) = "insert" => c.op = "create")
      /\ (c.op = "create" => FirstStep(c.op) = "insert")
  BY <1>1 DEF FirstStep, StepsOf, Steps, AllOps, TicketOps, StatusOps
<1>3. /\ pc' = [pc EXCEPT ![w] = FirstStep(c.op)]
      /\ call' = [call EXCEPT ![w] = c]
      /\ followUp' = [followUp EXCEPT ![w] = f]
      /\ snap' = snap /\ target' = target /\ outbox' = outbox /\ requests' = requests + 1
      /\ requests < MaxRequests /\ UNCHANGED <<dbVars, up, sys, events, versions, now, faults, restarts>>
  BY DEF Accept
<1>4. TypeOK'
  BY <1>1, <1>2, <1>3, ServiceAssumption DEF ServiceInv, TypeOK, dbVars
<1>5. /\ pc'[w] = FirstStep(c.op) /\ call'[w] = c /\ followUp'[w] = f
      /\ \A v \in Workers \ {w} : /\ pc'[v] = pc[v] /\ call'[v] = call[v]
                                  /\ followUp'[v] = followUp[v] /\ snap'[v] = snap[v]
      /\ ticket' = ticket
  BY <1>3 DEF ServiceInv, TypeOK, dbVars
<1>6. WorkerOK(w)'
  <2>1. WellFormed(call[w])'
    BY <1>5 DEF WellFormed
  <2>2. f # Nil => WellFormed(followUp[w])'
    BY <1>5 DEF WellFormed
  <2> QED BY <2>1, <2>2, <1>2, <1>5 DEF WorkerOK, Created
<1>7. ASSUME NEW v \in Workers \ {w} PROVE WorkerOK(v)'
  BY <1>5, StillOK DEF TicketsStay
<1> QED BY <1>4, <1>6, <1>7 DEF ServiceInv, WorkersOK

\* A call that is over, and the call the handler may make next.
LEMMA ReturnKeeps ==
  ASSUME ServiceInv, TicketsStay, NEW w \in Workers, pc[w] = "announce", Return(w)
  PROVE  LocalTypes' /\ WorkersOK'
<1>1. CASE followUp[w] = Nil
  BY <1>1, IdleKeeps DEF Return
<1>2. CASE followUp[w] # Nil
  <2>1. /\ WellFormed(followUp[w]) /\ followUp[w].op = "assign" /\ followUp[w] \in Call
        /\ ticket'[followUp[w].ticket] # Nil
    <3>1. /\ followUp[w].op = "assign" /\ WellFormed(followUp[w])
          /\ followUp[w].ticket = call[w].ticket
          /\ call[w].op \in TicketOps /\ WellFormed(call[w]) /\ Created(call[w].ticket)
      BY <1>2 DEF ServiceInv, WorkersOK, WorkerOK, TicketOps
    <3> QED BY <3>1 DEF TicketsStay, Created, WellFormed
  <2>2. FirstStep("assign") = "get" /\ "get" \in StepsOf("assign") /\ "get" \in Steps
    BY DEF FirstStep, StepsOf, Steps
  <2>3. /\ pc' = [pc EXCEPT ![w] = "get"] /\ call' = [call EXCEPT ![w] = followUp[w]]
        /\ followUp' = [followUp EXCEPT ![w] = Nil]
        /\ snap' = [snap EXCEPT ![w] = Nil] /\ target' = [target EXCEPT ![w] = Nil]
        /\ outbox' = [outbox EXCEPT ![w] = {}]
    BY <1>2, <2>1, <2>2 DEF Return
  <2>4. LocalTypes'
    BY <2>1, <2>2, <2>3 DEF ServiceInv, TypeOK, LocalTypes
  <2>5. /\ pc'[w] = "get" /\ call'[w] = followUp[w] /\ followUp'[w] = Nil
        /\ \A v \in Workers \ {w} : /\ pc'[v] = pc[v] /\ call'[v] = call[v]
                                    /\ followUp'[v] = followUp[v] /\ snap'[v] = snap[v]
    BY <2>3 DEF ServiceInv, TypeOK
  <2>6. WorkerOK(w)'
    <3>1. WellFormed(call[w])'
      BY <2>1, <2>5 DEF WellFormed
    <3> QED BY <3>1, <2>1, <2>2, <2>5 DEF WorkerOK, Created
  <2>7. ASSUME NEW v \in Workers \ {w} PROVE WorkerOK(v)'
    BY <2>5, StillOK
  <2> QED BY <2>4, <2>6, <2>7 DEF WorkersOK
<1> QED BY <1>1, <1>2

-----------------------------------------------------------------------------
(* The statements, one by one.                                             *)

\* Facts of a worker in the middle of a call.
LEMMA Busy ==
  ASSUME ServiceInv, NEW w \in Workers, pc[w] # "idle"
  PROVE  /\ call[w] \in Call /\ WellFormed(call[w]) /\ pc[w] \in StepsOf(call[w].op)
         /\ call[w].op \in AllOps
         /\ call[w].op \in TicketOps => call[w].ticket \in Tickets
         /\ call[w].op \in TicketOps /\ pc[w] # "insert" => ticket[call[w].ticket] \in Row
         /\ pc[w] \in {"check", "reply", "write"} => snap[w] \in Row
         /\ snap[w] \in Row \cup {Nil} /\ target[w] \in Statuses \cup {Nil}
         /\ outbox[w] \subseteq EventTypes /\ now \in Nat
<1>1. /\ WellFormed(call[w]) /\ pc[w] \in StepsOf(call[w].op)
      /\ call[w].op \in TicketOps /\ pc[w] # "insert" => Created(call[w].ticket)
      /\ pc[w] \in {"check", "reply", "write"} => snap[w] \in Row
  BY DEF ServiceInv, WorkersOK, WorkerOK
<1>2. call[w] \in Call /\ call[w].op \in AllOps
      /\ (call[w].op \in TicketOps => call[w].ticket \in Tickets)
  BY <1>1 DEF WellFormed, Call
<1>3. /\ snap[w] \in Row \cup {Nil} /\ target[w] \in Statuses \cup {Nil}
      /\ outbox[w] \subseteq EventTypes /\ now \in Nat
      /\ \A t \in Tickets : ticket[t] \in Row \cup {Nil}
  BY ServiceAssumption DEF ServiceInv, TypeOK
<1> QED BY <1>1, <1>2, <1>3 DEF Created

\* Which operations run a statement.
LEMMA WhoRuns ==
  ASSUME ServiceInv, NEW w \in Workers
  PROVE  /\ pc[w] = "insert" => call[w].op = "create"
         /\ pc[w] = "lookup" => call[w].op \in {"reopen", "reply"}
         /\ pc[w] = "get" => call[w].op \in TicketOps \ {"create"}
         /\ pc[w] = "check" => call[w].op \in {"setStatus", "reply"}
         /\ pc[w] = "reply" => call[w].op = "reply"
         /\ pc[w] = "write" => call[w].op \in TicketOps \ {"create"}
         /\ pc[w] = "record" => call[w].op \in TicketOps \ {"assign"}
         /\ pc[w] = "announce" => call[w].op \in TicketOps
         /\ pc[w] = "addStatus" => call[w].op = "addStatus"
         /\ pc[w] = "getStatus" => call[w].op \in {"saveStatus", "removeStatus"}
         /\ pc[w] = "saveStatus" => call[w].op = "saveStatus"
         /\ pc[w] \in {"count", "deleteStatus"} => call[w].op = "removeStatus"
<1>1. CASE pc[w] = "idle"
  BY <1>1
<1>2. CASE pc[w] # "idle"
  BY <1>2, Busy DEF StepsOf, AllOps, TicketOps, StatusOps
<1> QED BY <1>1, <1>2

LEMMA LiveStatus == Live \subseteq Statuses /\ Nil \notin Live
  BY NilAssumption DEF Live

LEMMA NamedStatus == \A name : StatusNamed(name) \in Live \cup {Nil}
  BY DEF StatusNamed

\* The row an operation writes is a row whenever the database accepts its status.
LEMMA RowOfIsRow ==
  ASSUME ServiceInv, NEW w \in Workers, pc[w] = "write", ForeignKeyHolds(RowOf(w).status)
  PROVE  /\ RowOf(w) \in Row /\ RowOf(w) # Nil
         /\ call[w].op # "assign" => RowOf(w).status = target[w] /\ target[w] \in Live
         /\ call[w].op = "assign" => RowOf(w).status = snap[w].status
<1>1. /\ snap[w] \in Row /\ target[w] \in Statuses \cup {Nil} /\ now \in Nat
      /\ call[w].op \in TicketOps \ {"create"} /\ call[w] \in Call
      /\ RowOf(w).status \in Live
  BY Busy, WhoRuns DEF ForeignKeyHolds
<1>2. CASE call[w].op = "assign"
  <2>1. RowOf(w) = AssignedRow(snap[w], call[w].assignee) /\ call[w].assignee \in Assignees \cup {Nil}
    BY <1>1, <1>2 DEF RowOf, Call
  <2> QED BY <2>1, <1>1, <1>2, AssignedRowIsRow, NilAssumption
<1>3. CASE call[w].op # "assign"
  <2>1. RowOf(w).status = target[w]
    <3>1. /\ MovedRow(snap[w], target[w]).status = target[w]
          /\ ResolvedRow(snap[w], target[w], now).status = target[w]
          /\ ClosedRow(snap[w], target[w], now).status = target[w]
          /\ ReopenedRow(snap[w], target[w]).status = target[w]
          /\ ReplyReopenedRow(snap[w], target[w]).status = target[w]
      BY <1>1 DEF Row, MovedRow, ResolvedRow, ClosedRow, ReopenedRow, ReplyReopenedRow
    <3> HIDE DEF Row
    <3> QED BY <3>1, <1>1, <1>3 DEF RowOf, TicketOps
  <2>2. target[w] \in Statuses
    BY <2>1, <1>1, LiveStatus
  <2>3. RowOf(w) \in Row
    BY <2>2, <1>1, <1>3, RowsAreRows DEF RowOf, TicketOps
  <2> QED BY <2>1, <2>3, <1>1, <1>3, NilAssumption
<1> QED BY <1>2, <1>3

\* The entry a worker inserts is an entry whenever the database accepts it.
LEMMA EntryOfIsEntry ==
  ASSUME ServiceInv, NEW w \in Workers, pc[w] = "record", ForeignKeyHolds(EntryOf(w).to)
  PROVE  EntryOf(w) \in Entry
<1>1. /\ snap[w] \in Row \cup {Nil} /\ target[w] \in Statuses
      /\ call[w].op \in TicketOps \ {"assign"} /\ call[w].role \in Roles
  BY Busy, WhoRuns, LiveStatus DEF ForeignKeyHolds, EntryOf, WellFormed
<1>2. snap[w] # Nil => snap[w].status \in Statuses
  BY <1>1 DEF Row
<1> QED BY <1>1, <1>2 DEF EntryOf, Entry, Actors

LEMMA WriteFailsKeeps ==
  ASSUME ServiceInv, TicketsStay, NEW w \in Workers, pc[w] = "write", WriteFails(w)
  PROVE  LocalTypes' /\ WorkersOK'
<1>1. CASE call[w].op = "reply"
  <2>1. /\ Goto(w, "record") /\ snap' = snap /\ target' = target /\ outbox' = outbox
    BY <1>1 DEF WriteFails
  <2>2. /\ "record" \in Steps \ {"idle", "saveStatus"} /\ "record" \in StepsOf(call[w].op)
        /\ ticket'[call[w].ticket] # Nil
    BY <1>1, Busy, NilAssumption DEF Steps, StepsOf, TicketsStay, TicketOps
  <2>3. /\ snap \in [Workers -> Row \cup {Nil}] /\ target \in [Workers -> Statuses \cup {Nil}]
        /\ outbox \in [Workers -> SUBSET EventTypes]
    BY DEF ServiceInv, TypeOK
  <2> QED BY <2>1, <2>2, <2>3, GotoKeeps
<1>2. CASE call[w].op # "reply"
  BY <1>2, IdleKeeps DEF WriteFails
<1> QED BY <1>1, <1>2

LEMMA InsertTicketKeeps ==
  ASSUME ServiceInv, NEW w \in Workers, InsertTicket(w)
  PROVE  ServiceInv'
<1> DEFINE t == call[w].ticket
           row == CreatedRow(sys.new)
<1>1. /\ pc[w] = "insert" /\ call[w].op = "create" /\ t \in Tickets /\ sys.new \in Statuses
      /\ "record" \in StepsOf(call[w].op) /\ "record" \in Steps \ {"idle", "saveStatus"}
  BY Busy, WhoRuns DEF InsertTicket, TicketOps, StepsOf, Steps, ServiceInv, TypeOK
<1>2. row \in Row /\ row # Nil
  BY <1>1, CreatedRowIsRow, NilAssumption
<1>3. CASE ForeignKeyHolds(row.status)
  <2>1. /\ ticket' = [ticket EXCEPT ![t] = row]
        /\ versions' = [versions EXCEPT ![t] = @ \cup {row}]
        /\ target' = [target EXCEPT ![w] = sys.new]
        /\ outbox' = [outbox EXCEPT ![w] = {"created"}]
        /\ Goto(w, "record") /\ snap' = snap
        /\ UNCHANGED <<history, replies, life, nameOf, up, sys, events, now, bounds>>
    BY <1>3 DEF InsertTicket
  <2>2. row.status \in Statuses
    BY <1>2 DEF Row
  <2>3. GlobalTypes'
    BY <1>1, <1>2, <2>1, <2>2 DEF ServiceInv, TypeOK, GlobalTypes, bounds
  <2>4. TicketsStay /\ ticket'[t] # Nil
    BY <1>1, <1>2, <2>1 DEF TicketsStay, ServiceInv, TypeOK
  <2>5. /\ snap' \in [Workers -> Row \cup {Nil}]
        /\ target' \in [Workers -> Statuses \cup {Nil}]
        /\ outbox' \in [Workers -> SUBSET EventTypes]
    BY <1>1, <2>1 DEF ServiceInv, TypeOK, EventTypes
  <2>6. LocalTypes' /\ WorkersOK'
    BY <1>1, <2>1, <2>4, <2>5, GotoKeeps
  <2> QED BY <2>3, <2>6 DEF ServiceInv, TypeOK, LocalTypes, GlobalTypes
<1>4. CASE ~ForeignKeyHolds(row.status)
  <2>1. /\ Idle(w) /\ ticket' = ticket /\ versions' = versions
        /\ UNCHANGED <<history, replies, life, nameOf, up, sys, events, now, bounds>>
    BY <1>4 DEF InsertTicket
  <2>2. GlobalTypes' /\ TicketsStay
    BY <2>1 DEF ServiceInv, TypeOK, GlobalTypes, TicketsStay, bounds
  <2>3. LocalTypes' /\ WorkersOK'
    BY <2>1, <2>2, IdleKeeps
  <2> QED BY <2>2, <2>3 DEF ServiceInv, TypeOK, LocalTypes, GlobalTypes
<1> QED BY <1>3, <1>4

LEMMA LookupTargetKeeps ==
  ASSUME ServiceInv, NEW w \in Workers, LookupTarget(w)
  PROVE  ServiceInv'
<1>1. /\ pc[w] = "lookup" /\ Goto(w, "get")
      /\ target' = [target EXCEPT ![w] = StatusNamed(ReopenTarget)]
      /\ UNCHANGED <<dbVars, up, sys, snap, outbox, events, versions, now, bounds>>
  BY DEF LookupTarget
<1>2. /\ "get" \in StepsOf(call[w].op) /\ "get" \in Steps \ {"idle", "saveStatus"}
      /\ call[w].op \in TicketOps /\ ticket[call[w].ticket] # Nil
      /\ StatusNamed(ReopenTarget) \in Statuses \cup {Nil}
  BY <1>1, Busy, WhoRuns, NamedStatus, LiveStatus, NilAssumption DEF StepsOf, Steps, TicketOps
<1>3. GlobalTypes' /\ TicketsStay /\ ticket' = ticket
  BY <1>1 DEF ServiceInv, TypeOK, GlobalTypes, TicketsStay, bounds, dbVars
<1>4. /\ snap' \in [Workers -> Row \cup {Nil}] /\ snap' = snap
      /\ target' \in [Workers -> Statuses \cup {Nil}]
      /\ outbox' \in [Workers -> SUBSET EventTypes]
  BY <1>1, <1>2 DEF ServiceInv, TypeOK
<1>5. LocalTypes' /\ WorkersOK'
  BY <1>1, <1>2, <1>3, <1>4, GotoKeeps
<1> QED BY <1>3, <1>5 DEF ServiceInv, TypeOK, LocalTypes, GlobalTypes

LEMMA GetKeeps ==
  ASSUME ServiceInv, NEW w \in Workers, Get(w)
  PROVE  ServiceInv'
<1> DEFINE c == call[w]
           row == ticket[c.ticket]
<1>1. /\ pc[w] = "get" /\ c.op \in TicketOps \ {"create"} /\ row \in Row /\ row # Nil
      /\ WellFormed(c) /\ target[w] \in Statuses \cup {Nil}
  BY Busy, WhoRuns, NilAssumption DEF Get
<1>2. UNCHANGED <<dbVars, up, sys, events, versions, now, bounds>>
  BY DEF Get
<1>3. GlobalTypes' /\ TicketsStay /\ ticket' = ticket
  BY <1>2 DEF ServiceInv, TypeOK, GlobalTypes, TicketsStay, bounds, dbVars
<1>4. CASE c.op = "reopen" => row.status = sys.closed
  <2> DEFINE step == IF c.op \in {"setStatus", "reply"} THEN "check" ELSE "write"
  <2>1. /\ snap' = [snap EXCEPT ![w] = row]
        /\ target' = [target EXCEPT ![w] = TargetOf(w)]
        /\ outbox' = [outbox EXCEPT ![w] = {EventOf(c.op)}]
        /\ Goto(w, step)
    BY <1>4 DEF Get
  <2>2. TargetOf(w) \in Statuses \cup {Nil}
    BY <1>1 DEF TargetOf, ServiceInv, TypeOK, WellFormed, TicketOps
  <2>3. EventOf(c.op) \in EventTypes
    BY <1>1 DEF EventOf, EventTypes, TicketOps
  <2>4. step \in StepsOf(c.op) /\ step \in Steps \ {"idle", "saveStatus"} /\ step # "insert"
    BY <1>1 DEF StepsOf, Steps, TicketOps
  <2>5. /\ snap' \in [Workers -> Row \cup {Nil}] /\ snap'[w] = row
        /\ \A v \in Workers \ {w} : snap'[v] = snap[v]
        /\ target' \in [Workers -> Statuses \cup {Nil}]
        /\ outbox' \in [Workers -> SUBSET EventTypes]
    BY <1>1, <2>1, <2>2, <2>3 DEF ServiceInv, TypeOK
  <2> HIDE DEF step
  <2>6. LocalTypes' /\ WorkersOK'
    BY <1>1, <1>3, <2>1, <2>4, <2>5, GotoKeeps
  <2> QED BY <1>3, <2>6 DEF ServiceInv, TypeOK, LocalTypes, GlobalTypes
<1>5. CASE ~(c.op = "reopen" => row.status = sys.closed)
  <2>1. Idle(w)
    BY <1>5 DEF Get
  <2>2. LocalTypes' /\ WorkersOK'
    BY <2>1, <1>3, IdleKeeps
  <2> QED BY <1>3, <2>2 DEF ServiceInv, TypeOK, LocalTypes, GlobalTypes
<1> QED BY <1>4, <1>5

LEMMA CheckTransitionKeeps ==
  ASSUME ServiceInv, NEW w \in Workers, CheckTransition(w)
  PROVE  ServiceInv'
<1>1. /\ pc[w] = "check" /\ call[w].op = "setStatus" /\ snap[w] \in Row
      /\ ticket[call[w].ticket] # Nil
  BY Busy, NilAssumption DEF CheckTransition, TicketOps
<1>2. GlobalTypes' /\ TicketsStay /\ ticket' = ticket
  BY DEF CheckTransition, ServiceInv, TypeOK, GlobalTypes, TicketsStay, bounds, dbVars
<1>3. CASE Goto(w, "write") /\ UNCHANGED <<snap, target, outbox>>
  <2>1. "write" \in StepsOf(call[w].op) /\ "write" \in Steps \ {"idle", "saveStatus"}
    BY <1>1 DEF StepsOf, Steps
  <2>2. /\ snap' = snap /\ snap' \in [Workers -> Row \cup {Nil}]
        /\ target' \in [Workers -> Statuses \cup {Nil}]
        /\ outbox' \in [Workers -> SUBSET EventTypes]
    BY <1>3 DEF ServiceInv, TypeOK
  <2> QED BY <1>1, <1>2, <1>3, <2>1, <2>2, GotoKeeps
         DEF ServiceInv, TypeOK, LocalTypes, GlobalTypes
<1>4. CASE Idle(w)
  BY <1>2, <1>4, IdleKeeps DEF ServiceInv, TypeOK, LocalTypes, GlobalTypes
<1> QED BY <1>3, <1>4 DEF CheckTransition

LEMMA CheckReplyKeeps ==
  ASSUME ServiceInv, NEW w \in Workers, CheckReply(w)
  PROVE  ServiceInv'
<1>1. /\ pc[w] = "check" /\ call[w].op = "reply" /\ snap[w] \in Row
      /\ ticket[call[w].ticket] # Nil
  BY Busy, NilAssumption DEF CheckReply, TicketOps
<1>2. GlobalTypes' /\ TicketsStay /\ ticket' = ticket
  BY DEF CheckReply, ServiceInv, TypeOK, GlobalTypes, TicketsStay, bounds, dbVars
<1>3. CASE Idle(w)
  BY <1>2, <1>3, IdleKeeps DEF ServiceInv, TypeOK, LocalTypes, GlobalTypes
<1>4. CASE ~Idle(w)
  <2>1. /\ \E more \in {{}, {"reopened"}} : outbox' = [outbox EXCEPT ![w] = @ \cup more]
        /\ Goto(w, "reply") /\ UNCHANGED <<snap, target>>
    BY <1>4 DEF CheckReply
  <2>2. "reply" \in StepsOf(call[w].op) /\ "reply" \in Steps \ {"idle", "saveStatus"}
    BY <1>1 DEF StepsOf, Steps
  <2>3. /\ snap' = snap /\ snap' \in [Workers -> Row \cup {Nil}]
        /\ target' \in [Workers -> Statuses \cup {Nil}]
        /\ outbox' \in [Workers -> SUBSET EventTypes]
    BY <2>1 DEF ServiceInv, TypeOK, EventTypes
  <2> QED BY <1>1, <1>2, <2>1, <2>2, <2>3, GotoKeeps
         DEF ServiceInv, TypeOK, LocalTypes, GlobalTypes
<1> QED BY <1>3, <1>4

LEMMA InsertReplyKeeps ==
  ASSUME ServiceInv, NEW w \in Workers, InsertReply(w)
  PROVE  ServiceInv'
<1> DEFINE step == IF "reopened" \in outbox[w] THEN "write" ELSE "announce"
<1>1. /\ pc[w] = "reply" /\ call[w].op = "reply" /\ snap[w] \in Row
      /\ call[w].ticket \in Tickets /\ call[w].role \in Roles
      /\ ticket[call[w].ticket] # Nil
  BY Busy, WhoRuns, NilAssumption DEF InsertReply, TicketOps, WellFormed
<1>2. /\ replies' = [replies EXCEPT ![call[w].ticket] = Append(@, call[w].role)]
      /\ Goto(w, step)
      /\ UNCHANGED <<ticket, history, life, nameOf, up, sys, snap, target, outbox,
                     events, versions, now, bounds>>
  BY DEF InsertReply
<1>3. GlobalTypes' /\ TicketsStay /\ ticket' = ticket
  <2>1. replies' \in [Tickets -> Seq(Roles)]
    BY <1>1, <1>2 DEF ServiceInv, TypeOK
  <2> QED BY <2>1, <1>2 DEF ServiceInv, TypeOK, GlobalTypes, TicketsStay, bounds
<1>4. step \in StepsOf(call[w].op) /\ step \in Steps \ {"idle", "saveStatus"}
  BY <1>1 DEF StepsOf, Steps
<1>5. /\ snap' = snap /\ snap' \in [Workers -> Row \cup {Nil}]
      /\ target' \in [Workers -> Statuses \cup {Nil}]
      /\ outbox' \in [Workers -> SUBSET EventTypes]
  BY <1>2 DEF ServiceInv, TypeOK
<1> HIDE DEF step
<1> QED BY <1>1, <1>2, <1>3, <1>4, <1>5, GotoKeeps
       DEF ServiceInv, TypeOK, LocalTypes, GlobalTypes

LEMMA WriteKeeps ==
  ASSUME ServiceInv, NEW w \in Workers, Write(w)
  PROVE  ServiceInv'
<1> DEFINE t == call[w].ticket
           row == RowOf(w)
           step == IF call[w].op = "assign" THEN "announce" ELSE "record"
<1>1. /\ pc[w] = "write" /\ snap[w] \in Row /\ t \in Tickets
      /\ call[w].op \in TicketOps \ {"create"}
      /\ UNCHANGED <<history, replies, life, nameOf, up, sys, events, now, bounds>>
  BY Busy, WhoRuns DEF Write
<1>2. CASE ForeignKeyHolds(row.status)
  <2>1. /\ ticket' = [ticket EXCEPT ![t] = row]
        /\ versions' = [versions EXCEPT ![t] = @ \cup {row}]
        /\ Goto(w, step) /\ UNCHANGED <<snap, target, outbox>>
    BY <1>2 DEF Write
  <2>2. row \in Row /\ row # Nil /\ row.status \in Statuses
    BY <1>1, <1>2, RowOfIsRow DEF Row
  <2> HIDE DEF row
  <2>3. GlobalTypes'
    BY <1>1, <2>1, <2>2 DEF ServiceInv, TypeOK, GlobalTypes, bounds
  <2>4. TicketsStay /\ ticket'[t] # Nil
    BY <1>1, <2>1, <2>2 DEF TicketsStay, ServiceInv, TypeOK
  <2>5. step \in StepsOf(call[w].op) /\ step \in Steps \ {"idle", "saveStatus"}
    BY <1>1 DEF StepsOf, Steps, TicketOps
  <2>6. /\ snap' = snap /\ snap' \in [Workers -> Row \cup {Nil}]
        /\ target' \in [Workers -> Statuses \cup {Nil}]
        /\ outbox' \in [Workers -> SUBSET EventTypes]
    BY <2>1 DEF ServiceInv, TypeOK
  <2> HIDE DEF step
  <2> QED BY <1>1, <2>1, <2>3, <2>4, <2>5, <2>6, GotoKeeps
         DEF ServiceInv, TypeOK, LocalTypes, GlobalTypes
<1>3. CASE ~ForeignKeyHolds(row.status)
  <2>1. WriteFails(w) /\ ticket' = ticket /\ versions' = versions
    BY <1>3 DEF Write
  <2>2. GlobalTypes' /\ TicketsStay
    BY <1>1, <2>1 DEF ServiceInv, TypeOK, GlobalTypes, TicketsStay, bounds
  <2> QED BY <1>1, <2>1, <2>2, WriteFailsKeeps DEF ServiceInv, TypeOK, LocalTypes, GlobalTypes
<1> QED BY <1>2, <1>3

LEMMA RecordKeeps ==
  ASSUME ServiceInv, NEW w \in Workers, Record(w)
  PROVE  ServiceInv'
<1> DEFINE t == call[w].ticket
           e == EntryOf(w)
<1>1. /\ pc[w] = "record" /\ t \in Tickets /\ call[w].op \in TicketOps \ {"assign"}
      /\ ticket[t] # Nil /\ Goto(w, "announce")
      /\ UNCHANGED <<ticket, replies, life, nameOf, up, sys, snap, target, outbox,
                     events, versions, now, bounds>>
  BY Busy, WhoRuns, NilAssumption DEF Record
<1>2. history' \in [Tickets -> Seq(Entry)]
  <2>1. CASE history' = history
    BY <2>1 DEF ServiceInv, TypeOK
  <2>2. CASE ForeignKeyHolds(e.to) /\ history' = [history EXCEPT ![t] = Append(@, e)]
    <3>1. e \in Entry
      BY <1>1, <2>2, EntryOfIsEntry
    <3> QED BY <1>1, <2>2, <3>1 DEF ServiceInv, TypeOK
  <2> QED BY <2>1, <2>2 DEF Record
<1>3. GlobalTypes' /\ TicketsStay
  BY <1>1, <1>2 DEF ServiceInv, TypeOK, GlobalTypes, TicketsStay, bounds
<1>4. "announce" \in StepsOf(call[w].op) /\ "announce" \in Steps \ {"idle", "saveStatus"}
  BY <1>1 DEF StepsOf, Steps, TicketOps
<1>5. /\ snap' = snap /\ snap' \in [Workers -> Row \cup {Nil}]
      /\ target' \in [Workers -> Statuses \cup {Nil}]
      /\ outbox' \in [Workers -> SUBSET EventTypes]
  BY <1>1 DEF ServiceInv, TypeOK
<1> QED BY <1>1, <1>3, <1>4, <1>5, GotoKeeps DEF ServiceInv, TypeOK, LocalTypes, GlobalTypes

LEMMA AnnounceKeeps ==
  ASSUME ServiceInv, NEW w \in Workers, Announce(w)
  PROVE  ServiceInv'
<1>1. /\ pc[w] = "announce" /\ call[w].ticket \in Tickets /\ outbox[w] \subseteq EventTypes
      /\ events' = [events EXCEPT ![call[w].ticket] = @ \cup outbox[w]] /\ Return(w)
      /\ UNCHANGED <<dbVars, up, sys, versions, now, bounds>>
  BY Busy, WhoRuns DEF Announce
<1>2. GlobalTypes' /\ TicketsStay
  BY <1>1 DEF ServiceInv, TypeOK, GlobalTypes, TicketsStay, bounds, dbVars
<1> QED BY <1>1, <1>2, ReturnKeeps DEF ServiceInv, TypeOK, LocalTypes, GlobalTypes

LEMMA AddStatusKeeps ==
  ASSUME ServiceInv, NEW w \in Workers, AddStatus(w)
  PROVE  ServiceInv'
<1>1. /\ pc[w] = "addStatus" /\ call[w].status \in Statuses /\ call[w].name \in Names
      /\ Idle(w)
      /\ UNCHANGED <<ticket, history, replies, up, sys, events, versions, now, bounds>>
  BY Busy, WhoRuns DEF AddStatus, WellFormed, StatusOps
<1>2. /\ life' \in [Statuses -> {"unborn", "live", "gone"}] /\ nameOf' \in [Statuses -> Names]
  BY <1>1 DEF AddStatus, ServiceInv, TypeOK
<1>3. GlobalTypes' /\ TicketsStay
  BY <1>1, <1>2 DEF ServiceInv, TypeOK, GlobalTypes, TicketsStay, bounds
<1> QED BY <1>1, <1>3, IdleKeeps DEF ServiceInv, TypeOK, LocalTypes, GlobalTypes

LEMMA GetStatusKeeps ==
  ASSUME ServiceInv, NEW w \in Workers, GetStatus(w)
  PROVE  ServiceInv'
<1> DEFINE c == call[w]
           name == IF c.name = Nil THEN nameOf[c.status] ELSE c.name
           d == [c EXCEPT !.name = name]
           step == IF c.op = "saveStatus" THEN "saveStatus" ELSE "count"
<1>1. /\ pc[w] = "getStatus" /\ c.op \in {"saveStatus", "removeStatus"} /\ c \in Call
      /\ WellFormed(c) /\ c.status \in Statuses /\ c.name \in Names \cup {Nil}
  BY Busy, WhoRuns DEF GetStatus, WellFormed, StatusOps, Call
<1>2. GlobalTypes' /\ TicketsStay /\ ticket' = ticket
  BY DEF GetStatus, ServiceInv, TypeOK, GlobalTypes, TicketsStay, bounds, dbVars
<1>3. CASE Idle(w)
  BY <1>2, <1>3, IdleKeeps DEF ServiceInv, TypeOK, LocalTypes, GlobalTypes
<1>4. CASE ~Idle(w)
  <2>1. /\ call' = [call EXCEPT ![w] = d] /\ pc' = [pc EXCEPT ![w] = step]
        /\ UNCHANGED <<followUp, snap, target, outbox>>
    BY <1>1, <1>4 DEF GetStatus, ServiceInv, TypeOK
  <2>2. name \in Names
    BY <1>1 DEF ServiceInv, TypeOK
  <2> HIDE DEF name
  <2>3. /\ d \in Call /\ d.op = c.op /\ d.status = c.status /\ d.ticket = c.ticket /\ d.name = name
        /\ d.op \in {"saveStatus", "removeStatus"}
    BY <1>1, <2>2 DEF Call
  <2>4. step \in StepsOf(d.op) /\ step \in Steps /\ step \notin {"check", "reply", "write", "idle"}
    BY <1>1, <2>3 DEF StepsOf, Steps
  <2>5. LocalTypes'
    BY <2>1, <2>3, <2>4 DEF ServiceInv, TypeOK, LocalTypes
  <2>6. followUp[w] = Nil
    BY <1>1 DEF ServiceInv, WorkersOK, WorkerOK
  <2>7. /\ pc'[w] = step /\ call'[w] = d /\ followUp'[w] = Nil
        /\ \A v \in Workers \ {w} : /\ pc'[v] = pc[v] /\ call'[v] = call[v]
                                    /\ followUp'[v] = followUp[v] /\ snap'[v] = snap[v]
    BY <2>1, <2>6 DEF ServiceInv, TypeOK
  <2> HIDE DEF d, step
  <2>8. WorkerOK(w)'
    <3>1. WellFormed(d)
      BY <1>1, <2>3 DEF WellFormed, TicketOps
    <3>2. WellFormed(call[w])'
      BY <3>1, <2>7 DEF WellFormed
    <3>3. d.op \notin TicketOps
      BY <2>3 DEF TicketOps
    <3> QED BY <3>2, <3>3, <2>2, <2>3, <2>4, <2>7 DEF WorkerOK
  <2>9. ASSUME NEW v \in Workers \ {w} PROVE WorkerOK(v)'
    BY <1>2, <2>7, StillOK
  <2> QED BY <1>2, <2>5, <2>8, <2>9 DEF ServiceInv, WorkersOK, TypeOK, LocalTypes, GlobalTypes
<1> QED BY <1>3, <1>4

LEMMA SaveStatusKeeps ==
  ASSUME ServiceInv, NEW w \in Workers, SaveStatus(w)
  PROVE  ServiceInv'
<1>1. /\ pc[w] = "saveStatus" /\ call[w].name \in Names /\ Idle(w)
      /\ UNCHANGED <<ticket, history, replies, life, up, sys, events, versions, now, bounds>>
  BY DEF SaveStatus, ServiceInv, WorkersOK, WorkerOK
<1>2. nameOf' \in [Statuses -> Names]
  BY <1>1 DEF SaveStatus, ServiceInv, TypeOK
<1>3. GlobalTypes' /\ TicketsStay
  BY <1>1, <1>2 DEF ServiceInv, TypeOK, GlobalTypes, TicketsStay, bounds
<1> QED BY <1>1, <1>3, IdleKeeps DEF ServiceInv, TypeOK, LocalTypes, GlobalTypes

LEMMA CountByStatusKeeps ==
  ASSUME ServiceInv, NEW w \in Workers, CountByStatus(w)
  PROVE  ServiceInv'
<1>1. pc[w] = "count" /\ call[w].op = "removeStatus" /\ call[w].op \notin TicketOps
  BY WhoRuns DEF CountByStatus, TicketOps
<1>2. GlobalTypes' /\ TicketsStay
  BY DEF CountByStatus, ServiceInv, TypeOK, GlobalTypes, TicketsStay, bounds, dbVars
<1>3. CASE Idle(w)
  BY <1>2, <1>3, IdleKeeps DEF ServiceInv, TypeOK, LocalTypes, GlobalTypes
<1>4. CASE Goto(w, "deleteStatus") /\ UNCHANGED <<snap, target, outbox>>
  <2>1. "deleteStatus" \in StepsOf(call[w].op) /\ "deleteStatus" \in Steps \ {"idle", "saveStatus"}
    BY <1>1 DEF StepsOf, Steps
  <2>2. /\ snap' = snap /\ snap' \in [Workers -> Row \cup {Nil}]
        /\ target' \in [Workers -> Statuses \cup {Nil}]
        /\ outbox' \in [Workers -> SUBSET EventTypes]
    BY <1>4 DEF ServiceInv, TypeOK
  <2> QED BY <1>1, <1>2, <1>4, <2>1, <2>2, GotoKeeps
         DEF ServiceInv, TypeOK, LocalTypes, GlobalTypes
<1> QED BY <1>3, <1>4 DEF CountByStatus

LEMMA DeleteStatusKeeps ==
  ASSUME ServiceInv, NEW w \in Workers, DeleteStatus(w)
  PROVE  ServiceInv'
<1>1. /\ Idle(w)
      /\ UNCHANGED <<ticket, history, replies, nameOf, up, sys, events, versions, now, bounds>>
  BY DEF DeleteStatus
<1>2. life' \in [Statuses -> {"unborn", "live", "gone"}]
  BY DEF DeleteStatus, ServiceInv, TypeOK
<1>3. GlobalTypes' /\ TicketsStay
  BY <1>1, <1>2 DEF ServiceInv, TypeOK, GlobalTypes, TicketsStay, bounds
<1> QED BY <1>1, <1>3, IdleKeeps DEF ServiceInv, TypeOK, LocalTypes, GlobalTypes

LEMMA StatementFailsKeeps ==
  ASSUME ServiceInv, NEW w \in Workers, StatementFails(w)
  PROVE  ServiceInv'
<1>1. /\ pc[w] # "idle" /\ faults < MaxFaults /\ faults' = faults + 1
      /\ UNCHANGED <<dbVars, up, sys, events, versions, now, requests, restarts>>
  BY DEF StatementFails
<1>2. GlobalTypes' /\ TicketsStay /\ ticket' = ticket
  BY <1>1, ServiceAssumption DEF ServiceInv, TypeOK, GlobalTypes, TicketsStay, dbVars
<1>3. CASE pc[w] = "write"
  BY <1>2, <1>3, WriteFailsKeeps DEF StatementFails, ServiceInv, TypeOK, LocalTypes, GlobalTypes
<1>4. CASE pc[w] = "record"
  <2>1. Goto(w, "announce") /\ UNCHANGED <<snap, target, outbox>>
    BY <1>4 DEF StatementFails
  <2>2. /\ call[w].op \in TicketOps \ {"assign"} /\ ticket[call[w].ticket] # Nil
    BY <1>4, Busy, WhoRuns, NilAssumption
  <2>3. "announce" \in StepsOf(call[w].op) /\ "announce" \in Steps \ {"idle", "saveStatus"}
    BY <2>2 DEF StepsOf, Steps, TicketOps
  <2>4. /\ snap' = snap /\ snap' \in [Workers -> Row \cup {Nil}]
        /\ target' \in [Workers -> Statuses \cup {Nil}]
        /\ outbox' \in [Workers -> SUBSET EventTypes]
    BY <2>1 DEF ServiceInv, TypeOK
  <2> QED BY <1>1, <1>2, <2>1, <2>2, <2>3, <2>4, GotoKeeps
         DEF ServiceInv, TypeOK, LocalTypes, GlobalTypes
<1>5. CASE pc[w] \notin {"write", "record"}
  <2>1. Idle(w)
    BY <1>5 DEF StatementFails
  <2> QED BY <1>2, <2>1, IdleKeeps DEF ServiceInv, TypeOK, LocalTypes, GlobalTypes
<1> QED BY <1>3, <1>4, <1>5

LEMMA AnswerLostKeeps ==
  ASSUME ServiceInv, NEW w \in Workers, AnswerLost(w)
  PROVE  ServiceInv'
<1> DEFINE t == call[w].ticket
           row == IF pc[w] = "insert" THEN CreatedRow(sys.new) ELSE RowOf(w)
<1>1. /\ pc[w] \in {"insert", "write"} /\ t \in Tickets /\ ForeignKeyHolds(row.status)
      /\ faults < MaxFaults /\ faults' = faults + 1
      /\ ticket' = [ticket EXCEPT ![t] = row]
      /\ versions' = [versions EXCEPT ![t] = @ \cup {row}]
      /\ UNCHANGED <<history, replies, life, nameOf, up, sys, events, now, requests, restarts>>
  BY Busy, WhoRuns DEF AnswerLost, TicketOps
<1>2. row \in Row /\ row # Nil
  <2>1. CASE pc[w] = "insert"
    BY <2>1, CreatedRowIsRow, NilAssumption DEF ServiceInv, TypeOK
  <2>2. CASE pc[w] = "write"
    BY <2>2, <1>1, RowOfIsRow
  <2> QED BY <1>1, <2>1, <2>2
<1>3. row.status \in Statuses
  BY <1>2 DEF Row
<1>4. IF pc[w] = "insert" THEN Idle(w) ELSE WriteFails(w)
  BY DEF AnswerLost
<1> HIDE DEF row
<1>5. GlobalTypes' /\ TicketsStay
  BY <1>1, <1>2, <1>3, ServiceAssumption DEF ServiceInv, TypeOK, GlobalTypes, TicketsStay
<1> QED BY <1>1, <1>4, <1>5, IdleKeeps, WriteFailsKeeps
       DEF ServiceInv, TypeOK, LocalTypes, GlobalTypes

LEMMA RestartKeeps == ServiceInv /\ Restart => ServiceInv'
<1> SUFFICES ASSUME ServiceInv, Restart PROVE ServiceInv'
  OBVIOUS
<1>1. \A n : StatusNamed(n) # Nil => StatusNamed(n) \in Statuses
  BY NamedStatus, LiveStatus
<1>2. sys' \in [new : Statuses, resolved : Statuses, closed : Statuses] /\ up' \in BOOLEAN
  BY <1>1 DEF Restart, SystemStatusesFound, ServiceInv, TypeOK
<1>3. GlobalTypes'
  BY <1>2, ServiceAssumption DEF Restart, ServiceInv, TypeOK, GlobalTypes, dbVars
<1>4. LocalTypes'
  BY DEF Restart, LocalTypes, Steps
<1>5. WorkersOK'
  BY DEF Restart, WorkersOK, WorkerOK
<1> QED BY <1>3, <1>4, <1>5 DEF ServiceInv, TypeOK, LocalTypes, GlobalTypes

LEMMA TickKeeps == ServiceInv /\ Tick => ServiceInv'
<1> SUFFICES ASSUME ServiceInv, Tick PROVE ServiceInv'
  OBVIOUS
<1>1. TypeOK'
  BY ServiceAssumption DEF Tick, ServiceInv, TypeOK, dbVars, workerVars, bounds
<1>2. WorkersOK'
  BY DEF Tick, ServiceInv, WorkersOK, WorkerOK, WellFormed, Created, dbVars, workerVars
<1> QED BY <1>1, <1>2 DEF ServiceInv

LEMMA StutterKeeps == ServiceInv /\ UNCHANGED vars => ServiceInv'
<1> SUFFICES ASSUME ServiceInv, UNCHANGED vars PROVE ServiceInv'
  OBVIOUS
<1>1. TypeOK'
  BY DEF ServiceInv, TypeOK, vars, dbVars, workerVars, bounds
<1>2. WorkersOK'
  BY DEF ServiceInv, WorkersOK, WorkerOK, WellFormed, Created, vars, dbVars, workerVars
<1> QED BY <1>1, <1>2 DEF ServiceInv

-----------------------------------------------------------------------------
(* The handlers, and the theorem.                                          *)

LEMMA CallsAreWellFormed ==
  /\ \A op \in TicketOps \ {"setStatus", "assign"}, role \in Roles, t \in Tickets :
       WellFormed(OnTicket(op, role, t, Nil)) /\ OnTicket(op, role, t, Nil).op = op
         /\ OnTicket(op, role, t, Nil).ticket = t
  /\ \A role \in Roles, t \in Tickets, s \in Statuses :
       WellFormed(OnTicket("setStatus", role, t, s)) /\ OnTicket("setStatus", role, t, s).op = "setStatus"
         /\ OnTicket("setStatus", role, t, s).ticket = t
  /\ \A role \in Actors, t \in Tickets, a \in Assignees \cup {Nil} :
       WellFormed(AssignCall(role, t, a)) /\ AssignCall(role, t, a).op = "assign"
         /\ AssignCall(role, t, a).ticket = t
  /\ \A op \in StatusOps, s \in Statuses, n \in Names \cup {Nil} :
       /\ OnStatus(op, s, n).op = op
       /\ (op = "addStatus" => n \in Names) => WellFormed(OnStatus(op, s, n))
  BY DEF WellFormed, OnTicket, AssignCall, OnStatus, CallOf, Call, TicketOps, StatusOps, AllOps,
         Roles, Actors

LEMMA HandleKeeps ==
  ASSUME ServiceInv, NEW w \in Workers, Handle(w)
  PROVE  ServiceInv'
<1>ops. /\ {"create", "resolve", "close", "reopen", "reply"} \subseteq TicketOps \ {"setStatus", "assign"}
        /\ StatusOps \cap TicketOps = {} /\ StatusOps = {"addStatus", "saveStatus", "removeStatus"}
        /\ Roles \subseteq Actors /\ "system" \in Actors /\ "staff" \in Actors
  BY DEF TicketOps, StatusOps, Roles, Actors
<1>1. CASE HandleCreateTicket(w)
  <2>1. PICK t \in Tickets, role \in Roles :
          Accept(w, OnTicket("create", role, t, Nil),
                 IF AutoAssignee = Nil THEN Nil ELSE AssignCall("system", t, AutoAssignee))
    BY <1>1 DEF HandleCreateTicket
  <2> QED BY <2>1, <1>ops, CallsAreWellFormed, AcceptKeeps, ServiceAssumption
<1>2. CASE HandleUpdateTicket(w)
  <2>1. PICK t \in Tickets, a \in Assignees :
          /\ Created(t)
          /\ \/ Accept(w, AssignCall("staff", t, a), Nil)
             \/ \E s \in Statuses, role \in Roles :
                \E f \in {Nil, AssignCall(role, t, a)} : Accept(w, OnTicket("setStatus", role, t, s), f)
    BY <1>2 DEF HandleUpdateTicket
  <2>2. CASE Accept(w, AssignCall("staff", t, a), Nil)
    BY <2>1, <2>2, <1>ops, CallsAreWellFormed, AcceptKeeps
  <2>3. ASSUME NEW s \in Statuses, NEW role \in Roles, NEW f \in {Nil, AssignCall(role, t, a)},
               Accept(w, OnTicket("setStatus", role, t, s), f)
        PROVE  ServiceInv'
    <3>1. /\ WellFormed(OnTicket("setStatus", role, t, s))
          /\ OnTicket("setStatus", role, t, s).op = "setStatus"
          /\ OnTicket("setStatus", role, t, s).ticket = t
          /\ f = Nil \/ (WellFormed(f) /\ f.op = "assign" /\ f.ticket = t)
      BY <2>3, <1>ops, CallsAreWellFormed
    <3> QED BY <2>1, <2>3, <3>1, AcceptKeeps
  <2> QED BY <2>1, <2>2, <2>3
<1>3. CASE HandleResolveTicket(w)
  <2>1. PICK t \in Tickets, role \in Roles : Created(t) /\ Accept(w, OnTicket("resolve", role, t, Nil), Nil)
    BY <1>3 DEF HandleResolveTicket
  <2> QED BY <2>1, <1>ops, CallsAreWellFormed, AcceptKeeps
<1>4. CASE HandleCloseTicket(w)
  <2>1. PICK t \in Tickets, role \in Roles : Created(t) /\ Accept(w, OnTicket("close", role, t, Nil), Nil)
    BY <1>4 DEF HandleCloseTicket
  <2> QED BY <2>1, <1>ops, CallsAreWellFormed, AcceptKeeps
<1>5. CASE HandleReopenTicket(w)
  <2>1. PICK t \in Tickets, role \in Roles : Created(t) /\ Accept(w, OnTicket("reopen", role, t, Nil), Nil)
    BY <1>5 DEF HandleReopenTicket
  <2> QED BY <2>1, <1>ops, CallsAreWellFormed, AcceptKeeps
<1>6. CASE HandleAddReply(w)
  <2>1. PICK t \in Tickets, role \in Roles : Created(t) /\ Accept(w, OnTicket("reply", role, t, Nil), Nil)
    BY <1>6 DEF HandleAddReply
  <2> QED BY <2>1, <1>ops, CallsAreWellFormed, AcceptKeeps
<1>7. CASE HandleCreateStatus(w)
  <2>1. PICK s \in Statuses : Accept(w, OnStatus("addStatus", s, InitialName[s]), Nil)
    BY <1>7 DEF HandleCreateStatus
  <2>2. InitialName[s] \in Names
    BY ServiceAssumption
  <2> QED BY <2>1, <2>2, <1>ops, CallsAreWellFormed, AcceptKeeps
<1>8. CASE HandleUpdateStatus(w)
  <2>1. PICK s \in Live, n \in RenameTo \cup {Nil} : Accept(w, OnStatus("saveStatus", s, n), Nil)
    BY <1>8 DEF HandleUpdateStatus
  <2>2. s \in Statuses /\ n \in Names \cup {Nil}
    BY ServiceAssumption, LiveStatus
  <2> QED BY <2>1, <2>2, <1>ops, CallsAreWellFormed, AcceptKeeps
<1>9. CASE HandleDeleteStatus(w)
  <2>1. PICK s \in Live : Accept(w, OnStatus("removeStatus", s, Nil), Nil)
    BY <1>9 DEF HandleDeleteStatus
  <2>2. s \in Statuses
    BY LiveStatus
  <2> QED BY <2>1, <2>2, <1>ops, CallsAreWellFormed, AcceptKeeps
<1> QED BY <1>1, <1>2, <1>3, <1>4, <1>5, <1>6, <1>7, <1>8, <1>9 DEF Handle

LEMMA InitService == Init => ServiceInv
<1> SUFFICES ASSUME Init PROVE ServiceInv
  OBVIOUS
<1>1. SystemStatuses \subseteq Statuses /\ MaxDay \in Nat \ {0}
      /\ {MaxRequests, MaxFaults, MaxRestarts} \subseteq Nat /\ InitialName \in [Statuses -> Names]
  BY StatusAssumption, ServiceAssumption
<1>2. TypeOK
  BY <1>1 DEF Init, TypeOK, SystemStatuses, Steps
<1>3. WorkersOK
  BY DEF Init, WorkersOK, WorkerOK
<1> QED BY <1>2, <1>3 DEF ServiceInv

LEMMA NextService == ServiceInv /\ [Next]_vars => ServiceInv'
<1> SUFFICES ASSUME ServiceInv, [Next]_vars PROVE ServiceInv'
  OBVIOUS
<1>1. ASSUME NEW w \in Workers, Handle(w) PROVE ServiceInv'
  BY <1>1, HandleKeeps
<1>2. ASSUME NEW w \in Workers, Step(w) PROVE ServiceInv'
  BY <1>2, InsertTicketKeeps, LookupTargetKeeps, GetKeeps, CheckTransitionKeeps, CheckReplyKeeps,
     InsertReplyKeeps, WriteKeeps, RecordKeeps, AnnounceKeeps, AddStatusKeeps, GetStatusKeeps,
     SaveStatusKeeps, CountByStatusKeeps, DeleteStatusKeeps DEF Step
<1>3. ASSUME NEW w \in Workers, StatementFails(w) PROVE ServiceInv'
  BY <1>3, StatementFailsKeeps
<1>4. ASSUME NEW w \in Workers, AnswerLost(w) PROVE ServiceInv'
  BY <1>4, AnswerLostKeeps
<1>5. CASE Restart
  BY <1>5, RestartKeeps
<1>6. CASE Tick
  BY <1>6, TickKeeps
<1>7. CASE Exhausted \/ UNCHANGED vars
  BY <1>7, StutterKeeps DEF Exhausted
<1> QED BY <1>1, <1>2, <1>3, <1>4, <1>5, <1>6, <1>7 DEF Next

LEMMA ServiceInvariant == Spec => []ServiceInv
  BY InitService, NextService, PTL DEF Spec

\* Every state of the running service is well typed: no statement meets a missing
\* row, an unread snapshot or a parameter of another operation, whatever overlaps,
\* fails or restarts.
THEOREM ServiceTypes == Spec => []TypeOK
<1>1. ServiceInv => TypeOK
  BY DEF ServiceInv
<1> QED BY ServiceInvariant, <1>1, PTL
=============================================================================
