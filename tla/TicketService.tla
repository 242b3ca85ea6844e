--------------------------- MODULE TicketService ---------------------------
(***************************************************************************)
(* The ticket service as it runs: HTTP requests served by goroutines       *)
(* (Workers), each a sequence of separate PostgreSQL statements with no    *)
(* transaction around them.  An operation of ticket.Service reads the      *)
(* whole row of a ticket (Get), may read the status table (Check), writes  *)
(* the whole row back from that snapshot (Write), inserts a history row    *)
(* whose error is dropped (Record), and emits its events (Announce).       *)
(* Between any two statements other workers run, a statement may fail, or  *)
(* the process may restart.                                                *)
(***************************************************************************)
EXTENDS TicketRules, Sequences, FiniteSets

CONSTANTS
  Workers,        \* requests that can be in progress at the same time
  Names,          \* names a status can have
  InitialName,    \* the name a status id is first created with
  Seeded,         \* custom statuses present at the start
  RenameTo,       \* names an administrator may give to an existing status
  ReopenTarget,   \* setting reopen_target_status_name
  AutoAssignee,   \* whom auto-assignment picks for a new ticket, Nil for nobody
  Ops,            \* operations the requests of this instance use
  MaxRequests,    \* bound on the number of requests
  MaxFaults,      \* bound on the number of failing database statements
  MaxRestarts,    \* bound on the number of process restarts
  MaxDay          \* bound on the clock

TicketOps == {"create", "setStatus", "assign", "resolve", "close", "reopen", "reply"}
StatusOps == {"addStatus", "saveStatus", "removeStatus"}
AllOps    == TicketOps \cup StatusOps

ASSUME ServiceAssumption ==
  /\ InitialName \in [Statuses -> Names]
  /\ Nil \notin Names
  /\ Seeded \subseteq Statuses
  /\ RenameTo \subseteq Names
  /\ AutoAssignee \in Assignees \cup {Nil}
  /\ Ops \subseteq AllOps
  /\ {MaxRequests, MaxFaults, MaxRestarts} \subseteq Nat
  /\ MaxDay \in Nat \ {0}
ASSUME SeedAssumption ==
  /\ InitialName[NewStatus] = "New"
  /\ InitialName[ResolvedStatus] = "Resolved"
  /\ InitialName[ClosedStatus] = "Closed"

\* One call of the service, with the parameters its operation takes.
Call ==
  [op       : AllOps,
   role     : Roles \cup {"system"},
   ticket   : Tickets \cup {Nil},
   status   : Statuses \cup {Nil},
   assignee : Assignees \cup {Nil},
   name     : Names \cup {Nil}]

ASSUME CallAssumption == Nil \notin Call

EventTypes == {"created", "status_changed", "assigned", "resolved", "closed", "reopened", "replied"}

Steps == {"idle", "lookup", "get", "check", "insert", "reply", "write", "record", "announce",
          "addStatus", "getStatus", "saveStatus", "count", "deleteStatus"}

VARIABLES
  (* database *)
  ticket,     \* table tickets
  history,    \* table ticket_status_history
  replies,    \* replies[t]: roles of the authors of table ticket_replies
  life,       \* life[s]: whether row s of table statuses is "unborn", "live" or "gone"
  nameOf,     \* nameOf[s]: its name
  (* the process *)
  up,         \* the process is serving
  sys,        \* Service.sys, the ids cached by LoadSystemStatuses
  pc,         \* pc[w]: the statement worker w runs next
  call,       \* call[w]: the call it is in
  followUp,   \* followUp[w]: the call the handler makes after that one
  snap,       \* snap[w]: the row it has read
  target,     \* target[w]: the status it is about to write and record
  outbox,     \* outbox[w]: the events it dispatches at the end of the call
  (* outside *)
  events,     \* events[t]: the event types dispatched for t
  versions,   \* versions[t]: every row t has had (observer)
  now,        \* the day
  requests, faults, restarts

dbVars     == <<ticket, history, replies, life, nameOf>>
workerVars == <<pc, call, followUp, snap, target, outbox>>
bounds     == <<requests, faults, restarts>>
vars == <<dbVars, up, sys, workerVars, events, versions, now, bounds>>

Live == {s \in Statuses : life[s] = "live"}
Created(t) == ticket[t] # Nil

TypeOK ==
  /\ ticket \in [Tickets -> Row \cup {Nil}]
  /\ history \in [Tickets -> Seq(Entry)]
  /\ replies \in [Tickets -> Seq(Roles)]
  /\ life \in [Statuses -> {"unborn", "live", "gone"}]
  /\ nameOf \in [Statuses -> Names]
  /\ up \in BOOLEAN
  /\ sys \in [new : Statuses, resolved : Statuses, closed : Statuses]
  /\ pc \in [Workers -> Steps]
  /\ call \in [Workers -> Call \cup {Nil}]
  /\ followUp \in [Workers -> Call \cup {Nil}]
  /\ snap \in [Workers -> Row \cup {Nil}]
  /\ target \in [Workers -> Statuses \cup {Nil}]
  /\ outbox \in [Workers -> SUBSET EventTypes]
  /\ events \in [Tickets -> SUBSET EventTypes]
  /\ versions \in [Tickets -> SUBSET Row]
  /\ now \in 1..MaxDay
  /\ requests \in 0..MaxRequests
  /\ faults \in 0..MaxFaults
  /\ restarts \in 0..MaxRestarts

\* GetStatusByName over the live rows; Nil when there is none (name is UNIQUE).
StatusNamed(name) ==
  IF \E s \in Live : nameOf[s] = name THEN CHOOSE s \in Live : nameOf[s] = name ELSE Nil

\* The migrations have run and LoadSystemStatuses has cached the seeded ids.
Init ==
  /\ ticket = [t \in Tickets |-> Nil]
  /\ history = [t \in Tickets |-> <<>>]
  /\ replies = [t \in Tickets |-> <<>>]
  /\ life = [s \in Statuses |-> IF s \in SystemStatuses \cup Seeded THEN "live" ELSE "unborn"]
  /\ nameOf = InitialName
  /\ up = TRUE
  /\ sys = [new |-> NewStatus, resolved |-> ResolvedStatus, closed |-> ClosedStatus]
  /\ pc = [w \in Workers |-> "idle"]
  /\ call = [w \in Workers |-> Nil]
  /\ followUp = [w \in Workers |-> Nil]
  /\ snap = [w \in Workers |-> Nil]
  /\ target = [w \in Workers |-> Nil]
  /\ outbox = [w \in Workers |-> {}]
  /\ events = [t \in Tickets |-> {}]
  /\ versions = [t \in Tickets |-> {}]
  /\ now = 1
  /\ requests = 0 /\ faults = 0 /\ restarts = 0

-----------------------------------------------------------------------------
(* HTTP handlers: a request arrives at an idle worker.                     *)

CallOf(op, role, t, s, a, n) ==
  [op |-> op, role |-> role, ticket |-> t, status |-> s, assignee |-> a, name |-> n]

OnTicket(op, role, t, s) == CallOf(op, role, t, s, Nil, Nil)
AssignCall(role, t, a)   == CallOf("assign", role, t, Nil, a, Nil)
OnStatus(op, s, n)       == CallOf(op, "admin", Nil, s, Nil, n)

\* The statement a call starts with.
FirstStep(op) ==
  CASE op = "create"                                 -> "insert"
    [] op \in {"reply", "reopen"}                    -> "lookup"
    [] op \in {"setStatus", "assign", "resolve", "close"} -> "get"
    [] op = "addStatus"                              -> "addStatus"
    [] op \in {"saveStatus", "removeStatus"}         -> "getStatus"

\* Role checks made before the database is asked.
MayCall(c) ==
  /\ c.op = "close"   => c.role = "admin"
  /\ c.op = "reopen"  => c.role # "user"
  /\ c.op = "resolve" => CanTransitionStatus("Resolved", c.role)

Accept(w, c, f) ==
  /\ up /\ pc[w] = "idle"
  /\ c.op \in Ops /\ MayCall(c)
  /\ f # Nil => f.op \in Ops
  /\ requests < MaxRequests /\ requests' = requests + 1
  /\ pc' = [pc EXCEPT ![w] = FirstStep(c.op)]
  /\ call' = [call EXCEPT ![w] = c]
  /\ followUp' = [followUp EXCEPT ![w] = f]
  /\ UNCHANGED <<dbVars, up, sys, snap, target, outbox, events, versions, now, faults, restarts>>

\* uuid.New: the id is in no row and in no other request.
Fresh(t) == ~Created(t) /\ \A w \in Workers : call[w] # Nil => call[w].ticket # t

HandleCreateTicket(w) ==
  \E t \in {u \in Tickets : Fresh(u)}, role \in Roles :
    Accept(w, OnTicket("create", role, t, Nil),
           IF AutoAssignee = Nil THEN Nil ELSE AssignCall("system", t, AutoAssignee))

\* PATCH: a status, an assignee, or both, one after the other.
HandleUpdateTicket(w) ==
  \E t \in {u \in Tickets : Created(u)}, a \in Assignees :
    \/ Accept(w, AssignCall("staff", t, a), Nil)
    \/ \E s \in Statuses, role \in Roles :
         \E f \in {Nil, AssignCall(role, t, a)} : Accept(w, OnTicket("setStatus", role, t, s), f)

HandleResolveTicket(w) ==
  \E t \in {u \in Tickets : Created(u)}, role \in Roles :
    Accept(w, OnTicket("resolve", role, t, Nil), Nil)

HandleCloseTicket(w) ==
  \E t \in {u \in Tickets : Created(u)}, role \in Roles :
    Accept(w, OnTicket("close", role, t, Nil), Nil)

HandleReopenTicket(w) ==
  \E t \in {u \in Tickets : Created(u)}, role \in Roles :
    Accept(w, OnTicket("reopen", role, t, Nil), Nil)

HandleAddReply(w) ==
  \E t \in {u \in Tickets : Created(u)}, role \in Roles :
    Accept(w, OnTicket("reply", role, t, Nil), Nil)

HandleCreateStatus(w) ==
  \E s \in Statuses :
    /\ life[s] = "unborn"
    /\ \A v \in Workers : call[v] # Nil => ~(call[v].op = "addStatus" /\ call[v].status = s)
    /\ Accept(w, OnStatus("addStatus", s, InitialName[s]), Nil)

HandleUpdateStatus(w) ==
  \E s \in Live, n \in RenameTo \cup {Nil} : Accept(w, OnStatus("saveStatus", s, n), Nil)

HandleDeleteStatus(w) ==
  \E s \in Live : Accept(w, OnStatus("removeStatus", s, Nil), Nil)

-----------------------------------------------------------------------------
(* How a call ends, and how it goes on.                                    *)

\* Worker w is idle again and remembers nothing.
Idle(w) ==
  /\ pc' = [pc EXCEPT ![w] = "idle"]
  /\ call' = [call EXCEPT ![w] = Nil]
  /\ followUp' = [followUp EXCEPT ![w] = Nil]
  /\ snap' = [snap EXCEPT ![w] = Nil]
  /\ target' = [target EXCEPT ![w] = Nil]
  /\ outbox' = [outbox EXCEPT ![w] = {}]

Goto(w, step) ==
  /\ pc' = [pc EXCEPT ![w] = step]
  /\ UNCHANGED <<call, followUp>>

\* Mutant of Return: the handler does not remember that it made its second call.
ReturnForgetful(w) ==
  IF followUp[w] = Nil
  THEN Idle(w)
  ELSE /\ pc' = [pc EXCEPT ![w] = FirstStep(followUp[w].op)]
       /\ call' = [call EXCEPT ![w] = followUp[w]]
       /\ snap' = [snap EXCEPT ![w] = Nil]
       /\ target' = [target EXCEPT ![w] = Nil]
       /\ outbox' = [outbox EXCEPT ![w] = {}]
       /\ UNCHANGED followUp

\* The call is over: the handler makes its next call, if it has one.
Return(w) ==
  IF followUp[w] = Nil
  THEN Idle(w)
  ELSE /\ pc' = [pc EXCEPT ![w] = FirstStep(followUp[w].op)]
       /\ call' = [call EXCEPT ![w] = followUp[w]]
       /\ followUp' = [followUp EXCEPT ![w] = Nil]
       /\ snap' = [snap EXCEPT ![w] = Nil]
       /\ target' = [target EXCEPT ![w] = Nil]
       /\ outbox' = [outbox EXCEPT ![w] = {}]

\* Mutant of EventOf: a reply is dispatched under a name no receiver knows.
EventMisnamed(op) == IF op = "reply" THEN "reply" ELSE "status_changed"

EventOf(op) ==
  CASE op = "create"    -> "created"
    [] op = "setStatus" -> "status_changed"
    [] op = "assign"    -> "assigned"
    [] op = "resolve"   -> "resolved"
    [] op = "close"     -> "closed"
    [] op = "reopen"    -> "reopened"
    [] op = "reply"     -> "replied"

\* Foreign keys to statuses(id), none of which is deferred.
ForeignKeyHolds(s) == s \in Live

-----------------------------------------------------------------------------
(* One action per database statement of an operation.                      *)

\* Create: INSERT INTO tickets.
InsertTicket(w) ==
  LET t == call[w].ticket
      row == CreatedRow(sys.new)
  IN
  /\ pc[w] = "insert"
  /\ IF ForeignKeyHolds(row.status)
     THEN /\ ticket' = [ticket EXCEPT ![t] = row]
          /\ versions' = [versions EXCEPT ![t] = @ \cup {row}]
          /\ target' = [target EXCEPT ![w] = sys.new]
          /\ outbox' = [outbox EXCEPT ![w] = {"created"}]
          /\ Goto(w, "record") /\ UNCHANGED snap
     ELSE Idle(w) /\ UNCHANGED <<ticket, versions>>
  /\ UNCHANGED <<history, replies, life, nameOf, up, sys, events, now, bounds>>

\* handleAddReply and handleReopenTicket look the reopen target up by name.
LookupTarget(w) ==
  /\ pc[w] = "lookup"
  /\ target' = [target EXCEPT ![w] = StatusNamed(ReopenTarget)]
  /\ Goto(w, "get")
  /\ UNCHANGED <<dbVars, up, sys, snap, outbox, events, versions, now, bounds>>

\* The status an operation is about to write.
TargetOf(w) ==
  CASE call[w].op = "setStatus"           -> call[w].status
    [] call[w].op = "resolve"             -> sys.resolved
    [] call[w].op = "close"               -> sys.closed
    [] call[w].op = "assign"              -> Nil
    [] call[w].op \in {"reopen", "reply"} -> target[w]

\* SELECT the row.  Reopen goes on only from Closed.
Get(w) ==
  LET c == call[w] IN
  /\ pc[w] = "get"
  /\ IF c.op = "reopen" => ticket[c.ticket].status = sys.closed
     THEN /\ snap' = [snap EXCEPT ![w] = ticket[c.ticket]]
          /\ target' = [target EXCEPT ![w] = TargetOf(w)]
          /\ outbox' = [outbox EXCEPT ![w] = {EventOf(c.op)}]
          /\ Goto(w, IF c.op \in {"setStatus", "reply"} THEN "check" ELSE "write")
     ELSE Idle(w)
  /\ UNCHANGED <<dbVars, up, sys, events, versions, now, bounds>>

\* UpdateStatus: the requested status exists and this role may set it.
CheckTransition(w) ==
  LET c == call[w] IN
  /\ pc[w] = "check" /\ c.op = "setStatus"
  /\ IF c.status \in Live /\ CanTransitionStatus(nameOf[c.status], c.role)
     THEN Goto(w, "write") /\ UNCHANGED <<snap, target, outbox>>
     ELSE Idle(w)
  /\ UNCHANGED <<dbVars, up, sys, events, versions, now, bounds>>

\* AddReply: the author may write; a reporter's reply to Resolved will reopen.
CheckReply(w) ==
  LET c == call[w]
      name == nameOf[snap[w].status]
  IN
  /\ pc[w] = "check" /\ c.op = "reply"
  /\ IF snap[w].status \in Live /\ CanUserUpdate(snap[w], name, c.role, now)
     THEN /\ outbox' = [outbox EXCEPT
                          ![w] = @ \cup (IF c.role = "user" /\ name = "Resolved"
                                         THEN {"reopened"} ELSE {})]
          /\ Goto(w, "reply") /\ UNCHANGED <<snap, target>>
     ELSE Idle(w)
  /\ UNCHANGED <<dbVars, up, sys, events, versions, now, bounds>>

InsertReply(w) ==
  LET c == call[w] IN
  /\ pc[w] = "reply"
  /\ replies' = [replies EXCEPT ![c.ticket] = Append(@, c.role)]
  /\ Goto(w, IF "reopened" \in outbox[w] THEN "write" ELSE "announce")
  /\ UNCHANGED <<ticket, history, life, nameOf, up, sys, snap, target, outbox,
                 events, versions, now, bounds>>

\* The whole row the operation writes, computed from its snapshot.
RowOf(w) ==
  LET c == call[w] IN
  CASE c.op = "setStatus" -> MovedRow(snap[w], target[w])
    [] c.op = "assign"    -> AssignedRow(snap[w], c.assignee)
    [] c.op = "resolve"   -> ResolvedRow(snap[w], target[w], now)
    [] c.op = "close"     -> ClosedRow(snap[w], target[w], now)
    [] c.op = "reopen"    -> ReopenedRow(snap[w], target[w])
    [] c.op = "reply"     -> ReplyReopenedRow(snap[w], target[w])

\* Mutant of WriteFails: every operation drops the error of Update.
WriteErrorDropped(w) ==
  Goto(w, IF call[w].op = "assign" THEN "announce" ELSE "record")
    /\ UNCHANGED <<snap, target, outbox>>

\* Every operation returns the error of Update, except AddReply, which drops it.
WriteFails(w) ==
  IF call[w].op = "reply"
  THEN Goto(w, "record") /\ UNCHANGED <<snap, target, outbox>>
  ELSE Idle(w)

\* Mutant of Write: the update finds no row that another request has changed, and
\* nobody asks how many rows it found.
WriteIfUnchanged(w) ==
  LET t == call[w].ticket IN
  /\ pc[w] = "write"
  /\ ticket' = IF ticket[t] = snap[w] THEN [ticket EXCEPT ![t] = RowOf(w)] ELSE ticket
  /\ versions' = [versions EXCEPT ![t] = @ \cup {ticket'[t]}]
  /\ Goto(w, IF call[w].op = "assign" THEN "announce" ELSE "record")
  /\ UNCHANGED <<history, replies, life, nameOf, up, sys, snap, target, outbox,
                 events, now, bounds>>

\* UPDATE tickets: all columns, whatever the row holds by now.
Write(w) ==
  LET t == call[w].ticket
      row == RowOf(w)
  IN
  /\ pc[w] = "write"
  /\ IF ForeignKeyHolds(row.status)
     THEN /\ ticket' = [ticket EXCEPT ![t] = row]
          /\ versions' = [versions EXCEPT ![t] = @ \cup {row}]
          /\ Goto(w, IF call[w].op = "assign" THEN "announce" ELSE "record")
          /\ UNCHANGED <<snap, target, outbox>>
     ELSE WriteFails(w) /\ UNCHANGED <<ticket, versions>>
  /\ UNCHANGED <<history, replies, life, nameOf, up, sys, events, now, bounds>>

\* Mutant of EntryOf: the two statuses of the history row are swapped.
EntrySwapped(w) ==
  [from |-> target[w],
   to   |-> IF snap[w] = Nil THEN target[w] ELSE snap[w].status,
   by   |-> IF call[w].op = "close" THEN "system" ELSE call[w].role]

EntryOf(w) ==
  [from |-> IF snap[w] = Nil THEN Nil ELSE snap[w].status,
   to   |-> target[w],
   by   |-> IF call[w].op = "close" THEN "system" ELSE call[w].role]

\* recordStatusChange: INSERT INTO ticket_status_history, errors dropped.
Record(w) ==
  LET t == call[w].ticket
      e == EntryOf(w)
  IN
  /\ pc[w] = "record"
  /\ IF ForeignKeyHolds(e.to) /\ (e.from = Nil \/ ForeignKeyHolds(e.from))
     THEN history' = [history EXCEPT ![t] = Append(@, e)]
     ELSE UNCHANGED history
  /\ Goto(w, "announce")
  /\ UNCHANGED <<ticket, replies, life, nameOf, up, sys, snap, target, outbox,
                 events, versions, now, bounds>>

\* The events of the call are dispatched and the call returns.
Announce(w) ==
  LET t == call[w].ticket IN
  /\ pc[w] = "announce"
  /\ events' = [events EXCEPT ![t] = @ \cup outbox[w]]
  /\ Return(w)
  /\ UNCHANGED <<dbVars, up, sys, versions, now, bounds>>

-----------------------------------------------------------------------------
(* Administration of the status table.                                     *)

\* Mutant of NameTaken: statuses(name) is not UNIQUE.
NameNeverTaken(s, name) == FALSE

NameTaken(s, name) == \E other \in Live \ {s} : nameOf[other] = name

\* AddStatus: INSERT, refused by UNIQUE (name).
AddStatus(w) ==
  LET c == call[w] IN
  /\ pc[w] = "addStatus"
  /\ IF NameTaken(c.status, c.name)
     THEN UNCHANGED <<life, nameOf>>
     ELSE /\ life' = [life EXCEPT ![c.status] = "live"]
          /\ nameOf' = [nameOf EXCEPT ![c.status] = c.name]
  /\ Idle(w)
  /\ UNCHANGED <<ticket, history, replies, up, sys, events, versions, now, bounds>>

\* Both status operations read the table first.  An update keeps the name it
\* has read when none is given; only custom statuses go on to be removed.
GetStatus(w) ==
  LET c == call[w] IN
  /\ pc[w] = "getStatus"
  /\ IF c.status \notin Live \/ (c.op = "removeStatus" /\ c.status \in SystemStatuses)
     THEN Idle(w)
     ELSE /\ call' = [call EXCEPT ![w].name = IF @ = Nil THEN nameOf[c.status] ELSE @]
          /\ pc' = [pc EXCEPT ![w] = IF c.op = "saveStatus" THEN "saveStatus" ELSE "count"]
          /\ UNCHANGED <<followUp, snap, target, outbox>>
  /\ UNCHANGED <<dbVars, up, sys, events, versions, now, bounds>>

\* SaveStatus: UPDATE the whole row; no row, no effect; UNIQUE (name).
SaveStatus(w) ==
  LET c == call[w] IN
  /\ pc[w] = "saveStatus"
  /\ IF c.status \in Live /\ ~NameTaken(c.status, c.name)
     THEN nameOf' = [nameOf EXCEPT ![c.status] = c.name]
     ELSE UNCHANGED nameOf
  /\ Idle(w)
  /\ UNCHANGED <<ticket, history, replies, life, up, sys, events, versions, now, bounds>>

\* RemoveStatus: SELECT COUNT(*) of the tickets in the status.
CountByStatus(w) ==
  /\ pc[w] = "count"
  /\ IF \E t \in Tickets : Created(t) /\ ticket[t].status = call[w].status
     THEN Idle(w)
     ELSE Goto(w, "deleteStatus") /\ UNCHANGED <<snap, target, outbox>>
  /\ UNCHANGED <<dbVars, up, sys, events, versions, now, bounds>>

\* Mutant of Referenced: the history does not refer to statuses.
ReferencedByTicket(s) == \E t \in Tickets : Created(t) /\ ticket[t].status = s

\* tickets.status_id and both columns of ticket_status_history refer to statuses.
Referenced(s) ==
  \E t \in Tickets :
    \/ Created(t) /\ ticket[t].status = s
    \/ \E i \in DOMAIN history[t] : s \in {history[t][i].from, history[t][i].to}

\* DELETE FROM statuses WHERE id = s AND kind = 'custom'.
DeleteStatus(w) ==
  LET s == call[w].status IN
  /\ pc[w] = "deleteStatus"
  /\ life' = IF Referenced(s) \/ s \in SystemStatuses THEN life ELSE [life EXCEPT ![s] = "gone"]
  /\ Idle(w)
  /\ UNCHANGED <<ticket, history, replies, nameOf, up, sys, events, versions, now, bounds>>

-----------------------------------------------------------------------------
(* Failures and the passing of time.                                       *)

\* A statement fails: connection lost, or the client hung up and r.Context()
\* is cancelled.  The operation sees an error and the database no effect.
StatementFails(w) ==
  /\ pc[w] \notin {"idle", "announce"}
  /\ faults < MaxFaults /\ faults' = faults + 1
  /\ CASE pc[w] = "write"  -> WriteFails(w)
       [] pc[w] = "record" -> Goto(w, "announce") /\ UNCHANGED <<snap, target, outbox>>
       [] OTHER            -> Idle(w)
  /\ UNCHANGED <<dbVars, up, sys, events, versions, now, requests, restarts>>

\* The row of the ticket is written, but the answer does not arrive.
AnswerLost(w) ==
  LET t == call[w].ticket
      row == IF pc[w] = "insert" THEN CreatedRow(sys.new) ELSE RowOf(w)
  IN
  /\ pc[w] \in {"insert", "write"}
  /\ ForeignKeyHolds(row.status)
  /\ faults < MaxFaults /\ faults' = faults + 1
  /\ ticket' = [ticket EXCEPT ![t] = row]
  /\ versions' = [versions EXCEPT ![t] = @ \cup {row}]
  /\ IF pc[w] = "insert" THEN Idle(w) ELSE WriteFails(w)
  /\ UNCHANGED <<history, replies, life, nameOf, up, sys, events, now, requests, restarts>>

\* LoadSystemStatuses: by name; the process does not start without all three.
SystemStatusesFound ==
  Nil \notin {StatusNamed("New"), StatusNamed("Resolved"), StatusNamed("Closed")}

\* The process stops, with the requests it was serving, and starts again.
Restart ==
  /\ up
  /\ restarts < MaxRestarts /\ restarts' = restarts + 1
  /\ up' = SystemStatusesFound
  /\ sys' = IF SystemStatusesFound
            THEN [new |-> StatusNamed("New"), resolved |-> StatusNamed("Resolved"),
                  closed |-> StatusNamed("Closed")]
            ELSE sys
  /\ pc' = [w \in Workers |-> "idle"]
  /\ call' = [w \in Workers |-> Nil]
  /\ followUp' = [w \in Workers |-> Nil]
  /\ snap' = [w \in Workers |-> Nil]
  /\ target' = [w \in Workers |-> Nil]
  /\ outbox' = [w \in Workers |-> {}]
  /\ UNCHANGED <<dbVars, events, versions, now, requests, faults>>

Tick ==
  /\ now < MaxDay /\ now' = now + 1
  /\ UNCHANGED <<dbVars, up, sys, workerVars, events, versions, bounds>>

\* The bounds are used up and nothing is in progress.
Exhausted ==
  /\ requests = MaxRequests \/ ~up
  /\ now = MaxDay
  /\ \A w \in Workers : pc[w] = "idle"
  /\ UNCHANGED vars

Handle(w) ==
  \/ HandleCreateTicket(w) \/ HandleUpdateTicket(w) \/ HandleResolveTicket(w)
  \/ HandleCloseTicket(w)  \/ HandleReopenTicket(w) \/ HandleAddReply(w)
  \/ HandleCreateStatus(w) \/ HandleUpdateStatus(w) \/ HandleDeleteStatus(w)

Step(w) ==
  \/ InsertTicket(w) \/ LookupTarget(w) \/ Get(w) \/ CheckTransition(w) \/ CheckReply(w)
  \/ InsertReply(w) \/ Write(w) \/ Record(w) \/ Announce(w)
  \/ AddStatus(w) \/ GetStatus(w) \/ SaveStatus(w) \/ CountByStatus(w) \/ DeleteStatus(w)

Next ==
  \/ \E w \in Workers : Handle(w) \/ Step(w) \/ StatementFails(w) \/ AnswerLost(w)
  \/ Restart \/ Tick \/ Exhausted

Spec == Init /\ [][Next]_vars

\* A worker that can run its next statement runs it; the clock advances.
FairSpec == Spec /\ WF_vars(Tick) /\ \A w \in Workers : WF_vars(Step(w))

-----------------------------------------------------------------------------
(* Properties of the running service, whatever the interleaving.           *)

\* The statuses tickets have had.
reached == [t \in Tickets |-> {v.status : v \in versions[t]}]

\* Every status a ticket or its history refers to exists, although RemoveStatus
\* counts the tickets of a status in one statement and deletes it in a later one,
\* and an operation writes back a status it has read some time ago.
StatusRefs ==
  \A t \in Tickets :
    /\ Created(t) => ticket[t].status \in Live
    /\ \A i \in DOMAIN history[t] : {history[t][i].from, history[t][i].to} \subseteq Live \cup {Nil}

\* The history never tells of a status the ticket did not have: an operation of
\* staff records a change only after the change is made, also when statements
\* fail.  A reporter's reply records its reopening without looking at the error
\* of the update, so of its entries this is said only where nothing fails.
HistoryIsTrue ==
  \A t \in Tickets : \A i \in DOMAIN history[t] :
    LET e == history[t][i] IN
    MaxFaults = 0 \/ e.by # "user" => {e.from, e.to} \subseteq reached[t] \cup {Nil}

\* A worker is about to record that t has moved to status s.
Recording(t, s) == \E w \in Workers : pc[w] = "record" /\ call[w].ticket = t /\ target[w] = s

Recorded(t, s) == \E i \in DOMAIN history[t] : history[t][i].to = s

\* The status of a ticket is one its history tells of, or is about to: a write
\* from a stale snapshot can bring back an old status, never an unknown one.
\* (Without failures and restarts, and while no status is removed.)
CurrentStatusRecorded ==
  \A t \in Tickets :
    Created(t) => Recorded(t, ticket[t].status) \/ Recording(t, ticket[t].status)

\* Staff never closes a ticket: an entry that leads to Closed names an
\* administrator or the system.  (While the status is called "Closed" and is not
\* the target of reopening.)
OnlyAdminsClose ==
  \A t \in Tickets : \A i \in DOMAIN history[t] :
    history[t][i].to = ClosedStatus => history[t][i].by \in {"admin", "system"}

\* "resolved" and "closed" are announced only of a ticket that became so, also
\* when statements fail or overlap.  (While the system statuses keep their names.)
EventsAreTrue ==
  \A t \in Tickets :
    /\ "resolved" \in events[t] => ResolvedStatus \in reached[t]
    /\ "closed" \in events[t] => ClosedStatus \in reached[t]
    /\ events[t] # {} => Created(t)

\* Administration that renames no system status cannot make a restart fail or
\* make it load other ids than those cached before.
RestartFindsSystemStatuses ==
  up /\ sys = [new |-> NewStatus, resolved |-> ResolvedStatus, closed |-> ClosedStatus]

\* Every request comes to its end: no operation waits for another.
RequestsEnd == \A w \in Workers : pc[w] # "idle" ~> pc[w] = "idle"

\* A reporter's reply accepted inside the window takes the ticket out of
\* Resolved.  (With one request at a time, no failures, an existing target.)
AcceptedReplyReopens ==
  \A w \in Workers, t \in Tickets :
    (pc[w] = "reply" /\ "reopened" \in outbox[w] /\ call[w].ticket = t)
      ~> Created(t) /\ ticket[t].status # ResolvedStatus
=============================================================================
