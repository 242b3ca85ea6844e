------------------------ MODULE TicketSafety_proofs ------------------------
(***************************************************************************)
(* The safety of the running service, each property with the invariant     *)
(* that makes it inductive.  All rest on the shape of a step (Shapes): it  *)
(* writes the row of one ticket, or inserts one entry, or adds or removes  *)
(* one status.                                                             *)
(***************************************************************************)
EXTENDS TicketService_proofs, TicketServiceRefinement

\* Worker w writes a row with an existing status on its ticket.
WritesRow(w) ==
  /\ pc[w] \in {"insert", "write"} /\ call[w].ticket \in Tickets
  /\ \E row \in Row :
       /\ row = IF pc[w] = "insert" THEN CreatedRow(sys.new) ELSE RowOf(w)
       /\ row # Nil /\ row.status \in Live
       /\ ticket' = [ticket EXCEPT ![call[w].ticket] = row]
       /\ versions' = [versions EXCEPT ![call[w].ticket] = @ \cup {row}]
  /\ UNCHANGED <<history, life>>

\* Worker w inserts an entry between existing statuses.
InsertsEntry(w) ==
  /\ pc[w] = "record" /\ call[w].ticket \in Tickets
  /\ EntryOf(w) \in Entry
  /\ EntryOf(w).to \in Live /\ EntryOf(w).from \in Live \cup {Nil}
  /\ history' = [history EXCEPT ![call[w].ticket] = Append(@, EntryOf(w))]
  /\ UNCHANGED <<ticket, versions, life>>

\* Worker w adds the status it has been asked to add.
AddsStatus(w) ==
  /\ pc[w] = "addStatus" /\ call[w].status \in Statuses
  /\ life' = [life EXCEPT ![call[w].status] = "live"]
  /\ UNCHANGED <<ticket, history, versions>>

\* Worker w removes a status nothing refers to.
RemovesStatus(w) ==
  /\ pc[w] = "deleteStatus" /\ call[w].status \in Statuses
  /\ ~Referenced(call[w].status)
  /\ life' = [life EXCEPT ![call[w].status] = "gone"]
  /\ UNCHANGED <<ticket, history, versions>>

LeavesTables == UNCHANGED <<ticket, history, versions, life>>

-----------------------------------------------------------------------------
(* The statuses tickets have had, which follow from their versions.        *)

LEMMA ReachedTyped ==
  ASSUME TypeOK
  PROVE  /\ reached \in [Tickets -> SUBSET Statuses]
         /\ \A t \in Tickets : reached[t] = {v.status : v \in versions[t]}
<1>1. ASSUME NEW t \in Tickets PROVE {v.status : v \in versions[t]} \in SUBSET Statuses
  BY DEF TypeOK, Row
<1> QED BY <1>1 DEF reached

LEMMA ReachedStays ==
  ASSUME versions' = versions
  PROVE  reached' = reached
  BY DEF reached

LEMMA ReachedGrows ==
  ASSUME TypeOK, NEW t \in Tickets, NEW r,
         versions' = [versions EXCEPT ![t] = @ \cup {r}]
  PROVE  reached' = [reached EXCEPT ![t] = @ \cup {r.status}]
<1>1. reached' = [u \in Tickets |-> {v.status : v \in versions'[u]}]
  BY DEF reached
<1>2. versions'[t] = versions[t] \cup {r} /\ \A u \in Tickets \ {t} : versions'[u] = versions[u]
  BY DEF TypeOK
<1>3. {v.status : v \in versions'[t]} = {v.status : v \in versions[t]} \cup {r.status}
  BY <1>2
<1>4. reached = [u \in Tickets |-> {v.status : v \in versions[u]}]
  BY DEF reached
<1> QED BY <1>1, <1>2, <1>3, <1>4

LEMMA WriteReaches ==
  ASSUME TypeOK, NEW w \in Workers, WritesRow(w)
  PROVE  \E row \in Row :
           /\ row # Nil /\ row.status \in Live
           /\ ticket' = [ticket EXCEPT ![call[w].ticket] = row]
           /\ reached' = [reached EXCEPT ![call[w].ticket] = @ \cup {row.status}]
  BY ReachedGrows DEF WritesRow

-----------------------------------------------------------------------------
(* The shapes of steps.                                                    *)

LEMMA Shapes ==
  ASSUME ServiceInv, [Next]_vars
  PROVE  \/ LeavesTables
         \/ \E w \in Workers : WritesRow(w) \/ InsertsEntry(w) \/ AddsStatus(w) \/ RemovesStatus(w)
<1>1. ASSUME NEW w \in Workers, Handle(w) PROVE LeavesTables
  <2>1. ASSUME NEW c, NEW f, Accept(w, c, f) PROVE LeavesTables
    BY <2>1 DEF Accept, LeavesTables, dbVars
  <2> QED BY <1>1, <2>1 DEF Handle, HandleCreateTicket, HandleUpdateTicket, HandleResolveTicket,
             HandleCloseTicket, HandleReopenTicket, HandleAddReply, HandleCreateStatus,
             HandleUpdateStatus, HandleDeleteStatus
<1>2. ASSUME NEW w \in Workers, InsertTicket(w) PROVE LeavesTables \/ WritesRow(w)
  <2>1. pc[w] = "insert" /\ call[w].ticket \in Tickets /\ sys.new \in Statuses
    BY <1>2, Busy, WhoRuns DEF InsertTicket, TicketOps, ServiceInv, TypeOK
  <2>2. CreatedRow(sys.new) \in Row /\ CreatedRow(sys.new) # Nil
    BY <2>1, CreatedRowIsRow, NilAssumption
  <2> QED BY <1>2, <2>1, <2>2 DEF InsertTicket, WritesRow, LeavesTables, ForeignKeyHolds
<1>3. ASSUME NEW w \in Workers, Write(w) PROVE LeavesTables \/ WritesRow(w)
  <2>1. pc[w] = "write" /\ call[w].ticket \in Tickets
    BY <1>3, Busy, WhoRuns DEF Write
  <2>2. ForeignKeyHolds(RowOf(w).status) => RowOf(w) \in Row /\ RowOf(w) # Nil
    BY <2>1, RowOfIsRow
  <2> QED BY <1>3, <2>1, <2>2 DEF Write, WritesRow, LeavesTables, ForeignKeyHolds
<1>4. ASSUME NEW w \in Workers, AnswerLost(w) PROVE WritesRow(w)
  <2>1. pc[w] \in {"insert", "write"} /\ call[w].ticket \in Tickets /\ sys.new \in Statuses
    BY <1>4, Busy, WhoRuns DEF AnswerLost, TicketOps, ServiceInv, TypeOK
  <2>2. CreatedRow(sys.new) \in Row /\ CreatedRow(sys.new) # Nil
    BY <2>1, CreatedRowIsRow, NilAssumption
  <2>3. pc[w] = "write" /\ ForeignKeyHolds(RowOf(w).status) => RowOf(w) \in Row /\ RowOf(w) # Nil
    BY RowOfIsRow
  <2> QED BY <1>4, <2>1, <2>2, <2>3 DEF AnswerLost, WritesRow, ForeignKeyHolds
<1>5. ASSUME NEW w \in Workers, Record(w) PROVE LeavesTables \/ InsertsEntry(w)
  <2>1. pc[w] = "record" /\ call[w].ticket \in Tickets
    BY <1>5, Busy, WhoRuns DEF Record
  <2>2. ForeignKeyHolds(EntryOf(w).to) => EntryOf(w) \in Entry
    BY <2>1, EntryOfIsEntry
  <2> QED BY <1>5, <2>1, <2>2 DEF Record, InsertsEntry, LeavesTables, ForeignKeyHolds
<1>6. ASSUME NEW w \in Workers, AddStatus(w) PROVE LeavesTables \/ AddsStatus(w)
  <2>1. pc[w] = "addStatus" /\ call[w].status \in Statuses
    BY <1>6, Busy, WhoRuns DEF AddStatus, WellFormed, StatusOps
  <2> QED BY <1>6, <2>1 DEF AddStatus, AddsStatus, LeavesTables
<1>7. ASSUME NEW w \in Workers, DeleteStatus(w) PROVE LeavesTables \/ RemovesStatus(w)
  <2>1. pc[w] = "deleteStatus" /\ call[w].status \in Statuses
    BY <1>7, Busy, WhoRuns DEF DeleteStatus, WellFormed, StatusOps
  <2> QED BY <1>7, <2>1 DEF DeleteStatus, RemovesStatus, LeavesTables
<1>8. ASSUME NEW w \in Workers,
             LookupTarget(w) \/ Get(w) \/ CheckTransition(w) \/ CheckReply(w) \/ InsertReply(w)
               \/ Announce(w) \/ GetStatus(w) \/ SaveStatus(w) \/ CountByStatus(w) \/ StatementFails(w)
      PROVE  LeavesTables
  BY <1>8 DEF LookupTarget, Get, CheckTransition, CheckReply, InsertReply, Announce, GetStatus,
              SaveStatus, CountByStatus, StatementFails, LeavesTables, dbVars
<1>9. CASE Restart \/ Tick \/ Exhausted \/ UNCHANGED vars
  BY <1>9 DEF Restart, Tick, Exhausted, LeavesTables, vars, dbVars
<1> QED BY <1>1, <1>2, <1>3, <1>4, <1>5, <1>6, <1>7, <1>8, <1>9 DEF Next, Step

-----------------------------------------------------------------------------
(* No dangling status.                                                     *)

LEMMA NextStatusRefs == ServiceInv /\ StatusRefs /\ [Next]_vars => StatusRefs'
<1> SUFFICES ASSUME ServiceInv, StatusRefs, [Next]_vars PROVE StatusRefs'
  OBVIOUS
<1>t. /\ ticket \in [Tickets -> Row \cup {Nil}] /\ history \in [Tickets -> Seq(Entry)]
      /\ life \in [Statuses -> {"unborn", "live", "gone"}]
  BY DEF ServiceInv, TypeOK
<1>1. CASE LeavesTables
  BY <1>1 DEF LeavesTables, StatusRefs, Live, Created
<1>2. ASSUME NEW w \in Workers, WritesRow(w) PROVE StatusRefs'
  <2>1. PICK row \in Row : row.status \in Live /\ ticket' = [ticket EXCEPT ![call[w].ticket] = row]
    BY <1>2 DEF WritesRow
  <2>2. Live' = Live /\ history' = history
    BY <1>2 DEF WritesRow, Live
  <2> QED BY <1>t, <2>1, <2>2 DEF StatusRefs, Created
<1>3. ASSUME NEW w \in Workers, InsertsEntry(w) PROVE StatusRefs'
  <2> DEFINE t == call[w].ticket
             e == EntryOf(w)
  <2>1. /\ t \in Tickets /\ e \in Entry /\ {e.from, e.to} \subseteq Live \cup {Nil}
        /\ history' = [history EXCEPT ![t] = Append(@, e)] /\ Live' = Live /\ ticket' = ticket
    BY <1>3 DEF InsertsEntry, Live
  <2> HIDE DEF e
  <2>2. history'[t] = Append(history[t], e) /\ \A u \in Tickets \ {t} : history'[u] = history[u]
    BY <1>t, <2>1
  <2>3. ASSUME NEW i \in DOMAIN history'[t]
        PROVE  {history'[t][i].from, history'[t][i].to} \subseteq Live \cup {Nil}
    <3>1. history'[t][i] = e \/ (i \in DOMAIN history[t] /\ history'[t][i] = history[t][i])
      BY <1>t, <2>1, <2>2, <2>3
    <3> QED BY <2>1, <3>1 DEF StatusRefs
  <2> QED BY <2>1, <2>2, <2>3 DEF StatusRefs, Created
<1>4. ASSUME NEW w \in Workers, AddsStatus(w) PROVE StatusRefs'
  <2>1. Live \subseteq Live' /\ ticket' = ticket /\ history' = history
    BY <1>t, <1>4 DEF AddsStatus, Live
  <2> QED BY <2>1 DEF StatusRefs, Created
<1>5. ASSUME NEW w \in Workers, RemovesStatus(w) PROVE StatusRefs'
  <2>1. /\ Live \ {call[w].status} \subseteq Live' /\ ticket' = ticket /\ history' = history
        /\ ~Referenced(call[w].status)
    BY <1>t, <1>5 DEF RemovesStatus, Live
  <2> QED BY <2>1 DEF StatusRefs, Created, Referenced
<1> QED BY <1>1, <1>2, <1>3, <1>4, <1>5, Shapes

LEMMA InitTables ==
  ASSUME Init, NEW t \in Tickets
  PROVE  ticket[t] = Nil /\ history[t] = <<>> /\ DOMAIN history[t] = {}
<1>1. ticket[t] = Nil /\ history[t] = <<>>
  BY DEF Init
<1>2. DOMAIN <<>> = {}
  OBVIOUS
<1> QED BY <1>1, <1>2

\* No ticket and no history row ever refers to a status that is not there, however
\* RemoveStatus overlaps with the operations on tickets.
THEOREM ServiceStatusRefs == Spec => []StatusRefs
<1>1. Init => StatusRefs
  BY InitTables DEF StatusRefs, Created
<1> QED BY <1>1, NextStatusRefs, InitService, NextService, PTL DEF Spec

-----------------------------------------------------------------------------
(* The history tells the truth.                                            *)

\* A status that will never exist again.
Dead(s) == s = Nil \/ life[s] = "gone"

\* What a worker holds is true of its ticket: its snapshot shows a status the
\* ticket has had, and so does the entry it is about to insert, unless that entry
\* is of a reporter's reply.  Of those the target may be Dead; its entry is then
\* refused.
TruthOK(w) ==
  LET c == call[w] IN
  /\ pc[w] \in {"idle", "insert"} => snap[w] = Nil
  /\ pc[w] \in {"check", "reply", "write", "record"} /\ snap[w] # Nil
       => snap[w].status \in reached[c.ticket]
  /\ pc[w] = "record" =>
       \/ target[w] \in reached[c.ticket]
       \/ c.op = "reply" /\ (MaxFaults = 0 => Dead(target[w]))
  /\ c # Nil /\ c.op = "reply" =>
       /\ pc[w] = "check" => "reopened" \notin outbox[w]
       /\ pc[w] = "reply" /\ "reopened" \in outbox[w] => c.role = "user"
       /\ pc[w] \in {"write", "record"} => c.role = "user"
       /\ pc[w] \in {"get", "check", "reply", "write", "record"} =>
            target[w] = Nil \/ life[target[w]] # "unborn"
  /\ pc[w] \in {"getStatus", "saveStatus", "count", "deleteStatus"} => life[c.status] # "unborn"

\* A status is being added by one request, and for the first time.
AddersOK ==
  \A w \in Workers : pc[w] = "addStatus" =>
    /\ life[call[w].status] = "unborn"
    /\ \A v \in Workers \ {w} : pc[v] = "addStatus" => call[v].status # call[w].status

TrueInv ==
  /\ ServiceInv
  /\ AddersOK
  /\ \A w \in Workers : TruthOK(w)
  /\ \A t \in Tickets : Created(t) => ticket[t].status \in reached[t]
  /\ HistoryIsTrue

\* What a step may do to the two tables TruthOK speaks of.
Forward ==
  /\ \A t \in Tickets : reached[t] \subseteq reached'[t]
  /\ \A s \in Statuses : /\ life[s] = "gone" => life'[s] = "gone"
                         /\ life[s] # "unborn" => life'[s] # "unborn"

LEMMA StepsGoForward ==
  ASSUME TrueInv, [Next]_vars
  PROVE  Forward
<1>t. /\ reached \in [Tickets -> SUBSET Statuses]
      /\ life \in [Statuses -> {"unborn", "live", "gone"}] /\ ServiceInv
  BY ReachedTyped DEF TrueInv, ServiceInv, TypeOK
<1>1. CASE LeavesTables
  BY <1>1, ReachedStays DEF LeavesTables, Forward
<1>2. ASSUME NEW w \in Workers, WritesRow(w) PROVE Forward
  <2>1. PICK row \in Row :
          reached' = [reached EXCEPT ![call[w].ticket] = @ \cup {row.status}]
    BY <1>t, <1>2, WriteReaches DEF ServiceInv
  <2>2. call[w].ticket \in Tickets /\ life' = life
    BY <1>2 DEF WritesRow
  <2> QED BY <1>t, <2>1, <2>2 DEF Forward
<1>3. ASSUME NEW w \in Workers, InsertsEntry(w) PROVE Forward
  BY <1>3, ReachedStays DEF InsertsEntry, Forward
<1>4. ASSUME NEW w \in Workers, AddsStatus(w) PROVE Forward
  BY <1>t, <1>4, ReachedStays DEF AddsStatus, Forward, TrueInv, AddersOK
<1>5. ASSUME NEW w \in Workers, RemovesStatus(w) PROVE Forward
  BY <1>t, <1>5, ReachedStays DEF RemovesStatus, Forward
<1> QED BY <1>t, <1>1, <1>2, <1>3, <1>4, <1>5, Shapes

Unmoved(v) ==
  /\ pc'[v] = pc[v] /\ call'[v] = call[v] /\ snap'[v] = snap[v]
  /\ target'[v] = target[v] /\ outbox'[v] = outbox[v]

Moves(w) == Handle(w) \/ Step(w) \/ StatementFails(w) \/ AnswerLost(w)

\* A worker moves alone.
LEMMA OthersUnmoved ==
  ASSUME ServiceInv, NEW w \in Workers, Moves(w), NEW v \in Workers \ {w}
  PROVE  Unmoved(v)
<1>t. LocalTypes
  BY DEF ServiceInv, TypeOK, LocalTypes
<1>1. ASSUME NEW c, NEW f, Accept(w, c, f) PROVE Unmoved(v)
  BY <1>t, <1>1 DEF Accept, Unmoved, LocalTypes
<1>2. CASE Idle(w)
  BY <1>t, <1>2 DEF Idle, Unmoved, LocalTypes
<1>3. CASE Handle(w)
  BY <1>1, <1>3 DEF Handle, HandleCreateTicket, HandleUpdateTicket, HandleResolveTicket,
             HandleCloseTicket, HandleReopenTicket, HandleAddReply, HandleCreateStatus,
             HandleUpdateStatus, HandleDeleteStatus
<1>4. CASE InsertTicket(w) \/ LookupTarget(w) \/ Get(w) \/ CheckTransition(w) \/ CheckReply(w)
             \/ InsertReply(w) \/ Record(w)
  BY <1>t, <1>2, <1>4 DEF InsertTicket, LookupTarget, Get, CheckTransition, CheckReply, InsertReply,
             Record, Goto, Unmoved, LocalTypes
<1>5. CASE Write(w) \/ StatementFails(w) \/ AnswerLost(w)
  BY <1>t, <1>2, <1>5 DEF Write, StatementFails, AnswerLost, WriteFails, Goto, Unmoved, LocalTypes
<1>6. CASE Announce(w)
  BY <1>t, <1>2, <1>6 DEF Announce, Return, Unmoved, LocalTypes
<1>7. CASE AddStatus(w) \/ GetStatus(w) \/ SaveStatus(w) \/ CountByStatus(w) \/ DeleteStatus(w)
  BY <1>t, <1>2, <1>7 DEF AddStatus, GetStatus, SaveStatus, CountByStatus, DeleteStatus, Goto,
             Unmoved, LocalTypes
<1> QED BY <1>3, <1>4, <1>5, <1>6, <1>7 DEF Moves, Step

LEMMA UnmovedTrue ==
  ASSUME TrueInv, Forward, NEW v \in Workers, Unmoved(v)
  PROVE  TruthOK(v)'
<1>1. TruthOK(v) /\ ServiceInv /\ target[v] \in Statuses \cup {Nil}
  BY DEF TrueInv, ServiceInv, TypeOK
<1>2. CASE pc[v] = "idle"
  BY <1>1, <1>2 DEF TruthOK, Unmoved
<1>3. CASE pc[v] # "idle"
  <2>1. /\ call[v].op \in TicketOps => call[v].ticket \in Tickets
        /\ pc[v] \in StepsOf(call[v].op) /\ call[v].op \in AllOps /\ WellFormed(call[v])
    BY <1>1, <1>3, Busy
  <2>2. pc[v] \in {"check", "reply", "write", "record"} => call[v].ticket \in Tickets
    BY <1>1, <2>1, WhoRuns DEF TicketOps
  <2>3. pc[v] \in {"getStatus", "saveStatus", "count", "deleteStatus"} => call[v].status \in Statuses
    BY <1>1, <2>1, WhoRuns DEF WellFormed, StatusOps
  <2> QED BY <1>1, <2>2, <2>3 DEF TruthOK, Unmoved, Forward, Dead
<1> QED BY <1>2, <1>3

LEMMA IdleTrue ==
  ASSUME ServiceInv, NEW w \in Workers, Idle(w)
  PROVE  TruthOK(w)'
<1>1. pc'[w] = "idle" /\ call'[w] = Nil /\ snap'[w] = Nil
  BY DEF ServiceInv, TypeOK, Idle
<1> QED BY <1>1 DEF TruthOK

LEMMA AcceptTrue ==
  ASSUME TrueInv, NEW w \in Workers, NEW c, NEW f, Accept(w, c, f), WellFormed(c),
         c.op \in {"saveStatus", "removeStatus"} => life[c.status] # "unborn"
  PROVE  TruthOK(w)'
<1>1. /\ pc'[w] = FirstStep(c.op) /\ call'[w] = c /\ snap'[w] = snap[w]
      /\ target'[w] = target[w] /\ outbox'[w] = outbox[w] /\ life' = life /\ snap[w] = Nil
  BY DEF Accept, TrueInv, TruthOK, ServiceInv, TypeOK, dbVars
<1>2. c.op \in AllOps
  BY DEF WellFormed, Call
<1>3. /\ FirstStep(c.op) \notin {"check", "reply", "write", "record", "saveStatus", "count", "deleteStatus"}
      /\ FirstStep(c.op) = "get" => c.op # "reply"
      /\ FirstStep(c.op) = "getStatus" => c.op \in {"saveStatus", "removeStatus"}
  BY <1>2 DEF FirstStep, AllOps, TicketOps, StatusOps
<1> HIDE DEF FirstStep
<1> QED BY <1>1, <1>3 DEF TruthOK

LEMMA HandleTrue ==
  ASSUME TrueInv, NEW w \in Workers, Handle(w)
  PROVE  TruthOK(w)'
<1>ops. /\ {"create", "resolve", "close", "reopen", "reply"} \subseteq TicketOps \ {"setStatus", "assign"}
        /\ StatusOps = {"addStatus", "saveStatus", "removeStatus"}
        /\ {"setStatus", "assign", "create", "resolve", "close", "reopen", "reply"}
              \cap {"saveStatus", "removeStatus"} = {}
        /\ Roles \subseteq Actors /\ "staff" \in Actors /\ Live \subseteq Statuses
        /\ \A s \in Live : life[s] # "unborn"
  BY DEF TicketOps, StatusOps, Roles, Actors, Live
<1>1. CASE HandleCreateTicket(w) \/ HandleResolveTicket(w) \/ HandleCloseTicket(w)
             \/ HandleReopenTicket(w) \/ HandleAddReply(w)
  <2>1. \E t \in Tickets, role \in Roles,
           op \in {"create", "resolve", "close", "reopen", "reply"} :
          \E f : Accept(w, OnTicket(op, role, t, Nil), f)
    BY <1>1 DEF HandleCreateTicket, HandleResolveTicket, HandleCloseTicket, HandleReopenTicket,
                HandleAddReply
  <2> QED BY <2>1, <1>ops, CallsAreWellFormed, AcceptTrue
<1>2. CASE HandleUpdateTicket(w)
  <2>1. \E t \in Tickets :
          \/ \E a \in Assignees : Accept(w, AssignCall("staff", t, a), Nil)
          \/ \E s \in Statuses, role \in Roles :
               \E f : Accept(w, OnTicket("setStatus", role, t, s), f)
    BY <1>2 DEF HandleUpdateTicket
  <2> QED BY <2>1, <1>ops, CallsAreWellFormed, AcceptTrue
<1>3. CASE HandleCreateStatus(w)
  <2>1. PICK s \in Statuses : Accept(w, OnStatus("addStatus", s, InitialName[s]), Nil)
    BY <1>3 DEF HandleCreateStatus
  <2>2. InitialName[s] \in Names
    BY ServiceAssumption
  <2> QED BY <2>1, <2>2, <1>ops, CallsAreWellFormed, AcceptTrue
<1>4. CASE HandleUpdateStatus(w) \/ HandleDeleteStatus(w)
  <2>1. PICK s \in Live, n \in Names \cup {Nil}, op \in {"saveStatus", "removeStatus"} :
          Accept(w, OnStatus(op, s, n), Nil)
    BY <1>4, ServiceAssumption DEF HandleUpdateStatus, HandleDeleteStatus
  <2>2. OnStatus(op, s, n).status = s
    BY DEF OnStatus, CallOf
  <2> QED BY <2>1, <2>2, <1>ops, CallsAreWellFormed, AcceptTrue
<1> QED BY <1>1, <1>2, <1>3, <1>4 DEF Handle

LEMMA GotoTrue ==
  ASSUME TrueInv, Forward, NEW w \in Workers, NEW step, Goto(w, step), pc[w] # "idle",
         step \in {"announce", "deleteStatus"}, step = "deleteStatus" => pc[w] = "count"
  PROVE  TruthOK(w)'
<1>1. /\ pc'[w] = step /\ call'[w] = call[w] /\ call[w] \in Call
  BY Busy DEF Goto, TrueInv, ServiceInv, TypeOK
<1>2. pc[w] = "count" => life[call[w].status] # "unborn" /\ call[w].status \in Statuses
  BY Busy, WhoRuns DEF TrueInv, TruthOK, WellFormed, StatusOps
<1> QED BY <1>1, <1>2 DEF TruthOK, Forward

LEMMA WriteFailsTrue ==
  ASSUME TrueInv, Forward, NEW w \in Workers, pc[w] = "write", WriteFails(w),
         call[w].op = "reply" /\ MaxFaults = 0 => Dead(target[w])'
  PROVE  TruthOK(w)'
<1>1. CASE call[w].op = "reply"
  <2>1. /\ pc'[w] = "record" /\ call'[w] = call[w] /\ snap'[w] = snap[w] /\ target'[w] = target[w]
    BY <1>1 DEF WriteFails, Goto, TrueInv, ServiceInv, TypeOK
  <2>2. /\ snap[w] \in Row /\ call[w].ticket \in Tickets /\ TruthOK(w) /\ call[w] # Nil
        /\ target[w] \in Statuses \cup {Nil}
    BY <1>1, Busy, WhoRuns, CallAssumption DEF TrueInv
  <2> QED BY <1>1, <2>1, <2>2 DEF TruthOK, Forward, Dead
<1>2. CASE call[w].op # "reply"
  BY <1>2, IdleTrue DEF WriteFails, TrueInv
<1> QED BY <1>1, <1>2

LEMMA StepTrue ==
  ASSUME TrueInv, Forward, NEW w \in Workers, Step(w)
  PROVE  TruthOK(w)'
<1> DEFINE c == call[w]
<1>t. /\ ServiceInv /\ TruthOK(w) /\ pc \in [Workers -> Steps]
      /\ call \in [Workers -> Call \cup {Nil}]
      /\ snap \in [Workers -> Row \cup {Nil}] /\ target \in [Workers -> Statuses \cup {Nil}]
      /\ outbox \in [Workers -> SUBSET EventTypes]
      /\ reached \in [Tickets -> SUBSET Statuses]
      /\ \A t \in Tickets : Created(t) => ticket[t].status \in reached[t]
  BY ReachedTyped DEF TrueInv, ServiceInv, TypeOK
<1>1. CASE InsertTicket(w)
  <2>1. /\ pc[w] = "insert" /\ c.op = "create" /\ c \in Call /\ c.ticket \in Tickets
        /\ sys.new \in Statuses
    BY <1>1, <1>t, Busy, WhoRuns DEF InsertTicket, TicketOps, ServiceInv, TypeOK
  <2>2. CASE Idle(w)
    BY <2>2, <1>t, IdleTrue
  <2>3. CASE ~Idle(w)
    <3>1. /\ Goto(w, "record") /\ snap' = snap /\ target' = [target EXCEPT ![w] = sys.new]
          /\ reached' = [reached EXCEPT ![c.ticket] = @ \cup {CreatedRow(sys.new).status}]
      BY <1>1, <2>1, <2>3, <1>t, ReachedGrows DEF InsertTicket, ServiceInv
    <3>2. CreatedRow(sys.new).status = sys.new
      BY <2>1, CreatedRowIsRow
    <3>3. /\ pc'[w] = "record" /\ call'[w] = c /\ snap'[w] = snap[w] /\ target'[w] = sys.new
          /\ sys.new \in reached'[c.ticket]
      BY <3>1, <3>2, <1>t, <2>1 DEF Goto
    <3>4. snap[w] = Nil
      BY <1>t, <2>1 DEF TruthOK
    <3> QED BY <2>1, <3>3, <3>4 DEF TruthOK
  <2> QED BY <2>2, <2>3
<1>2. CASE LookupTarget(w)
  <2>1. /\ pc[w] = "lookup" /\ c.op \in {"reopen", "reply"} /\ c \in Call
        /\ Goto(w, "get") /\ target' = [target EXCEPT ![w] = StatusNamed(ReopenTarget)]
        /\ life' = life
    BY <1>2, <1>t, Busy, WhoRuns DEF LookupTarget, dbVars
  <2>2. /\ pc'[w] = "get" /\ call'[w] = c /\ target'[w] = StatusNamed(ReopenTarget)
    BY <1>t, <2>1 DEF Goto
  <2>3. target'[w] = Nil \/ life'[target'[w]] # "unborn"
    BY <2>1, <2>2, NamedStatus DEF Live
  <2> QED BY <2>2, <2>3 DEF TruthOK
<1>3. CASE Get(w)
  <2>1. /\ pc[w] = "get" /\ c.op \in TicketOps \ {"create"} /\ c \in Call /\ c.ticket \in Tickets
        /\ ticket[c.ticket] \in Row /\ Created(c.ticket)
        /\ life' = life /\ reached' = reached
    BY <1>3, <1>t, ReachedStays, Busy, WhoRuns, NilAssumption DEF Get, dbVars, Created
  <2>2. CASE Idle(w)
    BY <2>2, <1>t, IdleTrue
  <2>3. CASE ~Idle(w)
    <3>1. \E step \in {"check", "write"} :
            /\ Goto(w, step) /\ (step = "write" => c.op # "reply")
            /\ snap' = [snap EXCEPT ![w] = ticket[c.ticket]]
            /\ target' = [target EXCEPT ![w] = TargetOf(w)]
            /\ outbox' = [outbox EXCEPT ![w] = {EventOf(c.op)}]
      BY <1>3, <2>3 DEF Get
    <3>2. /\ pc'[w] \in {"check", "write"} /\ (pc'[w] = "write" => c.op # "reply")
          /\ call'[w] = c /\ snap'[w] = ticket[c.ticket] /\ target'[w] = TargetOf(w)
          /\ outbox'[w] = {EventOf(c.op)}
      BY <3>1, <1>t DEF Goto
    <3>3. c.op = "reply" => TargetOf(w) = target[w] /\ EventOf(c.op) = "replied"
      BY DEF TargetOf, EventOf
    <3>4. c.op = "reply" => target[w] = Nil \/ life[target[w]] # "unborn"
      BY <1>t, <2>1, CallAssumption DEF TruthOK
    <3>5. snap'[w].status \in reached'[c.ticket]
      BY <1>t, <2>1, <3>2
    <3> QED BY <2>1, <3>2, <3>3, <3>4, <3>5 DEF TruthOK
  <2> QED BY <2>2, <2>3
<1>4. CASE CheckTransition(w)
  <2>1. /\ pc[w] = "check" /\ c.op = "setStatus" /\ c \in Call /\ reached' = reached /\ life' = life
    BY <1>4, <1>t, ReachedStays, Busy DEF CheckTransition, dbVars
  <2>2. CASE Idle(w)
    BY <2>2, <1>t, IdleTrue
  <2>3. CASE ~Idle(w)
    <3>1. Goto(w, "write") /\ UNCHANGED <<snap, target, outbox>>
      BY <1>4, <2>3 DEF CheckTransition
    <3>2. pc'[w] = "write" /\ call'[w] = c /\ snap' = snap
      BY <3>1, <1>t DEF Goto
    <3> QED BY <1>t, <2>1, <3>2 DEF TruthOK
  <2> QED BY <2>2, <2>3
<1>5. CASE CheckReply(w)
  <2>1. /\ pc[w] = "check" /\ c.op = "reply" /\ c \in Call /\ c # Nil
        /\ reached' = reached /\ life' = life
    BY <1>5, <1>t, ReachedStays, Busy, CallAssumption DEF CheckReply, dbVars
  <2>2. CASE Idle(w)
    BY <2>2, <1>t, IdleTrue
  <2>3. CASE ~Idle(w)
    <3>1. /\ \E more \in {{}, {"reopened"}} : /\ outbox' = [outbox EXCEPT ![w] = @ \cup more]
                                              /\ more # {} => c.role = "user"
          /\ Goto(w, "reply") /\ UNCHANGED <<snap, target>>
      BY <1>5, <2>3 DEF CheckReply
    <3>2. /\ pc'[w] = "reply" /\ call'[w] = c /\ snap' = snap /\ target' = target
          /\ "reopened" \in outbox'[w] /\ "reopened" \notin outbox[w] => c.role = "user"
      BY <3>1, <1>t DEF Goto
    <3> QED BY <1>t, <2>1, <3>2 DEF TruthOK
  <2> QED BY <2>2, <2>3
<1>6. CASE InsertReply(w)
  <2>1. /\ pc[w] = "reply" /\ c.op = "reply" /\ c \in Call /\ c # Nil
        /\ reached' = reached /\ life' = life /\ snap' = snap /\ target' = target
        /\ Goto(w, IF "reopened" \in outbox[w] THEN "write" ELSE "announce")
    BY <1>6, <1>t, ReachedStays, Busy, WhoRuns, CallAssumption DEF InsertReply
  <2>2. /\ pc'[w] \in {"write", "announce"} /\ call'[w] = c
        /\ pc'[w] = "write" => "reopened" \in outbox[w]
    BY <2>1, <1>t DEF Goto
  <2> QED BY <1>t, <2>1, <2>2 DEF TruthOK
<1>7. CASE Write(w)
  <2>1. /\ pc[w] = "write" /\ c.op \in TicketOps \ {"create"} /\ c \in Call /\ c # Nil
        /\ c.ticket \in Tickets /\ snap[w] \in Row /\ target[w] \in Statuses \cup {Nil}
        /\ life' = life
    BY <1>7, <1>t, Busy, WhoRuns, CallAssumption DEF Write
  <2>2. CASE ForeignKeyHolds(RowOf(w).status)
    <3>1. /\ Goto(w, IF c.op = "assign" THEN "announce" ELSE "record")
          /\ UNCHANGED <<snap, target, outbox>>
          /\ reached' = [reached EXCEPT ![c.ticket] = @ \cup {RowOf(w).status}]
      BY <1>7, <1>t, <2>1, <2>2, ReachedGrows DEF Write, ServiceInv
    <3>2. c.op # "assign" => target[w] \in reached'[c.ticket]
      BY <1>t, <2>1, <2>2, <3>1, RowOfIsRow
    <3>3. /\ pc'[w] = IF c.op = "assign" THEN "announce" ELSE "record"
          /\ call'[w] = c /\ snap' = snap /\ target' = target
      BY <3>1, <1>t DEF Goto
    <3> QED BY <1>t, <2>1, <3>2, <3>3 DEF TruthOK, Forward
  <2>3. CASE ~ForeignKeyHolds(RowOf(w).status)
    <3>1. WriteFails(w)
      BY <1>7, <2>3 DEF Write
    <3>2. c.op = "reply" => Dead(target[w])'
      <4> SUFFICES ASSUME c.op = "reply" PROVE Dead(target[w])'
        OBVIOUS
      <4>1. RowOf(w).status = target[w]
        BY <2>1 DEF RowOf, ReplyReopenedRow, Row
      <4>2. target[w] \notin Live /\ (target[w] = Nil \/ life[target[w]] # "unborn")
        BY <1>t, <2>1, <2>3, <4>1 DEF ForeignKeyHolds, TruthOK
      <4>3. Dead(target[w])
        BY <2>1, <4>2 DEF Dead, Live, TrueInv, ServiceInv, TypeOK
      <4>4. target'[w] = target[w]
        BY <3>1, <1>t DEF WriteFails
      <4> QED BY <2>1, <4>3, <4>4 DEF Dead
    <3> QED BY <2>1, <3>1, <3>2, WriteFailsTrue
  <2> QED BY <2>2, <2>3
<1>8. CASE Record(w) \/ CountByStatus(w)
  <2>1. CASE Idle(w)
    BY <2>1, <1>t, IdleTrue
  <2>2. CASE ~Idle(w)
    BY <1>8, <2>2, GotoTrue DEF Record, CountByStatus
  <2> QED BY <2>1, <2>2
<1>9. CASE Announce(w)
  <2>1. CASE followUp[w] = Nil
    BY <1>9, <2>1, <1>t, IdleTrue DEF Announce, Return
  <2>2. CASE followUp[w] # Nil
    <3>1. followUp[w].op = "assign" /\ FirstStep("assign") = "get"
      BY <1>9, <1>t, <2>2 DEF Announce, FirstStep, ServiceInv, WorkersOK, WorkerOK
    <3>2. pc'[w] = "get" /\ call'[w].op = "assign"
      BY <1>9, <1>t, <2>2, <3>1 DEF Announce, Return
    <3> QED BY <3>2 DEF TruthOK
  <2> QED BY <2>1, <2>2
<1>10. CASE AddStatus(w) \/ SaveStatus(w) \/ DeleteStatus(w)
  BY <1>10, <1>t, IdleTrue DEF AddStatus, SaveStatus, DeleteStatus
<1>11. CASE GetStatus(w)
  <2>1. CASE Idle(w)
    BY <2>1, <1>t, IdleTrue
  <2>2. CASE ~Idle(w)
    <3>1. /\ pc[w] = "getStatus" /\ c \in Call /\ c.op \in {"saveStatus", "removeStatus"}
          /\ life' = life /\ life[c.status] # "unborn"
      BY <1>11, <1>t, Busy, WhoRuns DEF GetStatus, dbVars, TruthOK
    <3>2. /\ call' = [call EXCEPT ![w].name = IF @ = Nil THEN nameOf[c.status] ELSE @]
          /\ pc' = [pc EXCEPT ![w] = IF c.op = "saveStatus" THEN "saveStatus" ELSE "count"]
      BY <1>11, <2>2 DEF GetStatus
    <3>3. /\ call'[w].op = c.op /\ call'[w].status = c.status /\ pc'[w] \in {"saveStatus", "count"}
      BY <3>1, <3>2, <1>t DEF Call
    <3> QED BY <3>1, <3>3 DEF TruthOK
  <2> QED BY <2>1, <2>2
<1> QED
  BY <1>1, <1>2, <1>3, <1>4, <1>5, <1>6, <1>7, <1>8, <1>9, <1>10, <1>11 DEF Step

LEMMA FailureTrue ==
  ASSUME TrueInv, Forward, NEW w \in Workers, StatementFails(w) \/ AnswerLost(w)
  PROVE  TruthOK(w)'
<1>t. ServiceInv
  BY DEF TrueInv
<1>1. MaxFaults # 0
  BY ServiceAssumption DEF StatementFails, AnswerLost, TrueInv, ServiceInv, TypeOK
<1>2. CASE Idle(w)
  BY <1>2, <1>t, IdleTrue
<1>3. CASE pc[w] = "write" /\ WriteFails(w)
  BY <1>1, <1>3, WriteFailsTrue
<1>4. CASE pc[w] = "record" /\ Goto(w, "announce")
  BY <1>4, GotoTrue
<1> QED BY <1>2, <1>3, <1>4 DEF StatementFails, AnswerLost

LEMMA AllTrue ==
  ASSUME TrueInv, [Next]_vars
  PROVE  \A v \in Workers : TruthOK(v)'
<1>1. Forward
  BY StepsGoForward
<1>2. ASSUME NEW w \in Workers, Moves(w), NEW v \in Workers PROVE TruthOK(v)'
  <2>1. CASE v = w
    BY <1>1, <1>2, <2>1, HandleTrue, StepTrue, FailureTrue DEF Moves
  <2>2. CASE v # w
    BY <1>1, <1>2, <2>2, OthersUnmoved, UnmovedTrue DEF TrueInv
  <2> QED BY <2>1, <2>2
<1>3. CASE Restart
  BY <1>3 DEF Restart, TruthOK
<1>4. CASE Tick \/ Exhausted \/ UNCHANGED vars
  <2>1. ASSUME NEW v \in Workers PROVE Unmoved(v)
    BY <1>4 DEF Tick, Exhausted, vars, workerVars, Unmoved
  <2> QED BY <1>1, <2>1, UnmovedTrue
<1> QED BY <1>2, <1>3, <1>4 DEF Next, Moves

\* Only the handler of a new status makes a worker add one.
LEMMA Adders ==
  ASSUME TrueInv, [Next]_vars
  PROVE  AddersOK'
<1>t. ServiceInv /\ AddersOK /\ LocalTypes /\ life \in [Statuses -> {"unborn", "live", "gone"}]
  BY DEF TrueInv, ServiceInv, TypeOK, LocalTypes
<1> DEFINE Adding(v) == pc[v] = "addStatus"
           AddingNow(v) == pc'[v] = "addStatus"
<1>1. ASSUME \A v \in Workers : AddingNow(v) => Adding(v) /\ call'[v] = call[v],
             \A v \in Workers : AddingNow(v) => life'[call[v].status] = life[call[v].status]
      PROVE  AddersOK'
  BY <1>t, <1>1 DEF AddersOK
<1>2. ASSUME NEW w \in Workers, Idle(w), \A s \in Statuses : life'[s] = life[s]
      PROVE  AddersOK'
  <2>1. /\ pc'[w] = "idle"
        /\ \A v \in Workers \ {w} : pc'[v] = pc[v] /\ call'[v] = call[v]
    BY <1>t, <1>2 DEF Idle, LocalTypes
  <2>2. \A v \in Workers : Adding(v) => call[v].status \in Statuses
    BY <1>t, Busy, WhoRuns DEF WellFormed, StatusOps
  <2> QED BY <1>1, <1>2, <2>1, <2>2
<1>3. ASSUME NEW w \in Workers, NEW step, Goto(w, step), step # "addStatus", life' = life
      PROVE  AddersOK'
  <2>1. /\ pc'[w] = step /\ \A v \in Workers \ {w} : pc'[v] = pc[v]
        /\ call' = call
    BY <1>t, <1>3 DEF Goto, LocalTypes
  <2> QED BY <1>1, <1>3, <2>1
<1>4. ASSUME NEW w \in Workers, NEW c, NEW f, Accept(w, c, f), c.op \in AllOps \ {"addStatus"}
      PROVE  AddersOK'
  <2>1. FirstStep(c.op) # "addStatus"
    BY <1>4 DEF FirstStep, AllOps, TicketOps, StatusOps
  <2>2. /\ pc'[w] = FirstStep(c.op) /\ life' = life
        /\ \A v \in Workers \ {w} : pc'[v] = pc[v] /\ call'[v] = call[v]
    BY <1>t, <1>4 DEF Accept, dbVars, LocalTypes
  <2> QED BY <1>1, <2>1, <2>2
<1>5. ASSUME NEW w \in Workers, HandleCreateStatus(w) PROVE AddersOK'
  <2>1. PICK s \in Statuses :
          /\ life[s] = "unborn"
          /\ \A v \in Workers : call[v] # Nil => ~(call[v].op = "addStatus" /\ call[v].status = s)
          /\ Accept(w, OnStatus("addStatus", s, InitialName[s]), Nil)
    BY <1>5 DEF HandleCreateStatus
  <2>2. /\ call'[w].status = s /\ life' = life
        /\ \A v \in Workers \ {w} : pc'[v] = pc[v] /\ call'[v] = call[v]
    BY <1>t, <2>1 DEF Accept, dbVars, LocalTypes, OnStatus, CallOf
  <2>3. \A v \in Workers : Adding(v) => call[v].op = "addStatus" /\ call[v] # Nil
    BY <1>t, Busy, WhoRuns, CallAssumption
  <2> QED BY <1>t, <2>1, <2>2, <2>3 DEF AddersOK
<1>6. ASSUME NEW w \in Workers, Handle(w) PROVE AddersOK'
  <2> DEFINE Others == {"create", "setStatus", "assign", "resolve", "close", "reopen", "reply",
                        "saveStatus", "removeStatus"}
  <2>1. Others \subseteq AllOps \ {"addStatus"}
    BY DEF AllOps, TicketOps, StatusOps
  <2>2. ASSUME NEW op \in Others, NEW role, NEW t, NEW s, NEW f, Accept(w, OnTicket(op, role, t, s), f)
        PROVE  AddersOK'
    <3>1. OnTicket(op, role, t, s).op = op
      BY DEF OnTicket, CallOf
    <3> QED BY <1>4, <2>1, <2>2, <3>1
  <2>3. ASSUME NEW t, NEW a, NEW f, Accept(w, AssignCall("staff", t, a), f)
        PROVE  AddersOK'
    <3>1. AssignCall("staff", t, a).op = "assign"
      BY DEF AssignCall, CallOf
    <3> QED BY <1>4, <2>1, <2>3, <3>1
  <2>4. ASSUME NEW op \in {"saveStatus", "removeStatus"}, NEW s, NEW n, Accept(w, OnStatus(op, s, n), Nil)
        PROVE  AddersOK'
    <3>1. OnStatus(op, s, n).op = op
      BY DEF OnStatus, CallOf
    <3> QED BY <1>4, <2>1, <2>4, <3>1
  <2>5. CASE HandleCreateTicket(w)
    BY <2>2, <2>5 DEF HandleCreateTicket
  <2>6. CASE HandleUpdateTicket(w)
    BY <2>2, <2>3, <2>6 DEF HandleUpdateTicket
  <2>7. CASE HandleResolveTicket(w)
    BY <2>2, <2>7 DEF HandleResolveTicket
  <2>8. CASE HandleCloseTicket(w)
    BY <2>2, <2>8 DEF HandleCloseTicket
  <2>9. CASE HandleReopenTicket(w)
    BY <2>2, <2>9 DEF HandleReopenTicket
  <2>10. CASE HandleAddReply(w)
    BY <2>2, <2>10 DEF HandleAddReply
  <2>11. CASE HandleUpdateStatus(w)
    BY <2>4, <2>11 DEF HandleUpdateStatus
  <2>12. CASE HandleDeleteStatus(w)
    BY <2>4, <2>12 DEF HandleDeleteStatus
  <2> QED BY <1>5, <1>6, <2>5, <2>6, <2>7, <2>8, <2>9, <2>10, <2>11, <2>12 DEF Handle
<1>7. ASSUME NEW w \in Workers,
             \/ InsertTicket(w) \/ LookupTarget(w) \/ Get(w) \/ CheckTransition(w) \/ CheckReply(w)
             \/ InsertReply(w) \/ Write(w) \/ Record(w) \/ SaveStatus(w) \/ CountByStatus(w)
             \/ StatementFails(w) \/ AnswerLost(w)
      PROVE  AddersOK'
  <2>1. life' = life
    BY <1>7 DEF InsertTicket, LookupTarget, Get, CheckTransition, CheckReply, InsertReply, Write,
             Record, SaveStatus, CountByStatus, StatementFails, AnswerLost, dbVars
  <2>2. Idle(w) \/ \E step : Goto(w, step) /\ step # "addStatus"
    BY <1>7 DEF InsertTicket, LookupTarget, Get, CheckTransition, CheckReply, InsertReply, Write,
             Record, SaveStatus, CountByStatus, StatementFails, AnswerLost, WriteFails
  <2> QED BY <1>2, <1>3, <2>1, <2>2
<1>8. ASSUME NEW w \in Workers, Announce(w) PROVE AddersOK'
  <2>1. CASE followUp[w] = Nil
    BY <1>2, <1>8, <2>1 DEF Announce, Return, dbVars
  <2>2. CASE followUp[w] # Nil
    <3>1. followUp[w].op = "assign" /\ FirstStep("assign") = "get"
      BY <1>8, <1>t, <2>2 DEF Announce, FirstStep, ServiceInv, WorkersOK, WorkerOK
    <3>2. /\ pc'[w] = "get" /\ life' = life
          /\ \A v \in Workers \ {w} : pc'[v] = pc[v] /\ call'[v] = call[v]
      BY <1>8, <1>t, <2>2, <3>1 DEF Announce, Return, dbVars, LocalTypes
    <3> QED BY <1>1, <3>2
  <2> QED BY <2>1, <2>2
<1>9. ASSUME NEW w \in Workers, AddStatus(w) PROVE AddersOK'
  <2>1. /\ pc[w] = "addStatus" /\ Idle(w)
        /\ life' \in {life, [life EXCEPT ![call[w].status] = "live"]}
    BY <1>9 DEF AddStatus
  <2>2. /\ pc'[w] = "idle"
        /\ \A v \in Workers \ {w} : pc'[v] = pc[v] /\ call'[v] = call[v]
    BY <1>t, <2>1 DEF Idle, LocalTypes
  <2>3. \A v \in Workers \ {w} : Adding(v) => call[v].status \in Statuses /\ call[v].status # call[w].status
    BY <1>t, <2>1, Busy, WhoRuns DEF AddersOK, WellFormed, StatusOps
  <2> QED BY <1>1, <1>t, <2>1, <2>2, <2>3
<1>10. ASSUME NEW w \in Workers, DeleteStatus(w) PROVE AddersOK'
  <2>1. /\ pc[w] = "deleteStatus" /\ Idle(w)
        /\ life' \in {life, [life EXCEPT ![call[w].status] = "gone"]}
        /\ life[call[w].status] # "unborn"
    BY <1>10 DEF DeleteStatus, TrueInv, TruthOK
  <2>2. /\ pc'[w] = "idle"
        /\ \A v \in Workers \ {w} : pc'[v] = pc[v] /\ call'[v] = call[v]
    BY <1>t, <2>1 DEF Idle, LocalTypes
  <2>3. \A v \in Workers : Adding(v) => call[v].status # call[w].status /\ call[v].status \in Statuses
    BY <1>t, <2>1, Busy, WhoRuns DEF AddersOK, WellFormed, StatusOps
  <2> QED BY <1>1, <1>t, <2>1, <2>2, <2>3
<1>11. ASSUME NEW w \in Workers, GetStatus(w) PROVE AddersOK'
  <2>1. CASE Idle(w)
    BY <1>2, <1>11, <2>1 DEF GetStatus, dbVars
  <2>2. CASE ~Idle(w)
    <3>1. /\ pc'[w] \in {"saveStatus", "count"} /\ life' = life
          /\ \A v \in Workers \ {w} : pc'[v] = pc[v] /\ call'[v] = call[v]
      BY <1>11, <1>t, <2>2 DEF GetStatus, dbVars, LocalTypes
    <3> QED BY <1>1, <3>1
  <2> QED BY <2>1, <2>2
<1>12. CASE Restart
  BY <1>12 DEF Restart, AddersOK
<1>13. CASE Tick \/ Exhausted \/ UNCHANGED vars
  BY <1>1, <1>13 DEF Tick, Exhausted, vars, workerVars, dbVars
<1> QED
  BY <1>6, <1>7, <1>8, <1>9, <1>10, <1>11, <1>12, <1>13 DEF Next, Step

LEMMA RowsReached ==
  ASSUME TrueInv, [Next]_vars
  PROVE  (\A t \in Tickets : Created(t) => ticket[t].status \in reached[t])'
<1>t. /\ ticket \in [Tickets -> Row \cup {Nil}] /\ reached \in [Tickets -> SUBSET Statuses]
      /\ ServiceInv /\ \A t \in Tickets : Created(t) => ticket[t].status \in reached[t]
  BY ReachedTyped DEF TrueInv, ServiceInv, TypeOK
<1>1. ASSUME UNCHANGED <<ticket, versions>>
      PROVE  (\A t \in Tickets : Created(t) => ticket[t].status \in reached[t])'
  BY <1>t, <1>1, ReachedStays DEF Created
<1>2. ASSUME NEW w \in Workers, WritesRow(w)
      PROVE  (\A t \in Tickets : Created(t) => ticket[t].status \in reached[t])'
  <2>1. PICK row \in Row :
          /\ ticket' = [ticket EXCEPT ![call[w].ticket] = row]
          /\ reached' = [reached EXCEPT ![call[w].ticket] = @ \cup {row.status}]
    BY <1>t, <1>2, WriteReaches DEF ServiceInv
  <2>2. call[w].ticket \in Tickets
    BY <1>2 DEF WritesRow
  <2> QED BY <1>t, <2>1, <2>2 DEF Created
<1> QED BY <1>t, <1>1, <1>2, Shapes DEF LeavesTables, InsertsEntry, AddsStatus, RemovesStatus

LEMMA EntriesTrue ==
  ASSUME TrueInv, [Next]_vars
  PROVE  HistoryIsTrue'
<1>t. /\ history \in [Tickets -> Seq(Entry)] /\ ServiceInv /\ HistoryIsTrue /\ Forward
  BY StepsGoForward DEF TrueInv, ServiceInv, TypeOK
<1>1. ASSUME history' = history PROVE HistoryIsTrue'
  BY <1>t, <1>1 DEF HistoryIsTrue, Forward
<1>2. ASSUME NEW w \in Workers, InsertsEntry(w) PROVE HistoryIsTrue'
  <2> DEFINE t == call[w].ticket
             e == EntryOf(w)
  <2>1. /\ pc[w] = "record" /\ t \in Tickets /\ e \in Entry /\ e.to \in Live
        /\ history' = [history EXCEPT ![t] = Append(@, e)] /\ reached' = reached
    BY <1>2, ReachedStays DEF InsertsEntry
  <2>2. TruthOK(w) /\ call[w] # Nil
    BY <1>t, <2>1, Busy, CallAssumption DEF TrueInv
  <2>3. e.from \in reached[t] \cup {Nil}
    BY <2>1, <2>2 DEF TruthOK, EntryOf
  <2>4. MaxFaults = 0 \/ e.by # "user" => e.to \in reached[t]
    <3>1. e.to = target[w] /\ (call[w].op = "reply" => e.by = call[w].role)
      BY DEF EntryOf
    <3>2. ~Dead(target[w])
      BY <2>1, <3>1, NilAssumption DEF Dead, Live
    <3> QED BY <2>1, <2>2, <3>1, <3>2 DEF TruthOK
  <2> HIDE DEF e
  <2>5. history'[t] = Append(history[t], e) /\ \A u \in Tickets \ {t} : history'[u] = history[u]
    BY <1>t, <2>1
  <2>6. ASSUME NEW i \in DOMAIN history'[t]
        PROVE  LET d == history'[t][i] IN
               MaxFaults = 0 \/ d.by # "user" => {d.from, d.to} \subseteq reached'[t] \cup {Nil}
    <3>1. history'[t][i] = e \/ (i \in DOMAIN history[t] /\ history'[t][i] = history[t][i])
      BY <1>t, <2>1, <2>5, <2>6
    <3> QED BY <1>t, <2>1, <2>3, <2>4, <3>1 DEF HistoryIsTrue
  <2>7. ASSUME NEW u \in Tickets \ {t}, NEW i \in DOMAIN history'[u]
        PROVE  LET d == history'[u][i] IN
               MaxFaults = 0 \/ d.by # "user" => {d.from, d.to} \subseteq reached'[u] \cup {Nil}
    BY <1>t, <2>1, <2>5, <2>7 DEF HistoryIsTrue
  <2> QED BY <2>6, <2>7 DEF HistoryIsTrue
<1> QED BY <1>t, <1>1, <1>2, Shapes DEF LeavesTables, WritesRow, AddsStatus, RemovesStatus

LEMMA InitTrue == Init => TrueInv
<1> SUFFICES ASSUME Init PROVE TrueInv
  OBVIOUS
<1>1. \A w \in Workers : pc[w] = "idle" /\ snap[w] = Nil /\ call[w] = Nil
  BY DEF Init
<1>2. \A w \in Workers : TruthOK(w)
  BY <1>1 DEF TruthOK
<1>3. AddersOK
  BY <1>1 DEF AddersOK
<1>4. HistoryIsTrue /\ \A t \in Tickets : ~Created(t)
  BY InitTables DEF HistoryIsTrue, Created
<1> QED BY <1>2, <1>3, <1>4, InitService DEF TrueInv

LEMMA NextTrue == TrueInv /\ [Next]_vars => TrueInv'
<1> SUFFICES ASSUME TrueInv, [Next]_vars PROVE TrueInv'
  OBVIOUS
<1>1. ServiceInv'
  BY NextService DEF TrueInv
<1> QED BY <1>1, Adders, AllTrue, RowsReached, EntriesTrue DEF TrueInv

\* The history of a ticket never tells of a status the ticket did not have, whatever
\* the overlap of requests, the statements that fail and the restarts.
THEOREM ServiceHistoryIsTrue == Spec => []HistoryIsTrue
<1>1. TrueInv => HistoryIsTrue
  BY DEF TrueInv
<1> QED BY <1>1, InitTrue, NextTrue, PTL DEF Spec

-----------------------------------------------------------------------------
(* The current status is one the history tells of, or is about to.         *)

\* Nothing fails, the process does not restart, and no status is removed.
Undisturbed == MaxFaults = 0 /\ MaxRestarts = 0 /\ "removeStatus" \notin Ops

Known(t, s) == Recorded(t, s) \/ Recording(t, s)

\* The same of the next state, for a ticket and a status of this one.
KnownNext(t, s) ==
  \/ \E i \in DOMAIN history'[t] : history'[t][i].to = s
  \/ \E w \in Workers : pc'[w] = "record" /\ call'[w].ticket = t /\ target'[w] = s

OpsOffered ==
  \A w \in Workers : /\ call[w] # Nil => call[w].op \in Ops
                     /\ followUp[w] # Nil => followUp[w].op \in Ops

SnapKnown(w) ==
  pc[w] \in {"check", "reply", "write", "record"} /\ snap[w] # Nil =>
    snap[w].status \in Live /\ Known(call[w].ticket, snap[w].status)

KnownInv ==
  /\ TrueInv /\ StatusRefs /\ OpsOffered
  /\ \A w \in Workers : SnapKnown(w)
  /\ CurrentStatusRecorded

\* The requests are those of Ops.
LEMMA Offered ==
  ASSUME ServiceInv, OpsOffered, [Next]_vars
  PROVE  OpsOffered'
<1>t. LocalTypes
  BY DEF ServiceInv, TypeOK, LocalTypes
<1>1. ASSUME NEW w \in Workers, Handle(w) PROVE OpsOffered'
  <2>1. \E c, f : Accept(w, c, f)
    BY <1>1 DEF Handle, HandleCreateTicket, HandleUpdateTicket, HandleResolveTicket,
             HandleCloseTicket, HandleReopenTicket, HandleAddReply, HandleCreateStatus,
             HandleUpdateStatus, HandleDeleteStatus
  <2> QED BY <1>t, <2>1 DEF Accept, OpsOffered, LocalTypes
<1>2. ASSUME NEW w \in Workers, Idle(w) PROVE OpsOffered'
  BY <1>t, <1>2 DEF Idle, OpsOffered, LocalTypes
<1>3. ASSUME UNCHANGED <<call, followUp>> PROVE OpsOffered'
  BY <1>3 DEF OpsOffered
<1>4. ASSUME NEW w \in Workers,
             \/ InsertTicket(w) \/ LookupTarget(w) \/ Get(w) \/ CheckTransition(w) \/ CheckReply(w)
             \/ InsertReply(w) \/ Write(w) \/ Record(w) \/ CountByStatus(w)
             \/ AddStatus(w) \/ SaveStatus(w) \/ DeleteStatus(w)
             \/ StatementFails(w) \/ AnswerLost(w)
      PROVE  OpsOffered'
  <2>1. Idle(w) \/ UNCHANGED <<call, followUp>>
    BY <1>4 DEF InsertTicket, LookupTarget, Get, CheckTransition, CheckReply, InsertReply, Write,
             Record, SaveStatus, CountByStatus, StatementFails, AnswerLost, WriteFails, AddStatus,
             DeleteStatus, Goto
  <2> QED BY <1>2, <1>3, <2>1
<1>5. ASSUME NEW w \in Workers, Announce(w) PROVE OpsOffered'
  <2>1. CASE followUp[w] = Nil
    BY <1>2, <1>5, <2>1 DEF Announce, Return
  <2>2. CASE followUp[w] # Nil
    BY <1>5, <1>t, <2>2 DEF Announce, Return, OpsOffered, LocalTypes
  <2> QED BY <2>1, <2>2
<1>6. ASSUME NEW w \in Workers, GetStatus(w) PROVE OpsOffered'
  <2>1. CASE Idle(w)
    BY <1>2, <2>1
  <2>2. CASE ~Idle(w)
    <3>1. /\ call[w] \in Call /\ call[w] # Nil /\ followUp' = followUp
          /\ call' = [call EXCEPT ![w].name = IF @ = Nil THEN nameOf[call[w].status] ELSE @]
      BY <1>6, <2>2, Busy, CallAssumption DEF GetStatus
    <3>2. call'[w].op = call[w].op /\ \A v \in Workers \ {w} : call'[v] = call[v]
      BY <1>t, <3>1 DEF LocalTypes, Call
    <3> QED BY <3>1, <3>2 DEF OpsOffered
  <2> QED BY <2>1, <2>2
<1>7. CASE Restart
  BY <1>7 DEF Restart, OpsOffered
<1>8. CASE Tick \/ Exhausted \/ UNCHANGED vars
  BY <1>3, <1>8 DEF Tick, Exhausted, vars, workerVars
<1> QED BY <1>1, <1>4, <1>5, <1>6, <1>7, <1>8 DEF Next, Step

\* While no status is removed, a status that exists goes on existing.
LEMMA LiveStays ==
  ASSUME Undisturbed, KnownInv, [Next]_vars
  PROVE  Live \subseteq Live'
<1>t. ServiceInv /\ life \in [Statuses -> {"unborn", "live", "gone"}]
  BY DEF KnownInv, TrueInv, ServiceInv, TypeOK
<1>1. ASSUME NEW w \in Workers PROVE ~RemovesStatus(w)
  <2>1. pc[w] = "deleteStatus" => call[w].op = "removeStatus" /\ call[w] # Nil
    BY <1>t, Busy, WhoRuns, CallAssumption
  <2> QED BY <2>1 DEF RemovesStatus, Undisturbed, KnownInv, OpsOffered
<1> QED BY <1>t, <1>1, Shapes DEF LeavesTables, WritesRow, InsertsEntry, AddsStatus, Live

\* What is known of a ticket stays known: the worker about to record a status
\* records it.
LEMMA KnownStays ==
  ASSUME Undisturbed, KnownInv, [Next]_vars, NEW t \in Tickets, NEW s \in Live, Known(t, s)
  PROVE  KnownNext(t, s)
<1>t. ServiceInv /\ history \in [Tickets -> Seq(Entry)] /\ LocalTypes
  BY DEF KnownInv, TrueInv, ServiceInv, TypeOK, LocalTypes
<1>1. CASE Recorded(t, s)
  <2>1. PICK i \in DOMAIN history[t] : history[t][i].to = s
    BY <1>1 DEF Recorded
  <2>2. history'[t] = history[t] \/ \E e \in Entry : history'[t] = Append(history[t], e)
    BY <1>t, Shapes DEF LeavesTables, WritesRow, InsertsEntry, AddsStatus, RemovesStatus
  <2>3. i \in DOMAIN history'[t] /\ history'[t][i] = history[t][i]
    BY <1>t, <2>1, <2>2
  <2> QED BY <2>1, <2>3 DEF KnownNext
<1>2. ASSUME NEW v \in Workers, pc[v] = "record", call[v].ticket = t, target[v] = s
      PROVE  KnownNext(t, s)
  <2>1. ASSUME Unmoved(v) PROVE KnownNext(t, s)
    BY <1>2, <2>1 DEF Unmoved, KnownNext
  <2>2. CASE Moves(v)
    <3>1. Record(v)
      <4>1. ~Handle(v)
        BY <1>2 DEF Handle, HandleCreateTicket, HandleUpdateTicket, HandleResolveTicket,
             HandleCloseTicket, HandleReopenTicket, HandleAddReply, HandleCreateStatus,
             HandleUpdateStatus, HandleDeleteStatus, Accept
      <4>2. ~StatementFails(v) /\ ~AnswerLost(v)
        BY <1>t DEF StatementFails, AnswerLost, Undisturbed, ServiceInv, TypeOK
      <4>3. Step(v)
        BY <2>2, <4>1, <4>2 DEF Moves
      <4> QED BY <1>2, <4>3 DEF Step, InsertTicket, LookupTarget, Get, CheckTransition, CheckReply,
             InsertReply, Write, Announce, AddStatus, GetStatus, SaveStatus, CountByStatus,
             DeleteStatus
    <3>2. EntryOf(v).to = s /\ (EntryOf(v).from = Nil \/ EntryOf(v).from \in Live)
      BY <1>2 DEF EntryOf, KnownInv, SnapKnown
    <3>3. history' = [history EXCEPT ![t] = Append(@, EntryOf(v))] /\ EntryOf(v) \in Entry
      BY <1>t, <1>2, <3>1, <3>2, EntryOfIsEntry DEF Record, ForeignKeyHolds
    <3> HIDE DEF EntryOf
    <3>4. /\ Len(history[t]) + 1 \in DOMAIN history'[t]
          /\ history'[t][Len(history[t]) + 1] = EntryOf(v)
      BY <1>t, <3>3
    <3> QED BY <3>2, <3>4 DEF KnownNext
  <2>3. ASSUME NEW w \in Workers \ {v}, Moves(w) PROVE KnownNext(t, s)
    BY <1>t, <2>1, <2>3, OthersUnmoved
  <2>4. ~Restart
    BY <1>t DEF Restart, Undisturbed, ServiceInv, TypeOK
  <2>5. CASE Tick \/ Exhausted \/ UNCHANGED vars
    BY <2>1, <2>5 DEF Tick, Exhausted, vars, workerVars, Unmoved
  <2> QED BY <2>2, <2>3, <2>4, <2>5 DEF Next, Moves
<1> QED BY <1>1, <1>2 DEF Known, Recording

\* A snapshot shows a status that is known of its ticket.
LEMMA SnapsKnown ==
  ASSUME Undisturbed, KnownInv, [Next]_vars
  PROVE  \A v \in Workers : SnapKnown(v)'
<1>t. ServiceInv /\ LocalTypes /\ StatusRefs /\ CurrentStatusRecorded
  BY DEF KnownInv, TrueInv, ServiceInv, TypeOK, LocalTypes
<1>1. ASSUME NEW v \in Workers, snap'[v] = snap[v], call'[v] = call[v],
             pc[v] \in {"check", "reply", "write", "record"}
      PROVE  SnapKnown(v)'
  <2>1. call[v].ticket \in Tickets
    BY <1>t, <1>1, Busy, WhoRuns DEF TicketOps
  <2>2. snap[v] # Nil => snap[v].status \in Live /\ Known(call[v].ticket, snap[v].status)
    BY <1>1 DEF KnownInv, SnapKnown
  <2>3. snap[v] # Nil => snap[v].status \in Live' /\ KnownNext(call[v].ticket, snap[v].status)
    BY <2>1, <2>2, LiveStays, KnownStays
  <2> QED BY <1>1, <2>3 DEF SnapKnown, Known, KnownNext, Recorded, Recording
<1>2. ASSUME NEW v \in Workers, Unmoved(v) PROVE SnapKnown(v)'
  <2>1. CASE pc[v] \in {"check", "reply", "write", "record"}
    BY <1>1, <1>2, <2>1 DEF Unmoved
  <2>2. CASE pc[v] \notin {"check", "reply", "write", "record"}
    BY <1>2, <2>2 DEF Unmoved, SnapKnown
  <2> QED BY <2>1, <2>2
<1>3. ASSUME NEW w \in Workers, pc'[w] \notin {"check", "reply", "write", "record"}
      PROVE  SnapKnown(w)'
  BY <1>3 DEF SnapKnown
<1>4. ASSUME NEW w \in Workers, Idle(w) PROVE SnapKnown(w)'
  BY <1>t, <1>3, <1>4 DEF Idle, LocalTypes
<1>5. ASSUME NEW w \in Workers, Handle(w) PROVE SnapKnown(w)'
  <2>1. PICK c, f : Accept(w, c, f)
    BY <1>5 DEF Handle, HandleCreateTicket, HandleUpdateTicket, HandleResolveTicket,
             HandleCloseTicket, HandleReopenTicket, HandleAddReply, HandleCreateStatus,
             HandleUpdateStatus, HandleDeleteStatus
  <2>2. snap'[w] = Nil
    BY <2>1 DEF Accept, KnownInv, TrueInv, TruthOK
  <2> QED BY <2>2 DEF SnapKnown
<1>6. ASSUME NEW w \in Workers, InsertTicket(w) PROVE SnapKnown(w)'
  <2>1. CASE Idle(w)
    BY <1>4, <2>1
  <2>2. CASE ~Idle(w)
    <3>1. snap'[w] = Nil
      BY <1>6, <2>2 DEF InsertTicket, KnownInv, TrueInv, TruthOK
    <3> QED BY <3>1 DEF SnapKnown
  <2> QED BY <2>1, <2>2
<1>7. ASSUME NEW w \in Workers, Get(w) PROVE SnapKnown(w)'
  <2>1. CASE Idle(w)
    BY <1>4, <2>1
  <2>2. CASE ~Idle(w)
    <3> DEFINE t == call[w].ticket
    <3>1. /\ t \in Tickets /\ Created(t)
      BY <1>7, <1>t, Busy, WhoRuns, NilAssumption DEF Get, Created
    <3>2. snap'[w] = ticket[t] /\ call'[w] = call[w]
      BY <1>7, <1>t, <2>2 DEF Get, Goto, LocalTypes
    <3>3. ticket[t].status \in Live /\ Known(t, ticket[t].status)
      BY <1>t, <3>1 DEF StatusRefs, CurrentStatusRecorded, Known
    <3>4. ticket[t].status \in Live' /\ KnownNext(t, ticket[t].status)
      BY <3>1, <3>3, LiveStays, KnownStays
    <3> QED BY <3>2, <3>4 DEF SnapKnown, Known, KnownNext, Recorded, Recording
  <2> QED BY <2>1, <2>2
<1>8. ASSUME NEW w \in Workers,
             CheckTransition(w) \/ CheckReply(w) \/ InsertReply(w) \/ Write(w)
      PROVE  SnapKnown(w)'
  <2>1. CASE Idle(w)
    BY <1>4, <2>1
  <2>2. CASE ~Idle(w)
    BY <1>1, <1>8, <2>2 DEF CheckTransition, CheckReply, InsertReply, Write, WriteFails, Goto
  <2> QED BY <2>1, <2>2
<1>9. ASSUME NEW w \in Workers, LookupTarget(w) \/ Record(w) \/ CountByStatus(w)
      PROVE  SnapKnown(w)'
  <2>1. CASE Idle(w)
    BY <1>4, <2>1
  <2>2. CASE ~Idle(w)
    BY <1>3, <1>9, <1>t, <2>2 DEF LookupTarget, Record, CountByStatus, Goto, LocalTypes
  <2> QED BY <2>1, <2>2
<1>10. ASSUME NEW w \in Workers, Announce(w) PROVE SnapKnown(w)'
  <2>1. CASE followUp[w] = Nil
    BY <1>4, <1>10, <2>1 DEF Announce, Return
  <2>2. CASE followUp[w] # Nil
    BY <1>10, <1>t, <2>2 DEF Announce, Return, LocalTypes, SnapKnown
  <2> QED BY <2>1, <2>2
<1>11. ASSUME NEW w \in Workers, AddStatus(w) \/ GetStatus(w) \/ SaveStatus(w) \/ DeleteStatus(w)
       PROVE  SnapKnown(w)'
  <2>1. CASE Idle(w)
    BY <1>4, <2>1
  <2>2. CASE ~Idle(w)
    BY <1>3, <1>11, <1>t, <2>2 DEF AddStatus, GetStatus, SaveStatus, DeleteStatus, LocalTypes
  <2> QED BY <2>1, <2>2
<1>12. ~Restart /\ \A w \in Workers : ~StatementFails(w) /\ ~AnswerLost(w)
  BY <1>t DEF Restart, StatementFails, AnswerLost, Undisturbed, ServiceInv, TypeOK
<1>13. ASSUME NEW w \in Workers, Moves(w), NEW v \in Workers PROVE SnapKnown(v)'
  <2>1. CASE v = w
    BY <1>5, <1>6, <1>7, <1>8, <1>9, <1>10, <1>11, <1>12, <1>13, <2>1 DEF Moves, Step
  <2>2. CASE v # w
    BY <1>t, <1>2, <1>13, <2>2, OthersUnmoved
  <2> QED BY <2>1, <2>2
<1>14. CASE Tick \/ Exhausted \/ UNCHANGED vars
  BY <1>2, <1>14 DEF Tick, Exhausted, vars, workerVars, Unmoved
<1> QED BY <1>12, <1>13, <1>14 DEF Next, Moves

\* A row is written only where its status is known or about to be recorded.
LEMMA RowsKnown ==
  ASSUME Undisturbed, KnownInv, [Next]_vars
  PROVE  CurrentStatusRecorded'
<1>t. /\ ServiceInv /\ LocalTypes /\ StatusRefs /\ CurrentStatusRecorded
      /\ ticket \in [Tickets -> Row \cup {Nil}]
  BY DEF KnownInv, TrueInv, ServiceInv, TypeOK, LocalTypes
<1>1. ASSUME NEW t \in Tickets, Created(t)', ticket'[t] = ticket[t]
      PROVE  KnownNext(t, ticket[t].status)
  <2>1. ticket[t].status \in Live /\ Known(t, ticket[t].status)
    BY <1>t, <1>1 DEF StatusRefs, CurrentStatusRecorded, Known, Created
  <2> QED BY <2>1, KnownStays
<1>2. ASSUME ticket' = ticket PROVE CurrentStatusRecorded'
  BY <1>1, <1>2 DEF CurrentStatusRecorded, Known, KnownNext, Recorded, Recording
<1>3. ASSUME NEW w \in Workers, InsertTicket(w) \/ Write(w), ticket' # ticket
      PROVE  CurrentStatusRecorded'
  <2> DEFINE t == call[w].ticket
             row == IF pc[w] = "insert" THEN CreatedRow(sys.new) ELSE RowOf(w)
  <2>1. /\ t \in Tickets /\ pc[w] \in {"insert", "write"}
        /\ ticket' = [ticket EXCEPT ![t] = row] /\ row.status \in Live
    BY <1>3, <1>t, Busy, WhoRuns DEF InsertTicket, Write, ForeignKeyHolds, TicketOps
  <2> HIDE DEF row
  <2>2. ticket'[t] = row /\ \A u \in Tickets \ {t} : ticket'[u] = ticket[u]
    BY <1>t, <2>1
  <2>3. KnownNext(t, row.status)
    <3>1. CASE pc[w] = "write" /\ call[w].op = "assign"
      <4>1. row.status = snap[w].status /\ snap[w] \in Row
        BY <1>t, <2>1, <3>1, RowOfIsRow, Busy DEF ForeignKeyHolds, row
      <4>2. Known(t, snap[w].status)
        BY <3>1, <4>1, NilAssumption DEF KnownInv, SnapKnown
      <4> QED BY <2>1, <4>1, <4>2, KnownStays
    <3>2. CASE pc[w] = "insert" \/ call[w].op # "assign"
      <4>1. row.status = target'[w] /\ pc'[w] = "record" /\ call'[w] = call[w]
        <5>1. CASE pc[w] = "insert"
          <6>1. target' = [target EXCEPT ![w] = sys.new] /\ Goto(w, "record")
            BY <1>3, <5>1 DEF InsertTicket, Write
          <6>2. sys.new \in Statuses
            BY <1>t DEF ServiceInv, TypeOK
          <6> QED BY <1>t, <5>1, <6>1, <6>2, CreatedRowIsRow DEF row, Goto, LocalTypes
        <5>2. CASE pc[w] = "write" /\ call[w].op # "assign"
          <6>1. target' = target /\ Goto(w, "record")
            BY <1>3, <2>1, <5>2 DEF InsertTicket, Write, row, ForeignKeyHolds
          <6> QED BY <1>t, <2>1, <5>2, <6>1, RowOfIsRow DEF row, Goto, LocalTypes, ForeignKeyHolds
        <5> QED BY <2>1, <3>2, <5>1, <5>2
      <4> QED BY <4>1 DEF KnownNext
    <3> QED BY <2>1, <3>1, <3>2
  <2> QED BY <1>1, <2>1, <2>2, <2>3 DEF CurrentStatusRecorded, Known, KnownNext, Recorded, Recording
<1>4. ASSUME NEW w \in Workers, Handle(w) PROVE ticket' = ticket
  <2>1. \E c, f : Accept(w, c, f)
    BY <1>4 DEF Handle, HandleCreateTicket, HandleUpdateTicket, HandleResolveTicket,
             HandleCloseTicket, HandleReopenTicket, HandleAddReply, HandleCreateStatus,
             HandleUpdateStatus, HandleDeleteStatus
  <2> QED BY <2>1 DEF Accept, dbVars
<1>5. ASSUME NEW w \in Workers, Step(w), ~InsertTicket(w), ~Write(w) PROVE ticket' = ticket
  BY <1>5 DEF Step, LookupTarget, Get, CheckTransition, CheckReply, InsertReply, Record, Announce,
             AddStatus, GetStatus, SaveStatus, CountByStatus, DeleteStatus, dbVars
<1>6. \A w \in Workers : ~AnswerLost(w) /\ (StatementFails(w) => ticket' = ticket)
  BY <1>t DEF StatementFails, AnswerLost, Undisturbed, ServiceInv, TypeOK
<1>7. Restart \/ Tick \/ Exhausted \/ UNCHANGED vars => ticket' = ticket
  BY DEF Restart, Tick, Exhausted, vars, dbVars
<1> QED BY <1>2, <1>3, <1>4, <1>5, <1>6, <1>7 DEF Next

LEMMA InitKnown == Init => KnownInv
<1> SUFFICES ASSUME Init PROVE KnownInv
  OBVIOUS
<1>1. \A w \in Workers : pc[w] = "idle" /\ call[w] = Nil /\ followUp[w] = Nil
  BY DEF Init
<1>2. OpsOffered /\ \A w \in Workers : SnapKnown(w)
  BY <1>1 DEF OpsOffered, SnapKnown
<1>3. StatusRefs /\ CurrentStatusRecorded
  BY InitTables DEF StatusRefs, CurrentStatusRecorded, Created
<1> QED BY <1>2, <1>3, InitTrue DEF KnownInv

LEMMA NextKnown == Undisturbed /\ KnownInv /\ [Next]_vars => KnownInv'
<1> SUFFICES ASSUME Undisturbed, KnownInv, [Next]_vars PROVE KnownInv'
  OBVIOUS
<1>1. ServiceInv /\ TrueInv /\ StatusRefs /\ OpsOffered
  BY DEF KnownInv, TrueInv
<1> QED BY <1>1, NextTrue, NextStatusRefs, Offered, SnapsKnown, RowsKnown DEF KnownInv

\* Whatever overlaps, the status of a ticket is one its history tells of, or one that
\* a request is about to record; as long as nothing fails, the process does not restart
\* and no status is removed.
THEOREM ServiceCurrentStatusRecorded ==
  ASSUME Undisturbed
  PROVE  Spec => []CurrentStatusRecorded
<1>1. KnownInv /\ [Next]_vars => KnownInv'
  BY NextKnown
<1>2. KnownInv => CurrentStatusRecorded
  BY DEF KnownInv
<1> QED BY <1>1, <1>2, InitKnown, PTL DEF Spec

-----------------------------------------------------------------------------
(* The system statuses keep their names, and the process their ids.        *)

SystemNames == {"New", "Resolved", "Closed"}

\* Administrators rename no status, and no other status of the seed carries the
\* name of a system status (statuses.name is UNIQUE).
NamesStay ==
  /\ RenameTo = {}
  /\ \A s \in Seeded \ SystemStatuses : InitialName[s] \notin SystemNames

\* A request that saves a status saves it under the name the status has.
NamedOK(w) ==
  /\ pc[w] \in {"addStatus", "saveStatus"} => call[w].name = InitialName[call[w].status]
  /\ pc[w] = "getStatus" => call[w].name = Nil

TablesNamed ==
  /\ nameOf = InitialName
  /\ SystemStatuses \subseteq Live
  /\ \A s \in Live \ SystemStatuses : InitialName[s] \notin SystemNames

NamesInv ==
  /\ TablesNamed
  /\ RestartFindsSystemStatuses
  /\ \A w \in Workers : NamedOK(w)

\* The lookups of LoadSystemStatuses find the rows of the migration, and nothing
\* but the name "Closed" finds the status Closed.
LEMMA NamesAreFound ==
  ASSUME TablesNamed
  PROVE  /\ StatusNamed("New") = NewStatus
         /\ StatusNamed("Resolved") = ResolvedStatus
         /\ StatusNamed("Closed") = ClosedStatus
         /\ \A name : StatusNamed(name) = ClosedStatus => name = "Closed"
<1>1. ASSUME NEW s \in SystemStatuses, NEW u \in Live, InitialName[u] = InitialName[s]
      PROVE  u = s
  BY <1>1, SeedAssumption DEF TablesNamed, SystemNames, SystemStatuses
<1>2. ASSUME NEW s \in SystemStatuses PROVE StatusNamed(InitialName[s]) = s
  <2>1. s \in Live /\ nameOf[s] = InitialName[s]
    BY <1>2 DEF TablesNamed
  <2>2. \A u \in Live : nameOf[u] = InitialName[s] => u = s
    BY <1>1, <1>2 DEF TablesNamed
  <2> QED BY <2>1, <2>2 DEF StatusNamed
<1>3. ASSUME NEW name, StatusNamed(name) = ClosedStatus PROVE name = "Closed"
  <2>1. ClosedStatus # Nil
    BY NilAssumption, StatusAssumption DEF SystemStatuses
  <2>2. nameOf[StatusNamed(name)] = name
    BY <1>3, <2>1 DEF StatusNamed
  <2> QED BY <1>3, <2>2, SeedAssumption DEF TablesNamed
<1> QED BY <1>2, <1>3, SeedAssumption DEF SystemStatuses

LEMMA TablesStayNamed ==
  ASSUME NamesStay, ServiceInv, NamesInv, [Next]_vars
  PROVE  TablesNamed' /\ RestartFindsSystemStatuses'
<1>t. /\ nameOf \in [Statuses -> Names] /\ InitialName \in [Statuses -> Names]
      /\ life \in [Statuses -> {"unborn", "live", "gone"}]
      /\ TablesNamed /\ RestartFindsSystemStatuses
  BY ServiceAssumption DEF ServiceInv, TypeOK, NamesInv
<1>1. ASSUME UNCHANGED <<life, nameOf, up, sys>> PROVE TablesNamed' /\ RestartFindsSystemStatuses'
  BY <1>t, <1>1 DEF TablesNamed, RestartFindsSystemStatuses, Live
<1>2. ASSUME NEW w \in Workers, AddStatus(w) PROVE TablesNamed' /\ RestartFindsSystemStatuses'
  <2> DEFINE s == call[w].status
  <2>1. /\ s \in Statuses /\ call[w].name = InitialName[s] /\ up' = up /\ sys' = sys
    BY <1>2, Busy, WhoRuns DEF AddStatus, WellFormed, StatusOps, NamesInv, NamedOK
  <2>2. CASE UNCHANGED <<life, nameOf>>
    BY <1>1, <2>1, <2>2
  <2>3. CASE ~UNCHANGED <<life, nameOf>>
    <3>1. /\ life' = [life EXCEPT ![s] = "live"] /\ nameOf' = [nameOf EXCEPT ![s] = InitialName[s]]
          /\ \A other \in Live \ {s} : nameOf[other] # InitialName[s]
      BY <1>2, <2>1, <2>3 DEF AddStatus, NameTaken
    <3>2. nameOf' = InitialName
      BY <1>t, <2>1, <3>1 DEF TablesNamed
    <3>3. Live' = Live \cup {s}
      BY <1>t, <2>1, <3>1 DEF Live
    <3>4. s \notin SystemStatuses => InitialName[s] \notin SystemNames
      BY <1>t, <3>1, SeedAssumption DEF TablesNamed, SystemNames, SystemStatuses
    <3> QED BY <1>t, <2>1, <3>2, <3>3, <3>4 DEF TablesNamed, RestartFindsSystemStatuses
  <2> QED BY <2>2, <2>3
<1>3. ASSUME NEW w \in Workers, SaveStatus(w) PROVE TablesNamed' /\ RestartFindsSystemStatuses'
  <2>1. /\ call[w].name = InitialName[call[w].status] /\ UNCHANGED <<life, up, sys>>
        /\ nameOf' \in {nameOf, [nameOf EXCEPT ![call[w].status] = call[w].name]}
    BY <1>3 DEF SaveStatus, NamesInv, NamedOK
  <2>2. nameOf' = nameOf
    BY <1>t, <2>1 DEF TablesNamed
  <2> QED BY <1>1, <2>1, <2>2
<1>4. ASSUME NEW w \in Workers, DeleteStatus(w) PROVE TablesNamed' /\ RestartFindsSystemStatuses'
  <2>1. /\ call[w].status \in Statuses /\ UNCHANGED <<nameOf, up, sys>>
        /\ \/ life' = life
           \/ /\ call[w].status \notin SystemStatuses
              /\ life' = [life EXCEPT ![call[w].status] = "gone"]
    BY <1>4, Busy, WhoRuns DEF DeleteStatus, WellFormed, StatusOps
  <2>2. Live' \subseteq Live /\ SystemStatuses \subseteq Live'
    BY <1>t, <2>1 DEF Live, TablesNamed
  <2> QED BY <1>t, <2>1, <2>2 DEF TablesNamed, RestartFindsSystemStatuses
<1>5. CASE Restart
  <2>1. SystemStatusesFound
    BY <1>t, NamesAreFound, NilAssumption, StatusAssumption DEF SystemStatusesFound, SystemStatuses
  <2>2. up' = TRUE /\ life' = life /\ nameOf' = nameOf /\ sys' = sys
    BY <1>t, <1>5, <2>1, NamesAreFound DEF Restart, RestartFindsSystemStatuses, dbVars
  <2> QED BY <1>1, <1>t, <2>2 DEF RestartFindsSystemStatuses
<1>6. ASSUME NEW w \in Workers, Handle(w) PROVE UNCHANGED <<life, nameOf, up, sys>>
  <2>1. \E c, f : Accept(w, c, f)
    BY <1>6 DEF Handle, HandleCreateTicket, HandleUpdateTicket, HandleResolveTicket,
             HandleCloseTicket, HandleReopenTicket, HandleAddReply, HandleCreateStatus,
             HandleUpdateStatus, HandleDeleteStatus
  <2> QED BY <2>1 DEF Accept, dbVars
<1>7. ASSUME NEW w \in Workers,
             \/ InsertTicket(w) \/ LookupTarget(w) \/ Get(w) \/ CheckTransition(w) \/ CheckReply(w)
             \/ InsertReply(w) \/ Write(w) \/ Record(w) \/ Announce(w) \/ GetStatus(w)
             \/ CountByStatus(w) \/ StatementFails(w) \/ AnswerLost(w)
      PROVE  UNCHANGED <<life, nameOf, up, sys>>
  BY <1>7 DEF InsertTicket, LookupTarget, Get, CheckTransition, CheckReply, InsertReply, Write,
             Record, Announce, GetStatus, CountByStatus, StatementFails, AnswerLost, dbVars
<1>8. CASE Tick \/ Exhausted \/ UNCHANGED vars
  BY <1>1, <1>8 DEF Tick, Exhausted, vars, dbVars
<1> QED BY <1>1, <1>2, <1>3, <1>4, <1>5, <1>6, <1>7, <1>8 DEF Next, Step

LEMMA CallsStayNamed ==
  ASSUME NamesStay, ServiceInv, NamesInv, [Next]_vars
  PROVE  \A v \in Workers : NamedOK(v)'
<1>t. ServiceInv /\ LocalTypes /\ nameOf = InitialName
  BY DEF ServiceInv, TypeOK, LocalTypes, NamesInv, TablesNamed
<1>1. ASSUME NEW v \in Workers, Unmoved(v) PROVE NamedOK(v)'
  BY <1>1 DEF Unmoved, NamedOK, NamesInv
<1>2. ASSUME NEW w \in Workers, pc'[w] \notin {"addStatus", "saveStatus", "getStatus"}
      PROVE  NamedOK(w)'
  BY <1>2 DEF NamedOK
<1>3. ASSUME NEW w \in Workers, Idle(w) PROVE NamedOK(w)'
  BY <1>t, <1>2, <1>3 DEF Idle, LocalTypes
<1>4. ASSUME NEW w \in Workers, NEW step, Goto(w, step), step \notin {"addStatus", "saveStatus", "getStatus"}
      PROVE  NamedOK(w)'
  BY <1>t, <1>2, <1>4 DEF Goto, LocalTypes
<1>5. ASSUME NEW w \in Workers, NEW c, NEW f, Accept(w, c, f),
             c.op \in StatusOps => c.name = IF c.op = "addStatus" THEN InitialName[c.status] ELSE Nil,
             c.op \in AllOps
      PROVE  NamedOK(w)'
  <2>1. /\ FirstStep(c.op) \in {"addStatus", "saveStatus"} => c.op = "addStatus"
        /\ FirstStep(c.op) = "getStatus" => c.op \in {"saveStatus", "removeStatus"}
    BY <1>5 DEF FirstStep, AllOps, TicketOps, StatusOps
  <2>2. pc'[w] = FirstStep(c.op) /\ call'[w] = c
    BY <1>t, <1>5 DEF Accept, LocalTypes
  <2> HIDE DEF FirstStep
  <2> QED BY <1>5, <2>1, <2>2 DEF NamedOK, StatusOps
<1>6. ASSUME NEW w \in Workers, Handle(w) PROVE NamedOK(w)'
  <2>1. ASSUME NEW op \in TicketOps, NEW role, NEW t, NEW s, NEW f, Accept(w, OnTicket(op, role, t, s), f)
        PROVE  NamedOK(w)'
    <3>1. OnTicket(op, role, t, s).op = op /\ op \in AllOps /\ op \notin StatusOps
      BY DEF OnTicket, CallOf, AllOps, TicketOps, StatusOps
    <3> QED BY <1>5, <2>1, <3>1
  <2>2. ASSUME NEW t, NEW a, NEW f, Accept(w, AssignCall("staff", t, a), f) PROVE NamedOK(w)'
    <3>1. AssignCall("staff", t, a).op = "assign" /\ "assign" \in AllOps /\ "assign" \notin StatusOps
      BY DEF AssignCall, CallOf, AllOps, TicketOps, StatusOps
    <3> QED BY <1>5, <2>2, <3>1
  <2>3. ASSUME NEW op \in {"saveStatus", "removeStatus"}, NEW s, Accept(w, OnStatus(op, s, Nil), Nil)
        PROVE  NamedOK(w)'
    <3>1. OnStatus(op, s, Nil).op = op /\ OnStatus(op, s, Nil).name = Nil /\ op \in AllOps
      BY DEF OnStatus, CallOf, AllOps, StatusOps
    <3> QED BY <1>5, <2>3, <3>1
  <2>4. CASE HandleCreateStatus(w)
    <3>1. PICK s \in Statuses : Accept(w, OnStatus("addStatus", s, InitialName[s]), Nil)
      BY <2>4 DEF HandleCreateStatus
    <3> DEFINE c == OnStatus("addStatus", s, InitialName[s])
    <3>2. c.op = "addStatus" /\ c.status = s /\ c.name = InitialName[s] /\ "addStatus" \in AllOps
      BY DEF OnStatus, CallOf, AllOps, StatusOps
    <3> HIDE DEF c
    <3> QED BY <1>5, <3>1, <3>2 DEF c
  <2>5. CASE HandleUpdateStatus(w)
    BY <2>3, <2>5 DEF HandleUpdateStatus, NamesStay
  <2>6. CASE HandleDeleteStatus(w)
    BY <2>3, <2>6 DEF HandleDeleteStatus
  <2>7. {"create", "setStatus", "resolve", "close", "reopen", "reply"} \subseteq TicketOps
    BY DEF TicketOps
  <2>8. CASE HandleCreateTicket(w)
    BY <2>1, <2>7, <2>8 DEF HandleCreateTicket
  <2>9. CASE HandleUpdateTicket(w)
    BY <2>1, <2>2, <2>7, <2>9 DEF HandleUpdateTicket
  <2>10. CASE HandleResolveTicket(w) \/ HandleCloseTicket(w)
    BY <2>1, <2>7, <2>10 DEF HandleResolveTicket, HandleCloseTicket
  <2>11. CASE HandleReopenTicket(w) \/ HandleAddReply(w)
    BY <2>1, <2>7, <2>11 DEF HandleReopenTicket, HandleAddReply
  <2> QED BY <1>6, <2>4, <2>5, <2>6, <2>8, <2>9, <2>10, <2>11 DEF Handle
<1>7. ASSUME NEW w \in Workers,
             \/ InsertTicket(w) \/ LookupTarget(w) \/ Get(w) \/ CheckTransition(w) \/ CheckReply(w)
             \/ InsertReply(w) \/ Write(w) \/ Record(w) \/ CountByStatus(w)
             \/ AddStatus(w) \/ SaveStatus(w) \/ DeleteStatus(w)
             \/ StatementFails(w) \/ AnswerLost(w)
      PROVE  NamedOK(w)'
  <2>1. Idle(w) \/ \E step : Goto(w, step) /\ step \notin {"addStatus", "saveStatus", "getStatus"}
    BY <1>7 DEF InsertTicket, LookupTarget, Get, CheckTransition, CheckReply, InsertReply, Write,
             Record, SaveStatus, CountByStatus, StatementFails, AnswerLost, WriteFails, AddStatus,
             DeleteStatus
  <2> QED BY <1>3, <1>4, <2>1
<1>8. ASSUME NEW w \in Workers, Announce(w) PROVE NamedOK(w)'
  <2>1. CASE followUp[w] = Nil
    BY <1>3, <1>8, <2>1 DEF Announce, Return
  <2>2. CASE followUp[w] # Nil
    <3>1. followUp[w].op = "assign" /\ FirstStep("assign") = "get"
      BY <1>8, <1>t, <2>2 DEF Announce, FirstStep, ServiceInv, WorkersOK, WorkerOK
    <3>2. pc'[w] = "get"
      BY <1>8, <1>t, <2>2, <3>1 DEF Announce, Return, LocalTypes
    <3> QED BY <1>2, <3>2
  <2> QED BY <2>1, <2>2
<1>9. ASSUME NEW w \in Workers, GetStatus(w) PROVE NamedOK(w)'
  <2>1. CASE Idle(w)
    BY <1>3, <2>1
  <2>2. CASE ~Idle(w)
    <3>1. /\ call[w] \in Call /\ call[w].name = Nil
          /\ call' = [call EXCEPT ![w].name = IF @ = Nil THEN nameOf[call[w].status] ELSE @]
          /\ pc'[w] \in {"saveStatus", "count"}
      BY <1>9, <1>t, <2>2, Busy DEF GetStatus, NamesInv, NamedOK, LocalTypes
    <3>2. call'[w].name = InitialName[call[w].status] /\ call'[w].status = call[w].status
      BY <1>t, <3>1 DEF LocalTypes, Call
    <3> QED BY <3>1, <3>2 DEF NamedOK
  <2> QED BY <2>1, <2>2
<1>10. ASSUME NEW w \in Workers, Moves(w), NEW v \in Workers PROVE NamedOK(v)'
  <2>1. CASE v = w
    BY <1>6, <1>7, <1>8, <1>9, <1>10, <2>1 DEF Moves, Step
  <2>2. CASE v # w
    BY <1>t, <1>1, <1>10, <2>2, OthersUnmoved
  <2> QED BY <2>1, <2>2
<1>11. CASE Restart
  BY <1>2, <1>11 DEF Restart
<1>12. CASE Tick \/ Exhausted \/ UNCHANGED vars
  BY <1>1, <1>12 DEF Tick, Exhausted, vars, workerVars, Unmoved
<1> QED BY <1>10, <1>11, <1>12 DEF Next, Moves

LEMMA InitNames == NamesStay /\ Init => NamesInv
<1> SUFFICES ASSUME NamesStay, Init PROVE NamesInv
  OBVIOUS
<1>1. Live = SystemStatuses \cup Seeded
  BY StatusAssumption, ServiceAssumption DEF Init, Live
<1>2. TablesNamed
  BY <1>1 DEF Init, TablesNamed, NamesStay
<1> QED BY <1>2 DEF Init, NamesInv, RestartFindsSystemStatuses, NamedOK

LEMMA NextNames == NamesStay /\ ServiceInv /\ NamesInv /\ [Next]_vars => NamesInv'
  BY TablesStayNamed, CallsStayNamed DEF NamesInv

\* However statuses are added, edited and removed while the process restarts, it comes
\* up again with the ids of the three system statuses; as long as none is renamed.
THEOREM ServiceRestartsFindSystemStatuses ==
  ASSUME NamesStay
  PROVE  Spec => []RestartFindsSystemStatuses
<1>1. ServiceInv /\ NamesInv /\ [Next]_vars => (ServiceInv /\ NamesInv)'
  BY NextService, NextNames
<1>2. Init => ServiceInv /\ NamesInv
  BY InitService, InitNames
<1>3. NamesInv => RestartFindsSystemStatuses
  BY DEF NamesInv
<1> QED BY <1>1, <1>2, <1>3, PTL DEF Spec

-----------------------------------------------------------------------------
(* Who closes a ticket, and what is announced of it.                       *)

\* The operations that can lead a ticket to Closed, and who may ask for them.
ClosingCall(c) == c.op = "close" \/ (c.op = "setStatus" /\ c.role = "admin")

\* A worker announces that a ticket is resolved or closed only in the operation that
\* makes it so, whose target is then that status; and a target Closed is of a call
\* that may close.
HeldOK(w) ==
  LET c == call[w] IN
  /\ "resolved" \in outbox[w] =>
       /\ c.op = "resolve" /\ pc[w] \in {"write", "record", "announce"}
       /\ target[w] = ResolvedStatus
  /\ "closed" \in outbox[w] =>
       /\ c.op = "close" /\ pc[w] \in {"write", "record", "announce"}
       /\ target[w] = ClosedStatus
  /\ pc[w] = "announce" /\ c.op \in {"resolve", "close"} => target[w] \in reached[c.ticket]
  /\ pc[w] = "check" /\ c.op = "setStatus" => target[w] = c.status
  /\ ReopenTarget # "Closed" /\ pc[w] \in {"get", "check", "reply"} /\ c.op \in {"reopen", "reply"}
       => target[w] # ClosedStatus
  /\ ReopenTarget # "Closed" /\ pc[w] \in {"write", "record"} /\ target[w] = ClosedStatus
       => ClosingCall(c)

SaidInv ==
  /\ TrueInv /\ NamesInv
  /\ \A w \in Workers : HeldOK(w)
  /\ EventsAreTrue
  /\ ReopenTarget # "Closed" => OnlyAdminsClose

LEMMA UnmovedHeld ==
  ASSUME SaidInv, Forward, NEW v \in Workers, Unmoved(v)
  PROVE  HeldOK(v)'
<1>1. HeldOK(v) /\ ServiceInv
  BY DEF SaidInv, TrueInv
<1>2. CASE pc[v] # "announce"
  BY <1>1, <1>2 DEF HeldOK, Unmoved, ClosingCall
<1>3. CASE pc[v] = "announce"
  <2>1. call[v].ticket \in Tickets
    BY <1>1, <1>3, Busy, WhoRuns
  <2> QED BY <1>1, <1>3, <2>1 DEF HeldOK, Unmoved, Forward, ClosingCall
<1> QED BY <1>2, <1>3

LEMMA IdleHeld ==
  ASSUME ServiceInv, NEW w \in Workers, Idle(w)
  PROVE  HeldOK(w)'
<1>1. pc'[w] = "idle" /\ outbox'[w] = {}
  BY DEF ServiceInv, TypeOK, Idle
<1> QED BY <1>1 DEF HeldOK

LEMMA AcceptHeld ==
  ASSUME SaidInv, NEW w \in Workers, NEW c, NEW f, Accept(w, c, f), c.op \in AllOps
  PROVE  HeldOK(w)'
<1>1. /\ pc[w] = "idle" /\ pc'[w] = FirstStep(c.op) /\ call'[w] = c /\ outbox'[w] = outbox[w]
  BY DEF Accept, SaidInv, TrueInv, ServiceInv, TypeOK
<1>2. /\ FirstStep(c.op) \notin {"check", "reply", "write", "record", "announce"}
      /\ FirstStep(c.op) = "get" => c.op \notin {"reopen", "reply"}
  BY DEF FirstStep, AllOps, TicketOps, StatusOps
<1>3. "resolved" \notin outbox[w] /\ "closed" \notin outbox[w]
  BY <1>1 DEF SaidInv, HeldOK
<1> HIDE DEF FirstStep
<1> QED BY <1>1, <1>2, <1>3 DEF HeldOK

LEMMA HandleHeld ==
  ASSUME SaidInv, NEW w \in Workers, Handle(w)
  PROVE  HeldOK(w)'
<1>1. \A op, role, t, s, a, n : CallOf(op, role, t, s, a, n).op = op
  BY DEF CallOf
<1>2. \E c, f : Accept(w, c, f) /\ c.op \in AllOps
  <2>1. {"create", "setStatus", "assign", "resolve", "close", "reopen", "reply",
         "addStatus", "saveStatus", "removeStatus"} \subseteq AllOps
    BY DEF AllOps, TicketOps, StatusOps
  <2>2. \E c, f : Accept(w, c, f)
    BY DEF Handle, HandleCreateTicket, HandleUpdateTicket, HandleResolveTicket,
             HandleCloseTicket, HandleReopenTicket, HandleAddReply, HandleCreateStatus,
             HandleUpdateStatus, HandleDeleteStatus
  <2>3. \A c, f : Accept(w, c, f) => c.op \in Ops
    BY DEF Accept
  <2> QED BY <2>2, <2>3, ServiceAssumption
<1> QED BY <1>2, AcceptHeld

LEMMA WriteFailsHeld ==
  ASSUME SaidInv, NEW w \in Workers, pc[w] = "write", WriteFails(w)
  PROVE  HeldOK(w)'
<1>1. CASE call[w].op = "reply"
  <2>1. /\ pc'[w] = "record" /\ call'[w] = call[w] /\ target'[w] = target[w]
        /\ outbox'[w] = outbox[w] /\ HeldOK(w)
    BY <1>1 DEF WriteFails, Goto, SaidInv, TrueInv, ServiceInv, TypeOK
  <2> QED BY <1>1, <2>1 DEF HeldOK, ClosingCall
<1>2. CASE call[w].op # "reply"
  BY <1>2, IdleHeld DEF WriteFails, SaidInv, TrueInv
<1> QED BY <1>1, <1>2

\* The entry is inserted, or lost with the error; the ticket has had the status.
LEMMA RecordHeld ==
  ASSUME SaidInv, NEW w \in Workers, pc[w] = "record", Goto(w, "announce"),
         UNCHANGED <<target, outbox, versions>>
  PROVE  HeldOK(w)'
<1>1. /\ pc'[w] = "announce" /\ call'[w] = call[w] /\ target'[w] = target[w]
      /\ outbox'[w] = outbox[w] /\ HeldOK(w) /\ TruthOK(w)
  BY DEF Goto, SaidInv, TrueInv, ServiceInv, TypeOK
<1>2. reached' = reached
  BY ReachedStays
<1> QED BY <1>1, <1>2 DEF HeldOK, TruthOK

LEMMA StepHeld ==
  ASSUME SaidInv, NEW w \in Workers, Step(w)
  PROVE  HeldOK(w)'
<1> DEFINE c == call[w]
<1>t. /\ ServiceInv /\ LocalTypes /\ HeldOK(w) /\ TablesNamed
      /\ sys = [new |-> NewStatus, resolved |-> ResolvedStatus, closed |-> ClosedStatus]
      /\ nameOf = InitialName
  BY DEF SaidInv, TrueInv, NamesInv, TablesNamed, RestartFindsSystemStatuses, ServiceInv, TypeOK, LocalTypes
<1>i. CASE Idle(w)
  BY <1>t, <1>i, IdleHeld
<1>1. CASE InsertTicket(w) /\ ~Idle(w)
  <2>1. /\ pc'[w] = "record" /\ call'[w] = c /\ target'[w] = NewStatus /\ outbox'[w] = {"created"}
    BY <1>1, <1>t, StatusAssumption DEF InsertTicket, Goto, LocalTypes, SystemStatuses
  <2> QED BY <2>1, StatusAssumption DEF HeldOK
<1>2. CASE LookupTarget(w)
  <2>1. /\ pc[w] = "lookup" /\ pc'[w] = "get" /\ call'[w] = c /\ outbox'[w] = outbox[w]
        /\ target'[w] = StatusNamed(ReopenTarget)
    BY <1>2, <1>t DEF LookupTarget, Goto, LocalTypes
  <2>2. "resolved" \notin outbox[w] /\ "closed" \notin outbox[w]
    BY <1>t, <2>1 DEF HeldOK
  <2>3. ReopenTarget # "Closed" => target'[w] # ClosedStatus
    BY <1>t, <2>1, NamesAreFound
  <2> QED BY <2>1, <2>2, <2>3 DEF HeldOK
<1>3. CASE Get(w) /\ ~Idle(w)
  <2>1. /\ pc[w] = "get" /\ c.op \in TicketOps \ {"create"}
        /\ pc' = [pc EXCEPT ![w] = IF c.op \in {"setStatus", "reply"} THEN "check" ELSE "write"]
        /\ call' = call
        /\ target' = [target EXCEPT ![w] = TargetOf(w)]
        /\ outbox' = [outbox EXCEPT ![w] = {EventOf(c.op)}]
    BY <1>3, <1>t, WhoRuns DEF Get, Goto
  <2>2. /\ pc'[w] = IF c.op \in {"setStatus", "reply"} THEN "check" ELSE "write"
        /\ call'[w] = c /\ target'[w] = TargetOf(w) /\ outbox'[w] = {EventOf(c.op)}
    BY <1>t, <2>1 DEF LocalTypes
  <2>3. /\ "resolved" \in outbox'[w] => c.op = "resolve"
        /\ "closed" \in outbox'[w] => c.op = "close"
    BY <2>1, <2>2 DEF EventOf, TicketOps
  <2>4. /\ c.op = "resolve" => target'[w] = ResolvedStatus
        /\ c.op = "close" => target'[w] = ClosedStatus
        /\ c.op = "setStatus" => target'[w] = c.status
        /\ c.op = "assign" => target'[w] = Nil
        /\ c.op \in {"reopen", "reply"} => target'[w] = target[w]
    BY <1>t, <2>2 DEF TargetOf
  <2>5. ReopenTarget # "Closed" /\ c.op \in {"reopen", "reply"} => target'[w] # ClosedStatus
    BY <1>t, <2>1, <2>4 DEF HeldOK
  <2>6. Nil # ClosedStatus /\ ResolvedStatus # ClosedStatus
    BY NilAssumption, StatusAssumption DEF SystemStatuses
  <2>7. pc'[w] = "write" /\ ReopenTarget # "Closed" /\ target'[w] = ClosedStatus => c.op = "close"
    BY <2>1, <2>2, <2>4, <2>5, <2>6 DEF TicketOps
  <2>8. /\ pc'[w] \in {"check", "write"} /\ (c.op \in {"resolve", "close"} => pc'[w] = "write")
    BY <2>2
  <2> QED BY <2>2, <2>3, <2>4, <2>5, <2>7, <2>8 DEF HeldOK, ClosingCall
<1>4. CASE CheckTransition(w) /\ ~Idle(w)
  <2>1. /\ pc[w] = "check" /\ c.op = "setStatus" /\ pc'[w] = "write" /\ call'[w] = c
        /\ target'[w] = target[w] /\ outbox'[w] = outbox[w]
        /\ CanTransitionStatus(nameOf[c.status], c.role)
    BY <1>4, <1>t DEF CheckTransition, Goto, LocalTypes
  <2>2. target[w] = c.status /\ "resolved" \notin outbox[w] /\ "closed" \notin outbox[w]
    BY <1>t, <2>1 DEF HeldOK
  <2>3. target[w] = ClosedStatus => c.role = "admin"
    BY <1>t, <2>1, <2>2, SeedAssumption DEF CanTransitionStatus
  <2> QED BY <2>1, <2>2, <2>3 DEF HeldOK, ClosingCall
<1>5. CASE CheckReply(w) /\ ~Idle(w)
  <2>1. /\ pc[w] = "check" /\ c.op = "reply" /\ pc'[w] = "reply" /\ call'[w] = c
        /\ target'[w] = target[w] /\ outbox'[w] \subseteq outbox[w] \cup {"reopened"}
    BY <1>5, <1>t DEF CheckReply, Goto, LocalTypes
  <2>2. "resolved" \notin outbox[w] /\ "closed" \notin outbox[w]
    BY <1>t, <2>1 DEF HeldOK
  <2>3. "resolved" \notin outbox'[w] /\ "closed" \notin outbox'[w]
    BY <2>1, <2>2
  <2> QED BY <1>t, <2>1, <2>3 DEF HeldOK
<1>6. CASE InsertReply(w)
  <2>1. /\ pc[w] = "reply" /\ c.op = "reply" /\ pc'[w] \in {"write", "announce"} /\ call'[w] = c
        /\ target'[w] = target[w] /\ outbox'[w] = outbox[w]
    BY <1>6, <1>t, WhoRuns DEF InsertReply, Goto, LocalTypes
  <2> QED BY <1>t, <2>1 DEF HeldOK
<1>7. CASE Write(w) /\ ~Idle(w)
  <2>1. CASE WriteFails(w)
    BY <1>7, <2>1, WriteFailsHeld DEF Write
  <2>2. CASE ~WriteFails(w)
    <3>1. /\ pc[w] = "write" /\ call'[w] = c /\ target'[w] = target[w] /\ outbox'[w] = outbox[w]
          /\ pc'[w] = IF c.op = "assign" THEN "announce" ELSE "record"
      BY <1>7, <1>t, <2>2 DEF Write, Goto, LocalTypes
    <3> QED BY <1>t, <3>1 DEF HeldOK, ClosingCall
  <2> QED BY <2>1, <2>2
<1>8. CASE Record(w)
  BY <1>8, RecordHeld DEF Record
<1>9. CASE Announce(w)
  <2>1. CASE followUp[w] = Nil
    BY <1>9, <2>1, <1>i DEF Announce, Return
  <2>2. CASE followUp[w] # Nil
    <3>1. followUp[w].op = "assign" /\ FirstStep("assign") = "get"
      BY <1>9, <1>t, <2>2 DEF Announce, FirstStep, ServiceInv, WorkersOK, WorkerOK
    <3>2. pc'[w] = "get" /\ call'[w].op = "assign" /\ outbox'[w] = {}
      BY <1>9, <1>t, <2>2, <3>1 DEF Announce, Return, LocalTypes
    <3> QED BY <3>2 DEF HeldOK
  <2> QED BY <2>1, <2>2
<1>10. CASE AddStatus(w) \/ SaveStatus(w) \/ DeleteStatus(w)
  BY <1>10, <1>i DEF AddStatus, SaveStatus, DeleteStatus
<1>11. CASE (GetStatus(w) \/ CountByStatus(w)) /\ ~Idle(w)
  <2>1. /\ pc[w] \in {"getStatus", "count"} /\ pc'[w] \in {"saveStatus", "count", "deleteStatus"}
        /\ outbox'[w] = outbox[w]
    BY <1>11, <1>t DEF GetStatus, CountByStatus, Goto, LocalTypes
  <2>2. "resolved" \notin outbox[w] /\ "closed" \notin outbox[w]
    BY <1>t, <2>1 DEF HeldOK
  <2> QED BY <2>1, <2>2 DEF HeldOK
<1> QED
  BY <1>i, <1>1, <1>2, <1>3, <1>4, <1>5, <1>6, <1>7, <1>8, <1>9, <1>10, <1>11 DEF Step

LEMMA AllHeld ==
  ASSUME SaidInv, [Next]_vars
  PROVE  \A v \in Workers : HeldOK(v)'
<1>1. Forward /\ ServiceInv
  BY StepsGoForward DEF SaidInv, TrueInv
<1>2. ASSUME NEW w \in Workers, StatementFails(w) \/ AnswerLost(w) PROVE HeldOK(w)'
  <2>1. CASE Idle(w)
    BY <1>1, <2>1, IdleHeld
  <2>2. CASE pc[w] = "write" /\ WriteFails(w)
    BY <2>2, WriteFailsHeld
  <2>3. CASE pc[w] = "record" /\ StatementFails(w)
    BY <2>3, RecordHeld DEF StatementFails
  <2> QED BY <1>2, <2>1, <2>2, <2>3 DEF StatementFails, AnswerLost
<1>3. ASSUME NEW w \in Workers, Moves(w), NEW v \in Workers PROVE HeldOK(v)'
  <2>1. CASE v = w
    BY <1>2, <1>3, <2>1, HandleHeld, StepHeld DEF Moves
  <2>2. CASE v # w
    BY <1>1, <1>3, <2>2, OthersUnmoved, UnmovedHeld
  <2> QED BY <2>1, <2>2
<1>4. CASE Restart
  BY <1>4 DEF Restart, HeldOK
<1>5. CASE Tick \/ Exhausted \/ UNCHANGED vars
  <2>1. ASSUME NEW v \in Workers PROVE Unmoved(v)
    BY <1>5 DEF Tick, Exhausted, vars, workerVars, Unmoved
  <2> QED BY <1>1, <2>1, UnmovedHeld
<1> QED BY <1>3, <1>4, <1>5 DEF Next, Moves

LEMMA EventsStayTrue ==
  ASSUME SaidInv, [Next]_vars
  PROVE  EventsAreTrue'
<1>t. /\ ServiceInv /\ events \in [Tickets -> SUBSET EventTypes] /\ EventsAreTrue
      /\ ticket \in [Tickets -> Row \cup {Nil}]
  BY DEF SaidInv, TrueInv, ServiceInv, TypeOK
<1>1. Forward
  BY StepsGoForward DEF SaidInv
<1>2. \A t \in Tickets : Created(t) => Created(t)'
  BY <1>t, Shapes DEF LeavesTables, WritesRow, InsertsEntry, AddsStatus, RemovesStatus, Created
<1>3. ASSUME NEW t \in Tickets, events'[t] = events[t]
      PROVE  /\ "resolved" \in events'[t] => ResolvedStatus \in reached'[t]
             /\ "closed" \in events'[t] => ClosedStatus \in reached'[t]
             /\ events'[t] # {} => Created(t)'
  BY <1>t, <1>1, <1>2, <1>3 DEF EventsAreTrue, Forward
<1>4. ASSUME NEW w \in Workers, Announce(w) PROVE EventsAreTrue'
  <2> DEFINE t == call[w].ticket
  <2>1. /\ t \in Tickets /\ pc[w] = "announce" /\ Created(t) /\ HeldOK(w)
        /\ events' = [events EXCEPT ![t] = @ \cup outbox[w]]
    BY <1>4, <1>t, Busy, WhoRuns, NilAssumption DEF Announce, Created, SaidInv
  <2>2. /\ events'[t] = events[t] \cup outbox[w]
        /\ \A u \in Tickets \ {t} : events'[u] = events[u]
    BY <1>t, <2>1
  <2>3. /\ "resolved" \in outbox[w] => ResolvedStatus \in reached[t]
        /\ "closed" \in outbox[w] => ClosedStatus \in reached[t]
    BY <2>1 DEF HeldOK
  <2>4. /\ "resolved" \in events'[t] => ResolvedStatus \in reached'[t]
        /\ "closed" \in events'[t] => ClosedStatus \in reached'[t]
        /\ ticket'[t] # Nil
    BY <1>t, <1>1, <1>2, <2>1, <2>2, <2>3 DEF EventsAreTrue, Forward, Created
  <2> HIDE DEF t
  <2> QED BY <1>3, <2>1, <2>2, <2>4 DEF EventsAreTrue, Created
<1>5. ASSUME NEW w \in Workers, Handle(w) PROVE events' = events
  <2>1. \E c, f : Accept(w, c, f)
    BY <1>5 DEF Handle, HandleCreateTicket, HandleUpdateTicket, HandleResolveTicket,
             HandleCloseTicket, HandleReopenTicket, HandleAddReply, HandleCreateStatus,
             HandleUpdateStatus, HandleDeleteStatus
  <2> QED BY <2>1 DEF Accept
<1>6. ASSUME NEW w \in Workers, Step(w), ~Announce(w) PROVE events' = events
  BY <1>6 DEF Step, InsertTicket, LookupTarget, Get, CheckTransition, CheckReply, InsertReply, Write,
             Record, AddStatus, GetStatus, SaveStatus, CountByStatus, DeleteStatus
<1>7. ASSUME NEW w \in Workers, StatementFails(w) \/ AnswerLost(w) PROVE events' = events
  BY <1>7 DEF StatementFails, AnswerLost
<1>8. Restart \/ Tick \/ Exhausted \/ UNCHANGED vars => events' = events
  BY DEF Restart, Tick, Exhausted, vars
<1>9. CASE events' = events
  BY <1>3, <1>9 DEF EventsAreTrue
<1> QED BY <1>4, <1>5, <1>6, <1>7, <1>8, <1>9 DEF Next

\* An entry that leads to Closed is inserted by a call that may close, in whose name
\* it is written; an entry of Close itself names the system.
LEMMA ClosersStay ==
  ASSUME SaidInv, ReopenTarget # "Closed", [Next]_vars
  PROVE  OnlyAdminsClose'
<1>t. ServiceInv /\ OnlyAdminsClose /\ history \in [Tickets -> Seq(Entry)]
  BY DEF SaidInv, TrueInv, ServiceInv, TypeOK
<1>1. CASE history' = history
  BY <1>t, <1>1 DEF OnlyAdminsClose
<1>2. ASSUME NEW w \in Workers, InsertsEntry(w) PROVE OnlyAdminsClose'
  <2> DEFINE t == call[w].ticket
             e == EntryOf(w)
  <2>1. /\ t \in Tickets /\ e \in Entry /\ pc[w] = "record"
        /\ history' = [history EXCEPT ![t] = Append(@, e)]
    BY <1>2 DEF InsertsEntry
  <2>2. e.to = ClosedStatus => e.by \in {"admin", "system"}
    BY <2>1 DEF EntryOf, SaidInv, HeldOK, ClosingCall
  <2> HIDE DEF e
  <2>3. history'[t] = Append(history[t], e) /\ \A u \in Tickets \ {t} : history'[u] = history[u]
    BY <1>t, <2>1
  <2>4. ASSUME NEW i \in DOMAIN history'[t]
        PROVE  history'[t][i] = e \/ (i \in DOMAIN history[t] /\ history'[t][i] = history[t][i])
    BY <1>t, <2>1, <2>3, <2>4
  <2> QED BY <1>t, <2>1, <2>2, <2>3, <2>4 DEF OnlyAdminsClose
<1> QED BY <1>t, <1>1, <1>2, Shapes DEF LeavesTables, WritesRow, AddsStatus, RemovesStatus

LEMMA InitSaid == NamesStay /\ Init => SaidInv
<1> SUFFICES ASSUME NamesStay, Init PROVE SaidInv
  OBVIOUS
<1>1. \A w \in Workers : HeldOK(w)
  BY DEF Init, HeldOK
<1>2. EventsAreTrue
  BY DEF Init, EventsAreTrue
<1>3. OnlyAdminsClose
  BY InitTables DEF OnlyAdminsClose
<1> QED BY <1>1, <1>2, <1>3, InitTrue, InitNames DEF SaidInv

LEMMA NextSaid == NamesStay /\ SaidInv /\ [Next]_vars => SaidInv'
  BY NextTrue, NextNames, AllHeld, EventsStayTrue, ClosersStay DEF SaidInv, TrueInv

LEMMA SaidInvariant ==
  ASSUME NamesStay
  PROVE  Spec => []SaidInv
<1>1. Init => SaidInv
  BY InitSaid
<1>2. SaidInv /\ [Next]_vars => SaidInv'
  BY NextSaid
<1> QED BY <1>1, <1>2, PTL DEF Spec

\* However requests overlap, statements fail and the process restarts, "resolved" and
\* "closed" are announced only of a ticket that has been so; as long as no status is
\* renamed.
THEOREM ServiceEventsAreTrue ==
  ASSUME NamesStay
  PROVE  Spec => []EventsAreTrue
<1>1. SaidInv => EventsAreTrue
  BY DEF SaidInv
<1> QED BY <1>1, SaidInvariant, PTL

\* No entry of the history tells that staff closed a ticket, whatever overlaps between
\* the role check and the write; as long as no status is renamed and reopening does
\* not lead to Closed.
THEOREM ServiceOnlyAdminsClose ==
  ASSUME NamesStay, ReopenTarget # "Closed"
  PROVE  Spec => []OnlyAdminsClose
<1>1. SaidInv => OnlyAdminsClose
  BY DEF SaidInv
<1> QED BY <1>1, SaidInvariant, PTL

-----------------------------------------------------------------------------
(* The service implements the board.                                       *)

\* One request is served at a time, nothing fails, the process does not restart,
\* statuses are not administered, and the target of reopening exists and is not Closed.
OneAtATime ==
  /\ \A v, w \in Workers : v = w
  /\ Undisturbed /\ NamesStay /\ Ops \subseteq TicketOps
  /\ ReopenTarget # "Closed"
  /\ \E s \in SystemStatuses \cup Seeded : InitialName[s] = ReopenTarget

\* What the only worker holds agrees with the row of its ticket, which nobody else
\* writes, and with the checks made on the way.
FreshOK(w) ==
  LET c == call[w] IN
  /\ pc[w] = "insert" => ~Created(c.ticket)
  /\ pc[w] \in {"check", "reply", "write"} => snap[w] = ticket[c.ticket]
  /\ pc[w] \in {"lookup", "get", "write"} /\ c.op \in {"resolve", "reopen"} => c.role # "user"
  /\ pc[w] = "write" /\ c.op = "setStatus" => c.role # "user"
  /\ pc[w] = "write" /\ c.op = "assign" => c.assignee \in Assignees \cup {Nil}
  /\ pc[w] \in {"get", "check", "reply", "write"} /\ c.op \in {"reopen", "reply"}
       => target[w] \in Live \ {ClosedStatus}
  /\ pc[w] = "write" =>
       /\ c.op = "resolve" => target[w] = ResolvedStatus
       /\ c.op = "close" => target[w] = ClosedStatus
       /\ c.op = "reopen" => snap[w].status = ClosedStatus
       /\ c.op = "reply" => "reopened" \in outbox[w]
  /\ pc[w] \in {"reply", "write"} /\ c.op = "reply" /\ "reopened" \in outbox[w] =>
       /\ c.role = "user"
       /\ snap[w].status = ResolvedStatus
  /\ pc[w] = "record" => target[w] \in Live

OneInv ==
  /\ SaidInv /\ KnownInv
  /\ SystemStatuses \cup Seeded \subseteq Live
  /\ \A t \in Tickets : ~Created(t) => history[t] = <<>>
  /\ \A w \in Workers : FreshOK(w)

\* With one worker, the pending entry of a ticket is that of this worker.
PendingOf(w, t) ==
  /\ pc[w] = "record" /\ call[w].ticket = t
  /\ {EntryOf(w).from, EntryOf(w).to} \subseteq Live \cup {Nil}

\* The reply this worker has granted.
GrantedOf(w) ==
  IF pc[w] \in {"reply", "write"} /\ "reopened" \in outbox[w] /\ call[w].op = "reply"
  THEN {call[w].ticket} ELSE {}

LEMMA View ==
  ASSUME NEW w \in Workers, \A v \in Workers : v = w
  PROVE  /\ \A t : BoardHistory(t) = IF PendingOf(w, t) THEN Append(history[t], EntryOf(w)) ELSE history[t]
         /\ Granted = GrantedOf(w)
<1>1. Workers = {w}
  OBVIOUS
<1>2. ASSUME NEW t
      PROVE  BoardHistory(t) = IF PendingOf(w, t) THEN Append(history[t], EntryOf(w)) ELSE history[t]
  <2>1. Pending(t) = IF PendingOf(w, t) THEN {EntryOf(w)} ELSE {}
    BY <1>1 DEF Pending, PendingOf
  <2> HIDE DEF Pending, PendingOf, EntryOf
  <2>2. (CHOOSE e \in {EntryOf(w)} : TRUE) = EntryOf(w)
    OBVIOUS
  <2> QED BY <2>1, <2>2 DEF BoardHistory
<1>3. Granted = GrantedOf(w)
  BY <1>1 DEF Granted, GrantedOf
<1> QED BY <1>2, <1>3

LEMMA ViewNext ==
  ASSUME NEW w \in Workers, \A v \in Workers : v = w
  PROVE  /\ \A t \in Tickets :
              BoardHistory(t)' = IF PendingOf(w, t)' THEN Append(history'[t], EntryOf(w)') ELSE history'[t]
         /\ Granted' = GrantedOf(w)'
<1>1. Workers = {w}
  OBVIOUS
<1>2. ASSUME NEW t \in Tickets
      PROVE  BoardHistory(t)' = IF PendingOf(w, t)' THEN Append(history'[t], EntryOf(w)') ELSE history'[t]
  <2>1. Pending(t)' = IF PendingOf(w, t)' THEN {EntryOf(w)'} ELSE {}
    BY <1>1 DEF Pending, PendingOf
  <2> HIDE DEF Pending, PendingOf, EntryOf
  <2>2. (CHOOSE e \in {EntryOf(w)'} : TRUE) = EntryOf(w)'
    OBVIOUS
  <2> QED BY <2>1, <2>2 DEF BoardHistory
<1>3. Granted' = GrantedOf(w)'
  BY <1>1 DEF Granted, GrantedOf
<1> QED BY <1>2, <1>3

LEMMA NamedResolved ==
  ASSUME TablesNamed, NEW s \in Live, nameOf[s] = "Resolved"
  PROVE  s = ResolvedStatus
  BY SeedAssumption DEF TablesNamed, SystemNames, SystemStatuses

\* A worker at none of these statements promises nothing.
LEMMA Elsewhere ==
  ASSUME NEW w \in Workers, pc'[w] \notin {"insert", "lookup", "get", "check", "reply", "write", "record"}
  PROVE  FreshOK(w)'
  BY DEF FreshOK

LEMMA FreshStep ==
  ASSUME OneAtATime, OneInv, NEW w \in Workers, Handle(w) \/ Step(w)
  PROVE  FreshOK(w)'
<1> DEFINE c == call[w]
<1>t. /\ ServiceInv /\ LocalTypes /\ HeldOK(w) /\ TruthOK(w) /\ FreshOK(w) /\ TablesNamed
      /\ sys = [new |-> NewStatus, resolved |-> ResolvedStatus, closed |-> ClosedStatus]
  BY DEF OneInv, SaidInv, TrueInv, NamesInv, TablesNamed, RestartFindsSystemStatuses, ServiceInv,
         TypeOK, LocalTypes
<1>1. ASSUME NEW d, NEW f, Accept(w, d, f), d.op = "create" => ticket[d.ticket] = Nil
      PROVE  FreshOK(w)'
  <2>1. /\ pc'[w] = FirstStep(d.op) /\ call'[w] = d /\ MayCall(d) /\ d.op \in AllOps
        /\ ticket' = ticket
    BY <1>1, <1>t, ServiceAssumption DEF Accept, LocalTypes, dbVars
  <2>2. /\ FirstStep(d.op) \notin {"check", "reply", "write", "record"}
        /\ FirstStep(d.op) = "get" => d.op \notin {"reopen", "reply"}
        /\ FirstStep(d.op) = "insert" => d.op = "create"
    BY <2>1 DEF FirstStep, AllOps, TicketOps, StatusOps
  <2>3. d.op \in {"resolve", "reopen"} => d.role # "user"
    BY <2>1 DEF MayCall, CanTransitionStatus
  <2> HIDE DEF FirstStep, MayCall
  <2> QED BY <1>1, <2>1, <2>2, <2>3 DEF FreshOK, Created
<1>2. CASE Handle(w)
  <2>1. ASSUME NEW op, NEW role, NEW t, NEW s, NEW f, Accept(w, OnTicket(op, role, t, s), f),
               op = "create" => ticket[t] = Nil
        PROVE  FreshOK(w)'
    <3>1. OnTicket(op, role, t, s).op = op /\ OnTicket(op, role, t, s).ticket = t
      BY DEF OnTicket, CallOf
    <3> QED BY <1>1, <2>1, <3>1
  <2>2. ASSUME NEW t, NEW a, NEW f, Accept(w, AssignCall("staff", t, a), f) PROVE FreshOK(w)'
    <3>1. AssignCall("staff", t, a).op = "assign"
      BY DEF AssignCall, CallOf
    <3> QED BY <1>1, <2>2, <3>1
  <2>3. ASSUME NEW op \in StatusOps, NEW s, NEW n, Accept(w, OnStatus(op, s, n), Nil)
        PROVE  FreshOK(w)'
    <3>1. OnStatus(op, s, n).op = op /\ op # "create"
      BY DEF OnStatus, CallOf, StatusOps
    <3> QED BY <1>1, <2>3, <3>1
  <2>4. CASE HandleCreateTicket(w)
    BY <2>1, <2>4 DEF HandleCreateTicket, Fresh, Created
  <2>5. CASE HandleUpdateTicket(w)
    BY <2>1, <2>2, <2>5 DEF HandleUpdateTicket
  <2>6. CASE HandleResolveTicket(w) \/ HandleCloseTicket(w)
    BY <2>1, <2>6 DEF HandleResolveTicket, HandleCloseTicket
  <2>7. CASE HandleReopenTicket(w) \/ HandleAddReply(w)
    BY <2>1, <2>7 DEF HandleReopenTicket, HandleAddReply
  <2>8. CASE HandleCreateStatus(w) \/ HandleUpdateStatus(w) \/ HandleDeleteStatus(w)
    BY <2>3, <2>8 DEF HandleCreateStatus, HandleUpdateStatus, HandleDeleteStatus, StatusOps
  <2> QED BY <1>2, <2>4, <2>5, <2>6, <2>7, <2>8 DEF Handle
<1>3. CASE Idle(w)
  BY <1>3, <1>t, Elsewhere DEF Idle, LocalTypes
<1>4. CASE LookupTarget(w)
  <2>1. /\ pc[w] = "lookup" /\ pc'[w] = "get" /\ call'[w] = c /\ Live' = Live
        /\ target'[w] = StatusNamed(ReopenTarget)
    BY <1>4, <1>t DEF LookupTarget, Goto, LocalTypes, dbVars, Live
  <2>2. StatusNamed(ReopenTarget) \in Live
    <3>1. \E s \in Live : nameOf[s] = ReopenTarget
      BY <1>t DEF OneAtATime, OneInv, TablesNamed
    <3> QED BY <3>1 DEF StatusNamed
  <2>3. StatusNamed(ReopenTarget) # ClosedStatus
    BY <1>t, NamesAreFound DEF OneAtATime
  <2> QED BY <1>t, <2>1, <2>2, <2>3 DEF FreshOK
<1>5. CASE Get(w) /\ ~Idle(w)
  <2>1. /\ pc[w] = "get" /\ c \in Call /\ c.op \in TicketOps \ {"create"} /\ c.ticket \in Tickets
        /\ c.op = "reopen" => ticket[c.ticket].status = sys.closed
        /\ pc' = [pc EXCEPT ![w] = IF c.op \in {"setStatus", "reply"} THEN "check" ELSE "write"]
        /\ call' = call /\ ticket' = ticket /\ Live' = Live
        /\ snap' = [snap EXCEPT ![w] = ticket[c.ticket]]
        /\ target' = [target EXCEPT ![w] = TargetOf(w)]
    BY <1>5, <1>t, WhoRuns, Busy DEF Get, Goto, dbVars, Live
  <2>2. /\ pc'[w] = IF c.op \in {"setStatus", "reply"} THEN "check" ELSE "write"
        /\ call'[w] = c /\ target'[w] = TargetOf(w) /\ snap'[w] = ticket[c.ticket]
    BY <1>t, <2>1 DEF LocalTypes
  <2>3. /\ c.op = "resolve" => target'[w] = ResolvedStatus
        /\ c.op = "close" => target'[w] = ClosedStatus
        /\ c.op \in {"reopen", "reply"} => target'[w] = target[w]
    BY <1>t, <2>2 DEF TargetOf
  <2>4. /\ c.op \in {"reopen", "reply"} => target[w] \in Live \ {ClosedStatus}
        /\ c.op \in {"resolve", "reopen"} => c.role # "user"
    BY <1>t, <2>1 DEF FreshOK
  <2>5. c.assignee \in Assignees \cup {Nil}
    BY <2>1 DEF Call
  <2>6. /\ c.op = "setStatus" => pc'[w] = "check"
        /\ c.op = "reply" => pc'[w] = "check"
        /\ pc'[w] \in {"check", "write"}
    BY <2>2
  <2> QED BY <1>t, <2>1, <2>2, <2>3, <2>4, <2>5, <2>6 DEF FreshOK
<1>6. CASE CheckTransition(w) /\ ~Idle(w)
  <2>1. /\ pc[w] = "check" /\ c.op = "setStatus" /\ pc'[w] = "write" /\ call'[w] = c
        /\ snap'[w] = snap[w] /\ ticket' = ticket
        /\ CanTransitionStatus(nameOf[c.status], c.role)
    BY <1>6, <1>t DEF CheckTransition, Goto, LocalTypes, dbVars
  <2> QED BY <1>t, <2>1 DEF FreshOK, CanTransitionStatus
<1>7. CASE CheckReply(w) /\ ~Idle(w)
  <2>1. /\ pc[w] = "check" /\ c.op = "reply" /\ c # Nil
        /\ pc'[w] = "reply" /\ call'[w] = c /\ target'[w] = target[w]
        /\ snap'[w] = snap[w] /\ ticket' = ticket /\ Live' = Live
        /\ snap[w].status \in Live
        /\ outbox'[w] = outbox[w] \cup (IF c.role = "user" /\ nameOf[snap[w].status] = "Resolved"
                                        THEN {"reopened"} ELSE {})
    BY <1>7, <1>t, Busy, CallAssumption DEF CheckReply, Goto, LocalTypes, dbVars, Live
  <2>2. "reopened" \notin outbox[w]
    BY <1>t, <2>1 DEF TruthOK
  <2>3. "reopened" \in outbox'[w] => c.role = "user" /\ snap[w].status = ResolvedStatus
    BY <1>t, <2>1, <2>2, NamedResolved
  <2> QED BY <1>t, <2>1, <2>3 DEF FreshOK
<1>8. CASE InsertReply(w)
  <2>1. /\ pc[w] = "reply" /\ c.op = "reply" /\ call'[w] = c
        /\ pc'[w] = IF "reopened" \in outbox[w] THEN "write" ELSE "announce"
        /\ target'[w] = target[w] /\ outbox'[w] = outbox[w] /\ snap'[w] = snap[w]
        /\ ticket' = ticket /\ Live' = Live
    BY <1>8, <1>t, WhoRuns DEF InsertReply, Goto, LocalTypes, Live
  <2> QED BY <1>t, <2>1 DEF FreshOK
<1>9. CASE /\ Record(w) \/ CountByStatus(w) \/ GetStatus(w)
           /\ ~Idle(w)
  <2>1. pc'[w] \in {"announce", "deleteStatus", "saveStatus", "count"}
    BY <1>9, <1>t DEF Record, CountByStatus, GetStatus, Goto, LocalTypes
  <2> QED BY <2>1, Elsewhere
<1>12. CASE InsertTicket(w) /\ ~Idle(w)
  <2>1. pc'[w] = "record" /\ target'[w] = NewStatus /\ Live' = Live
    BY <1>12, <1>t DEF InsertTicket, Goto, LocalTypes, Live
  <2>2. NewStatus \in Live
    BY DEF OneInv, SystemStatuses
  <2> QED BY <2>1, <2>2 DEF FreshOK
<1>13. CASE Write(w) /\ ~Idle(w)
  <2>1. /\ pc[w] = "write" /\ pc'[w] \in {"record", "announce"} /\ target' = target /\ Live' = Live
        /\ pc'[w] = "record" => c.op = "reply" \/ (c.op # "assign" /\ ForeignKeyHolds(RowOf(w).status))
    BY <1>13, <1>t DEF Write, WriteFails, Goto, LocalTypes, Live
  <2>2. pc'[w] = "record" => target[w] \in Live
    BY <1>t, <2>1, RowOfIsRow DEF FreshOK
  <2> QED BY <2>1, <2>2 DEF FreshOK
<1>10. CASE Announce(w)
  <2>1. CASE followUp[w] = Nil
    BY <1>3, <1>10, <2>1 DEF Announce, Return
  <2>2. CASE followUp[w] # Nil
    <3>1. followUp[w].op = "assign" /\ FirstStep("assign") = "get"
      BY <1>10, <1>t, <2>2 DEF Announce, FirstStep, ServiceInv, WorkersOK, WorkerOK
    <3>2. pc'[w] = "get" /\ call'[w].op = "assign"
      BY <1>10, <1>t, <2>2, <3>1 DEF Announce, Return, LocalTypes
    <3> QED BY <3>2 DEF FreshOK
  <2> QED BY <2>1, <2>2
<1>11. CASE AddStatus(w) \/ SaveStatus(w) \/ DeleteStatus(w)
  BY <1>3, <1>11 DEF AddStatus, SaveStatus, DeleteStatus
<1> QED BY <1>2, <1>3, <1>4, <1>5, <1>6, <1>7, <1>8, <1>9, <1>10, <1>11, <1>12, <1>13 DEF Step

LEMMA Faultless ==
  ASSUME OneAtATime, ServiceInv, NEW w \in Workers
  PROVE  ~StatementFails(w) /\ ~AnswerLost(w) /\ ~Restart
  BY DEF StatementFails, AnswerLost, Restart, OneAtATime, Undisturbed, ServiceInv, TypeOK

LEMMA NextOne ==
  ASSUME OneAtATime, OneInv, [Next]_vars
  PROVE  OneInv'
<1>t. /\ ServiceInv /\ SaidInv /\ KnownInv /\ Undisturbed
      /\ ticket \in [Tickets -> Row \cup {Nil}] /\ history \in [Tickets -> Seq(Entry)]
  BY DEF OneInv, SaidInv, TrueInv, ServiceInv, TypeOK, OneAtATime
<1>1. SaidInv' /\ KnownInv'
  BY <1>t, NextSaid, NextKnown DEF OneAtATime
<1>2. SystemStatuses \cup Seeded \subseteq Live'
  BY <1>t, LiveStays DEF OneInv
<1>3. ASSUME NEW t \in Tickets, ticket'[t] = Nil PROVE history'[t] = <<>>
  <2>1. ticket[t] = Nil => history[t] = <<>>
    BY DEF OneInv, Created
  <2>2. ASSUME NEW w \in Workers, InsertsEntry(w) PROVE ticket[call[w].ticket] # Nil
    BY <1>t, <2>2, Busy, WhoRuns, NilAssumption DEF InsertsEntry, TicketOps
  <2> QED BY <1>t, <1>3, <2>1, <2>2, Shapes DEF LeavesTables, WritesRow, InsertsEntry, AddsStatus, RemovesStatus
<1>4. ASSUME NEW w \in Workers PROVE FreshOK(w)'
  <2>1. CASE \E v \in Workers : Handle(v) \/ Step(v)
    BY <1>4, <2>1, FreshStep DEF OneAtATime
  <2>2. CASE Tick \/ Exhausted \/ UNCHANGED vars
    <3>1. Unmoved(w) /\ ticket' = ticket /\ Live' = Live /\ FreshOK(w)
      BY <2>2 DEF Tick, Exhausted, vars, workerVars, dbVars, Unmoved, Live, OneInv
    <3> QED BY <3>1 DEF FreshOK, Unmoved, Created
  <2> QED BY <1>t, <1>4, <2>1, <2>2, Faultless DEF Next
<1> QED BY <1>1, <1>2, <1>3, <1>4 DEF OneInv, Created

LEMMA InitOne == OneAtATime /\ Init => OneInv
<1> SUFFICES ASSUME OneAtATime, Init PROVE OneInv
  OBVIOUS
<1>1. SaidInv /\ KnownInv
  BY InitSaid, InitKnown DEF OneAtATime
<1>2. SystemStatuses \cup Seeded \subseteq Live
  BY StatusAssumption, ServiceAssumption DEF Init, Live
<1>3. \A w \in Workers : FreshOK(w)
  BY DEF Init, FreshOK
<1> QED BY <1>1, <1>2, <1>3, InitTables DEF OneInv

LEMMA GrantStays ==
  ASSUME NEW w \in Workers, \A v \in Workers : v = w, GrantedOf(w)' = GrantedOf(w)
  PROVE  Granted' = Granted
<1>1. Granted = GrantedOf(w)
  BY View
<1>2. Granted' = GrantedOf(w)'
  BY ViewNext
<1> QED BY <1>1, <1>2

\* A step that the board does not see.
LEMMA Unseen ==
  ASSUME OneAtATime, NEW w \in Workers, pc[w] # "record", pc'[w] # "record",
         ticket' = ticket, history' = history, now' = now, GrantedOf(w)' = GrantedOf(w)
  PROVE  UNCHANGED Board!vars
<1>1. Granted' = Granted
  BY View, ViewNext DEF OneAtATime
<1>2. ASSUME NEW t \in Tickets PROVE BoardHistory(t) = history[t] /\ BoardHistory(t)' = history[t]
  <2>1. ~PendingOf(w, t) /\ ~PendingOf(w, t)'
    BY DEF PendingOf
  <2> QED BY <2>1, View, ViewNext DEF OneAtATime
<1>3. [t \in Tickets |-> BoardHistory(t)]' = [t \in Tickets |-> BoardHistory(t)]
  BY <1>2
<1> QED BY <1>1, <1>3 DEF Board!vars

\* A row is written, and the entry that is to follow becomes pending: the board
\* writes and records at once.
LEMMA Written ==
  ASSUME OneAtATime, OneInv, NEW w \in Workers, NEW t \in Tickets, call[w].ticket = t,
         pc[w] # "record", pc'[w] = "record", call'[w] = call[w],
         ticket' = [ticket EXCEPT ![t] = RowOf(w)], history' = history, Live' = Live,
         snap[w] = ticket[t], target[w] \in Live, RowOf(w).status = target[w], Created(t),
         snap'[w] = snap[w], target'[w] = target[w], now' = now
  PROVE  Board!Write(t, RowOf(w), IF call[w].op = "close" THEN "system" ELSE call[w].role)
<1> DEFINE by == IF call[w].op = "close" THEN "system" ELSE call[w].role
           e == [from |-> ticket[t].status, to |-> RowOf(w).status, by |-> by]
<1>t. ticket \in [Tickets -> Row \cup {Nil}] /\ history \in [Tickets -> Seq(Entry)] /\ StatusRefs
  BY DEF OneInv, KnownInv, TrueInv, ServiceInv, TypeOK
<1>1. EntryOf(w)' = e
  BY DEF EntryOf, Created
<1>2. ticket[t].status \in Live
  BY <1>t DEF StatusRefs
<1>3. /\ EntryOf(w)'.from \in Live /\ EntryOf(w)'.to \in Live
  BY <1>1, <1>2
<1>4. PendingOf(w, t)'
  BY <1>3 DEF PendingOf
<1>5. \A u \in Tickets \ {t} : ~PendingOf(w, u)'
  BY DEF PendingOf
<1>6. \A u \in Tickets : ~PendingOf(w, u)
  BY DEF PendingOf
<1> HIDE DEF e
<1>7. /\ BoardHistory(t)' = Append(BoardHistory(t), e)
      /\ \A u \in Tickets \ {t} : BoardHistory(u)' = BoardHistory(u)
  BY <1>1, <1>4, <1>5, <1>6, View, ViewNext DEF OneAtATime
<1>8. [u \in Tickets |-> BoardHistory(u)]'
        = [[u \in Tickets |-> BoardHistory(u)] EXCEPT ![t] = Append(@, e)]
  BY <1>7
<1> QED BY <1>8 DEF Board!Write, Board!Created, Created, e

LEMMA InsertSimulates ==
  ASSUME OneAtATime, OneInv, NEW w \in Workers, NEW t \in Tickets, call[w].ticket = t,
         InsertTicket(w), ~Idle(w)
  PROVE  Board!Next
<1> DEFINE row == CreatedRow(NewStatus)
           e == [from |-> Nil, to |-> NewStatus, by |-> call[w].role]
<1>t. /\ ServiceInv /\ LocalTypes /\ TruthOK(w) /\ sys.new = NewStatus
      /\ ticket \in [Tickets -> Row \cup {Nil}] /\ history \in [Tickets -> Seq(Entry)]
  BY DEF OneInv, KnownInv, SaidInv, TrueInv, ServiceInv, TypeOK, LocalTypes, NamesInv,
         RestartFindsSystemStatuses
<1>1. /\ pc[w] = "insert" /\ call[w].op = "create" /\ call[w].role \in Roles
      /\ ticket' = [ticket EXCEPT ![t] = row] /\ history' = history /\ now' = now /\ Live' = Live
      /\ target' = [target EXCEPT ![w] = NewStatus] /\ snap' = snap /\ Goto(w, "record")
      /\ NewStatus \in Statuses
  BY <1>t, Busy, WhoRuns, StatusAssumption DEF InsertTicket, WellFormed, TicketOps, Live, SystemStatuses
<1>2. /\ pc'[w] = "record" /\ call'[w] = call[w] /\ snap'[w] = Nil /\ target'[w] = NewStatus
  BY <1>t, <1>1 DEF Goto, LocalTypes, TruthOK
<1>3. EntryOf(w)' = e
  BY <1>1, <1>2 DEF EntryOf
<1>4. NewStatus \in Live
  BY DEF OneInv, SystemStatuses
<1>5. PendingOf(w, t)'
  BY <1>1, <1>2, <1>3, <1>4 DEF PendingOf
<1>6. \A u \in Tickets \ {t} : ~PendingOf(w, u)'
  BY <1>2 DEF PendingOf
<1>7. \A u \in Tickets : ~PendingOf(w, u)
  BY <1>1 DEF PendingOf
<1>v. /\ \A u \in Tickets : BoardHistory(u) = history[u]
      /\ \A u \in Tickets \ {t} : BoardHistory(u)' = history'[u]
      /\ BoardHistory(t)' = Append(history'[t], EntryOf(w)')
      /\ Granted = GrantedOf(w) /\ Granted' = GrantedOf(w)'
  <2>1. \A v \in Workers : v = w
    BY DEF OneAtATime
  <2> QED BY <2>1, <1>5, <1>6, <1>7, View, ViewNext
<1> HIDE DEF e
<1>8. ~Created(t) /\ history[t] = <<>>
  BY <1>1 DEF OneInv, FreshOK
<1>9. /\ BoardHistory(t)' = <<e>>
      /\ \A u \in Tickets \ {t} : BoardHistory(u)' = BoardHistory(u)
  <2>1. Append(<<>>, e) = <<e>>
    OBVIOUS
  <2>2. history'[t] = <<>> /\ \A u \in Tickets : history'[u] = history[u]
    BY <1>1, <1>8
  <2>3. BoardHistory(t)' = Append(<<>>, e)
    BY <1>3, <1>v, <2>2
  <2> QED BY <1>v, <2>1, <2>2, <2>3
<1>10. [u \in Tickets |-> BoardHistory(u)]'
        = [[u \in Tickets |-> BoardHistory(u)] EXCEPT ![t] = <<e>>]
  BY <1>9
<1>11. Granted' = Granted
  <2>1. GrantedOf(w)' = {} /\ GrantedOf(w) = {}
    BY <1>1, <1>2 DEF GrantedOf
  <2> QED BY <2>1, <1>v
<1>12. Board!Create(t, call[w].role)
  BY <1>1, <1>8, <1>10, <1>11 DEF Board!Create, Board!Created, Created, Board!CreatedRow, CreatedRow,
     Board!Never, Never, e
<1> QED BY <1>1, <1>12 DEF Board!Next, Board!Roles, Roles

LEMMA WriteSimulates ==
  ASSUME OneAtATime, OneInv, NEW w \in Workers, NEW t \in Tickets, call[w].ticket = t, Write(w)
  PROVE  Board!Next \/ UNCHANGED Board!vars
<1> DEFINE c == call[w]
<1>t. /\ ServiceInv /\ LocalTypes /\ HeldOK(w) /\ FreshOK(w) /\ StatusRefs
      /\ ticket \in [Tickets -> Row \cup {Nil}]
  BY DEF OneInv, KnownInv, SaidInv, TrueInv, ServiceInv, TypeOK, LocalTypes
<1>one. \A v \in Workers : v = w
  BY DEF OneAtATime
<1>1. /\ pc[w] = "write" /\ c \in Call /\ WellFormed(c) /\ c.op \in TicketOps \ {"create"}
      /\ snap[w] \in Row /\ snap[w] = ticket[t] /\ Created(t) /\ target[w] \in Statuses \cup {Nil}
  BY <1>t, Busy, WhoRuns, NilAssumption DEF Write, Created, FreshOK
<1>2. history' = history /\ now' = now /\ life' = life /\ Live' = Live
  BY DEF Write, Live
<1>3. CASE ~ForeignKeyHolds(RowOf(w).status)
  <2>1. c.op # "reply"
    <3>1. c.op = "reply" => RowOf(w).status = target[w] /\ target[w] \in Live
      BY <1>t, <1>1 DEF RowOf, ReplyReopenedRow, Row, FreshOK
    <3> QED BY <1>3, <3>1 DEF ForeignKeyHolds
  <2>2. Idle(w) /\ ticket' = ticket
    BY <1>3, <2>1 DEF Write, WriteFails
  <2>3. pc'[w] = "idle"
    BY <1>t, <2>2 DEF Idle, LocalTypes
  <2>4. GrantedOf(w) = {} /\ GrantedOf(w)' = {}
    BY <2>1, <2>3 DEF GrantedOf
  <2> QED BY <1>1, <1>2, <2>2, <2>3, <2>4, Unseen
<1>4. CASE ForeignKeyHolds(RowOf(w).status) /\ c.op = "assign"
  <2>1. /\ ticket' = [ticket EXCEPT ![t] = RowOf(w)] /\ Goto(w, "announce")
    BY <1>4 DEF Write
  <2>2. pc'[w] = "announce"
    BY <1>t, <2>1 DEF Goto, LocalTypes
  <2>3. RowOf(w) = AssignedRow(ticket[t], c.assignee) /\ c.assignee \in Assignees \cup {Nil}
    BY <1>1, <1>4 DEF RowOf, Call
  <2>4. Granted' = Granted
    <3>1. GrantedOf(w) = {} /\ GrantedOf(w)' = {}
      BY <1>4, <2>2 DEF GrantedOf
    <3> QED BY <3>1, <1>one, GrantStays
  <2>5. [u \in Tickets |-> BoardHistory(u)]' = [u \in Tickets |-> BoardHistory(u)]
    <3>1. \A u \in Tickets : ~PendingOf(w, u) /\ ~PendingOf(w, u)'
      BY <1>1, <2>2 DEF PendingOf
    <3>2. \A u \in Tickets : BoardHistory(u) = history[u]
      BY <3>1, <1>one, View
    <3>3. \A u \in Tickets : BoardHistory(u)' = history'[u]
      BY <3>1, <1>one, ViewNext
    <3> QED BY <1>2, <3>2, <3>3
  <2>6. Board!Assign(t, c.assignee)
    BY <1>1, <1>2, <2>1, <2>3, <2>4, <2>5 DEF Board!Assign, Board!Created, Created,
       Board!AssignedRow, AssignedRow
  <2> QED BY <2>3, <2>6 DEF Board!Next
<1>5. CASE ForeignKeyHolds(RowOf(w).status) /\ c.op # "assign"
  <2> DEFINE by == IF c.op = "close" THEN "system" ELSE c.role
  <2>1. /\ ticket' = [ticket EXCEPT ![t] = RowOf(w)] /\ Goto(w, "record")
        /\ UNCHANGED <<snap, target, outbox>>
    BY <1>5 DEF Write
  <2>2. pc'[w] = "record" /\ call'[w] = c
    BY <1>t, <2>1 DEF Goto, LocalTypes
  <2>3. RowOf(w).status = target[w] /\ target[w] \in Live /\ target[w] \in Statuses
    BY <1>t, <1>1, <1>5, RowOfIsRow, LiveStatus
  <2>4. Board!Write(t, RowOf(w), by)
    BY <1>1, <1>2, <2>1, <2>2, <2>3, Written
  <2>5. Granted = GrantedOf(w) /\ Granted' = {}
    <3>1. GrantedOf(w)' = {}
      BY <2>2 DEF GrantedOf
    <3> QED BY <3>1, <1>one, View, ViewNext
  <2>6. c.op # "reply" => Granted' = Granted
    BY <2>5 DEF GrantedOf
  <2>7. c.role \in Roles /\ c.role \in {"user", "staff", "admin"}
    BY <1>1, <1>5 DEF WellFormed, Roles
  <2>8. target[w] = ClosedStatus => c.op = "close" \/ (c.op = "setStatus" /\ c.role = "admin")
    BY <1>t, <1>1 DEF HeldOK, OneAtATime, ClosingCall
  <2> HIDE DEF RowOf
  <2>9. CASE c.op = "setStatus"
    <3>1. RowOf(w) = MovedRow(ticket[t], target[w])
      BY <1>1, <2>9 DEF RowOf
    <3>2. c.role # "user"
      BY <1>t, <1>1, <2>9 DEF FreshOK
    <3>3. Board!UpdateStatus(t, target[w], c.role)
      BY <2>4, <2>6, <2>8, <2>9, <3>1, <3>2 DEF Board!UpdateStatus, Board!WriteOnly, Board!MovedRow,
         MovedRow
    <3> QED BY <2>3, <2>7, <3>3 DEF Board!Next, Board!Roles, Roles
  <2>10. CASE c.op = "resolve"
    <3>1. RowOf(w) = ResolvedRow(ticket[t], ResolvedStatus, now) /\ c.role # "user"
      BY <1>t, <1>1, <2>10 DEF RowOf, FreshOK
    <3>2. Board!Resolve(t, c.role)
      BY <2>4, <2>6, <2>10, <3>1 DEF Board!Resolve, Board!WriteOnly, Board!ResolvedRow, ResolvedRow
    <3> QED BY <2>7, <3>2 DEF Board!Next, Board!Roles, Roles
  <2>11. CASE c.op = "close"
    <3>1. RowOf(w) = ClosedRow(ticket[t], ClosedStatus, now)
      BY <1>t, <1>1, <2>11 DEF RowOf, FreshOK
    <3>2. Board!Close(t)
      BY <2>4, <2>6, <2>11, <3>1 DEF Board!Close, Board!WriteOnly, Board!ClosedRow, ClosedRow
    <3> QED BY <3>2 DEF Board!Next
  <2>12. CASE c.op = "reopen"
    <3>1. /\ RowOf(w) = ReopenedRow(ticket[t], target[w]) /\ c.role # "user"
          /\ ticket[t].status = ClosedStatus /\ target[w] # ClosedStatus
      BY <1>t, <1>1, <2>12 DEF RowOf, FreshOK
    <3>2. Board!Reopen(t, target[w], c.role)
      BY <2>4, <2>6, <2>12, <3>1 DEF Board!Reopen, Board!WriteOnly, Board!ReopenedRow, ReopenedRow,
         Board!Never, Never
    <3> QED BY <2>3, <2>7, <3>2 DEF Board!Next, Board!Roles, Roles
  <2>13. CASE c.op = "reply"
    <3>1. /\ RowOf(w) = ReplyReopenedRow(ticket[t], target[w]) /\ c.role = "user"
          /\ ticket[t].status = ResolvedStatus /\ target[w] # ClosedStatus
          /\ "reopened" \in outbox[w]
      BY <1>t, <1>1, <2>13 DEF RowOf, FreshOK
    <3>2. Granted = {t}
      BY <1>1, <2>5, <2>13, <3>1 DEF GrantedOf
    <3>3. Board!ReplyReopens(t, target[w])
      BY <2>4, <2>5, <2>13, <3>1, <3>2 DEF Board!ReplyReopens, Board!ReplyReopenedRow,
         ReplyReopenedRow, Board!Never, Never
    <3> QED BY <2>3, <3>3 DEF Board!Next
  <2> QED BY <1>1, <1>5, <2>9, <2>10, <2>11, <2>12, <2>13 DEF TicketOps
<1> QED BY <1>3, <1>4, <1>5

\* The entry takes the place it had on the board.
LEMMA RecordSimulates ==
  ASSUME OneAtATime, OneInv, NEW w \in Workers, NEW t \in Tickets, call[w].ticket = t, Record(w)
  PROVE  UNCHANGED Board!vars
<1>t. ServiceInv /\ LocalTypes /\ history \in [Tickets -> Seq(Entry)]
  BY DEF OneInv, KnownInv, TrueInv, ServiceInv, TypeOK, LocalTypes
<1>one. \A v \in Workers : v = w
  BY DEF OneAtATime
<1>1. /\ pc[w] = "record" /\ pc'[w] = "announce" /\ ticket' = ticket /\ now' = now
  BY <1>t DEF Record, Goto, LocalTypes
<1>2. Granted' = Granted
  <2>1. GrantedOf(w) = {} /\ GrantedOf(w)' = {}
    BY <1>1 DEF GrantedOf
  <2> QED BY <2>1, <1>one, GrantStays
<1>3. history' = IF PendingOf(w, t) THEN [history EXCEPT ![t] = Append(@, EntryOf(w))] ELSE history
  <2>1. PendingOf(w, t) <=> ForeignKeyHolds(EntryOf(w).to)
                            /\ (EntryOf(w).from = Nil \/ ForeignKeyHolds(EntryOf(w).from))
    <3>1. /\ EntryOf(w).to = target[w] /\ target[w] \in Live
          /\ EntryOf(w).from = Nil \/ EntryOf(w).from # Nil
      BY <1>1 DEF EntryOf, OneInv, FreshOK
    <3> HIDE DEF EntryOf
    <3> QED BY <1>1, <3>1, LiveStatus DEF PendingOf, ForeignKeyHolds
  <2> QED BY <2>1 DEF Record
<1>4. \A u \in Tickets \ {t} : ~PendingOf(w, u)
  BY DEF PendingOf
<1>5. \A u \in Tickets : ~PendingOf(w, u)'
  BY <1>1 DEF PendingOf
<1>6. \A u \in Tickets : BoardHistory(u)' = history'[u]
  BY <1>5, <1>one, ViewNext
<1>7. BoardHistory(t) = (IF PendingOf(w, t) THEN Append(history[t], EntryOf(w)) ELSE history[t])
  BY <1>one, View
<1>8. \A u \in Tickets \ {t} : BoardHistory(u) = history[u]
  BY <1>4, <1>one, View
<1> HIDE DEF EntryOf, PendingOf
<1>9. history'[t] = (IF PendingOf(w, t) THEN Append(history[t], EntryOf(w)) ELSE history[t])
      /\ \A u \in Tickets \ {t} : history'[u] = history[u]
  BY <1>t, <1>3
<1>10. [u \in Tickets |-> BoardHistory(u)]' = [u \in Tickets |-> BoardHistory(u)]
  BY <1>6, <1>7, <1>8, <1>9
<1> QED BY <1>1, <1>2, <1>10 DEF Board!vars

\* A reporter's reply inside the window is granted.
LEMMA GrantSimulates ==
  ASSUME OneAtATime, OneInv, NEW w \in Workers, NEW t \in Tickets, call[w].ticket = t,
         CheckReply(w), ~Idle(w)
  PROVE  Board!Next \/ UNCHANGED Board!vars
<1> DEFINE name == nameOf[snap[w].status]
           reopens == call[w].role = "user" /\ name = "Resolved"
<1>t. /\ ServiceInv /\ LocalTypes /\ TruthOK(w) /\ FreshOK(w) /\ TablesNamed
      /\ ticket \in [Tickets -> Row \cup {Nil}]
  BY DEF OneInv, KnownInv, SaidInv, TrueInv, NamesInv, ServiceInv, TypeOK, LocalTypes
<1>one. \A v \in Workers : v = w
  BY DEF OneAtATime
<1>1. /\ pc[w] = "check" /\ call[w] # Nil /\ call[w].op = "reply" /\ call'[w] = call[w] /\ pc'[w] = "reply"
      /\ ticket' = ticket /\ history' = history /\ now' = now
      /\ snap[w] = ticket[t] /\ Created(t) /\ snap[w].status \in Live
      /\ CanUserUpdate(snap[w], name, call[w].role, now)
      /\ outbox'[w] = outbox[w] \cup (IF reopens THEN {"reopened"} ELSE {})
  <2>1. pc[w] = "check"
    BY DEF CheckReply
  <2>2. snap[w] \in Row /\ snap[w] = ticket[t] /\ call[w] # Nil
    BY <1>t, <2>1, Busy, CallAssumption DEF FreshOK
  <2> QED BY <1>t, <2>1, <2>2, NilAssumption DEF CheckReply, Goto, LocalTypes, dbVars, Created
<1>2. "reopened" \notin outbox[w] /\ ("reopened" \in outbox'[w] <=> reopens)
  BY <1>t, <1>1 DEF TruthOK
<1>3. CASE ~reopens
  <2>1. GrantedOf(w) = {} /\ GrantedOf(w)' = {}
    BY <1>1, <1>2, <1>3 DEF GrantedOf
  <2> QED BY <1>1, <2>1, Unseen
<1>4. CASE reopens
  <2>1. GrantedOf(w) = {} /\ GrantedOf(w)' = {t}
    BY <1>1, <1>2, <1>4 DEF GrantedOf
  <2>2. Granted = {} /\ Granted' = {t}
    <3>1. Granted = GrantedOf(w)
      BY <1>one, View
    <3>2. Granted' = GrantedOf(w)'
      BY <1>one, ViewNext
    <3> QED BY <2>1, <3>1, <3>2
  <2>3. ticket[t].status = ResolvedStatus
    BY <1>t, <1>1, <1>4, NamedResolved
  <2>4. ticket[t].resolvedAt # Never /\ now <= ticket[t].resolvedAt + ReopenWindow
    BY <1>1, <1>4 DEF CanUserUpdate
  <2>5. [u \in Tickets |-> BoardHistory(u)]' = [u \in Tickets |-> BoardHistory(u)]
    <3>1. \A u \in Tickets : ~PendingOf(w, u) /\ ~PendingOf(w, u)'
      BY <1>1 DEF PendingOf
    <3>2. \A u \in Tickets : BoardHistory(u) = history[u]
      BY <3>1, <1>one, View
    <3>3. \A u \in Tickets : BoardHistory(u)' = history'[u]
      BY <3>1, <1>one, ViewNext
    <3> QED BY <1>1, <3>2, <3>3
  <2>6. Board!AcceptReply(t)
    BY <1>1, <2>2, <2>3, <2>4, <2>5 DEF Board!AcceptReply, Board!Created, Created, Board!Never, Never
  <2> QED BY <2>6 DEF Board!Next
<1> QED BY <1>3, <1>4

\* The statements that neither write a row of a ticket nor decide about a reply.
LEMMA QuietSimulates ==
  ASSUME OneAtATime, OneInv, NEW w \in Workers,
         \/ Handle(w) \/ LookupTarget(w) \/ Get(w) \/ CheckTransition(w) \/ InsertReply(w)
         \/ Announce(w) \/ AddStatus(w) \/ GetStatus(w) \/ SaveStatus(w) \/ CountByStatus(w)
         \/ DeleteStatus(w)
         \/ (InsertTicket(w) \/ CheckReply(w)) /\ Idle(w)
  PROVE  UNCHANGED Board!vars
<1>t. ServiceInv /\ LocalTypes /\ TruthOK(w) /\ ticket \in [Tickets -> Row \cup {Nil}]
  BY DEF OneInv, KnownInv, SaidInv, TrueInv, ServiceInv, TypeOK, LocalTypes
<1>1. CASE Handle(w)
  <2>1. \E c, f : Accept(w, c, f)
    BY <1>1 DEF Handle, HandleCreateTicket, HandleUpdateTicket, HandleResolveTicket,
             HandleCloseTicket, HandleReopenTicket, HandleAddReply, HandleCreateStatus,
             HandleUpdateStatus, HandleDeleteStatus
  <2>2. PICK c, f : Accept(w, c, f)
    BY <2>1
  <2>3. c.op \in AllOps /\ FirstStep(c.op) \notin {"reply", "write", "record"}
    BY <2>2, ServiceAssumption DEF Accept, FirstStep, AllOps, TicketOps, StatusOps
  <2> HIDE DEF FirstStep
  <2>4. /\ pc[w] = "idle" /\ pc'[w] \notin {"reply", "write", "record"}
        /\ ticket' = ticket /\ history' = history /\ now' = now
    BY <1>t, <2>2, <2>3 DEF Accept, LocalTypes, dbVars
  <2>5. GrantedOf(w) = {} /\ GrantedOf(w)' = {}
    BY <2>4 DEF GrantedOf
  <2> QED BY <2>4, <2>5, Unseen
<1>2. CASE Idle(w) /\ pc[w] \notin {"reply", "write", "record"} /\ ticket' = ticket /\ history' = history
           /\ now' = now
  <2>1. pc'[w] = "idle"
    BY <1>t, <1>2 DEF Idle, LocalTypes
  <2>2. GrantedOf(w) = {} /\ GrantedOf(w)' = {}
    BY <1>2, <2>1 DEF GrantedOf
  <2> QED BY <1>2, <2>1, <2>2, Unseen
<1>3. CASE LookupTarget(w) \/ AddStatus(w) \/ GetStatus(w) \/ SaveStatus(w) \/ CountByStatus(w) \/ DeleteStatus(w)
  <2>1. /\ pc[w] \in {"lookup", "addStatus", "getStatus", "saveStatus", "count", "deleteStatus"}
        /\ ticket' = ticket /\ history' = history /\ now' = now
    BY <1>3 DEF LookupTarget, AddStatus, GetStatus, SaveStatus, CountByStatus, DeleteStatus, dbVars
  <2>2. pc'[w] \in {"get", "idle", "saveStatus", "count", "deleteStatus"}
    BY <1>3, <1>t DEF LookupTarget, AddStatus, GetStatus, SaveStatus, CountByStatus, DeleteStatus,
       Goto, Idle, LocalTypes
  <2>3. GrantedOf(w) = {} /\ GrantedOf(w)' = {}
    BY <2>1, <2>2 DEF GrantedOf
  <2> QED BY <2>1, <2>2, <2>3, Unseen
<1>4. CASE Get(w)
  <2>1. /\ pc[w] = "get" /\ call[w] \in Call /\ call[w].op \in TicketOps \ {"create"}
        /\ ticket' = ticket /\ history' = history /\ now' = now
    BY <1>4, <1>t, Busy, WhoRuns DEF Get, dbVars
  <2>2. CASE Idle(w)
    BY <1>2, <2>1, <2>2
  <2>3. CASE ~Idle(w)
    <3>1. /\ call'[w] = call[w] /\ pc'[w] \in {"check", "write"}
          /\ call[w].op = "reply" => pc'[w] = "check"
      BY <1>4, <1>t, <2>3 DEF Get, Goto, LocalTypes
    <3>2. GrantedOf(w) = {} /\ GrantedOf(w)' = {}
      BY <2>1, <3>1 DEF GrantedOf
    <3> QED BY <2>1, <3>1, <3>2, Unseen
  <2> QED BY <2>2, <2>3
<1>5. CASE CheckTransition(w)
  <2>1. /\ pc[w] = "check" /\ call[w].op = "setStatus"
        /\ ticket' = ticket /\ history' = history /\ now' = now
    BY <1>5 DEF CheckTransition, dbVars
  <2>2. CASE Idle(w)
    BY <1>2, <2>1, <2>2
  <2>3. CASE ~Idle(w)
    <3>1. call'[w] = call[w] /\ pc'[w] = "write"
      BY <1>5, <1>t, <2>3 DEF CheckTransition, Goto, LocalTypes
    <3>2. GrantedOf(w) = {} /\ GrantedOf(w)' = {}
      BY <2>1, <3>1 DEF GrantedOf
    <3> QED BY <2>1, <3>1, <3>2, Unseen
  <2> QED BY <2>2, <2>3
<1>6. CASE InsertReply(w)
  <2>1. /\ pc[w] = "reply" /\ call'[w] = call[w] /\ outbox'[w] = outbox[w]
        /\ pc'[w] = IF "reopened" \in outbox[w] THEN "write" ELSE "announce"
        /\ ticket' = ticket /\ history' = history /\ now' = now
    BY <1>6, <1>t DEF InsertReply, Goto, LocalTypes
  <2>2. GrantedOf(w)' = GrantedOf(w)
    BY <2>1 DEF GrantedOf
  <2> QED BY <2>1, <2>2, Unseen
<1>7. CASE Announce(w)
  <2>1. /\ pc[w] = "announce" /\ ticket' = ticket /\ history' = history /\ now' = now
    BY <1>7 DEF Announce, dbVars
  <2>2. CASE followUp[w] = Nil
    BY <1>2, <1>7, <2>1, <2>2 DEF Announce, Return
  <2>3. CASE followUp[w] # Nil
    <3>1. followUp[w].op = "assign" /\ FirstStep("assign") = "get"
      BY <1>7, <1>t, <2>3 DEF Announce, FirstStep, ServiceInv, WorkersOK, WorkerOK
    <3>2. pc'[w] = "get"
      BY <1>7, <1>t, <2>3, <3>1 DEF Announce, Return, LocalTypes
    <3>3. GrantedOf(w) = {} /\ GrantedOf(w)' = {}
      BY <2>1, <3>2 DEF GrantedOf
    <3> QED BY <2>1, <3>2, <3>3, Unseen
  <2> QED BY <2>2, <2>3
<1>8. CASE (InsertTicket(w) \/ CheckReply(w)) /\ Idle(w)
  <2>1. /\ pc[w] \in {"insert", "check"} /\ history' = history /\ now' = now
        /\ CheckReply(w) => ticket' = ticket
    BY <1>8 DEF InsertTicket, CheckReply, dbVars
  <2>2. InsertTicket(w) => ticket' = ticket
    <3> SUFFICES ASSUME InsertTicket(w) PROVE ticket' = ticket
      OBVIOUS
    <3>1. pc'[w] = "idle"
      BY <1>8, <1>t DEF Idle, LocalTypes
    <3> QED BY <1>t, <3>1 DEF InsertTicket, Goto, LocalTypes
  <2> QED BY <1>2, <1>8, <2>1, <2>2
<1> QED BY <1>1, <1>3, <1>4, <1>5, <1>6, <1>7, <1>8

\* Time passes, or nothing happens.
LEMMA TimeSimulates ==
  ASSUME OneAtATime, Tick \/ Exhausted \/ UNCHANGED vars
  PROVE  Board!Next \/ UNCHANGED Board!vars
<1>1. /\ ticket' = ticket /\ history' = history /\ pc' = pc /\ call' = call /\ snap' = snap
      /\ target' = target /\ outbox' = outbox /\ life' = life
  BY DEF Tick, Exhausted, vars, workerVars, dbVars
<1>2. Granted' = Granted
  BY <1>1 DEF Granted
<1>3. [t \in Tickets |-> BoardHistory(t)]' = [t \in Tickets |-> BoardHistory(t)]
  BY <1>1 DEF BoardHistory, Pending, EntryOf, Live
<1>4. CASE Tick
  <2>1. Board!Tick
    BY <1>1, <1>2, <1>3, <1>4 DEF Tick, Board!Tick
  <2> QED BY <2>1 DEF Board!Next
<1>5. CASE Exhausted \/ UNCHANGED vars
  <2>1. now' = now
    BY <1>5 DEF Exhausted, vars
  <2> QED BY <1>1, <1>2, <1>3, <2>1 DEF Board!vars
<1> QED BY <1>4, <1>5

LEMMA StepSimulates ==
  ASSUME OneAtATime, OneInv, [Next]_vars
  PROVE  [Board!Next]_(Board!vars)
<1>t. ServiceInv
  BY DEF OneInv, KnownInv, TrueInv
<1>1. ASSUME NEW w \in Workers, Handle(w) \/ Step(w)
      PROVE  Board!Next \/ UNCHANGED Board!vars
  <2>1. pc[w] # "idle" /\ call[w].op \in TicketOps => call[w].ticket \in Tickets
    BY <1>t, Busy
  <2>2. CASE InsertTicket(w) /\ ~Idle(w)
    <3>1. call[w].ticket \in Tickets
      BY <1>t, <2>1, <2>2, WhoRuns DEF InsertTicket, TicketOps
    <3> QED BY <2>2, <3>1, InsertSimulates
  <2>3. CASE Write(w)
    <3>1. call[w].ticket \in Tickets
      BY <1>t, <2>1, <2>3, WhoRuns DEF Write
    <3> QED BY <2>3, <3>1, WriteSimulates
  <2>4. CASE Record(w)
    <3>1. call[w].ticket \in Tickets
      BY <1>t, <2>1, <2>4, WhoRuns DEF Record
    <3> QED BY <2>4, <3>1, RecordSimulates
  <2>5. CASE CheckReply(w) /\ ~Idle(w)
    <3>1. call[w].ticket \in Tickets
      BY <1>t, <2>1, <2>5 DEF CheckReply, TicketOps
    <3> QED BY <2>5, <3>1, GrantSimulates
  <2> QED BY <1>1, <2>2, <2>3, <2>4, <2>5, QuietSimulates DEF Step
<1>2. CASE Tick \/ Exhausted \/ UNCHANGED vars
  BY <1>2, TimeSimulates
<1>3. \A w \in Workers : ~StatementFails(w) /\ ~AnswerLost(w)
  BY <1>t, Faultless
<1>4. ~Restart
  BY <1>t DEF Restart, OneAtATime, Undisturbed, ServiceInv, TypeOK
<1> QED BY <1>1, <1>2, <1>3, <1>4 DEF Next, Board!vars

LEMMA InitSimulates ==
  ASSUME Init
  PROVE  Board!Init
<1>1. \A w \in Workers : pc[w] = "idle"
  BY DEF Init
<1>2. Granted = {}
  BY <1>1 DEF Granted
<1>3. \A t \in Tickets : BoardHistory(t) = <<>>
  <2>1. \A t \in Tickets : Pending(t) = {}
    BY <1>1 DEF Pending
  <2> QED BY <2>1 DEF BoardHistory, Init
<1> QED BY <1>2, <1>3 DEF Init, Board!Init

\* One request at a time, without faults, restarts and status administration, the
\* service is the board: every chain of statements of ticket.Service is one atomic,
\* recorded and permitted transition of its ticket, with silent steps around it.
THEOREM ServiceImplementsBoard ==
  ASSUME OneAtATime
  PROVE  Spec => ImplementsBoard
<1>1. Init => OneInv /\ Board!Init
  BY InitOne, InitSimulates
<1>2. OneInv /\ [Next]_vars => OneInv' /\ [Board!Next]_(Board!vars)
  BY NextOne, StepSimulates
<1> QED BY <1>1, <1>2, PTL DEF Spec, ImplementsBoard, Board!Spec
=============================================================================
