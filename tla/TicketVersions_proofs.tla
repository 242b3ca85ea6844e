------------------------ MODULE TicketVersions_proofs -----------------------
(***************************************************************************)
(* The service implements TicketVersions, for any number of tickets,       *)
(* statuses, overlapping requests, failures and restarts; as long as no    *)
(* status is renamed and reopening does not lead to Closed.                *)
(*                                                                         *)
(* SeenOK says of every worker which version it works on and which checks  *)
(* it has passed; with it each statement is a step of TicketVersions, or   *)
(* one that only forgets.                                                  *)
(***************************************************************************)
EXTENDS TicketSafety_proofs, TicketServiceVersions

\* A worker at a statement that writes has passed the checks of its operation, and its
\* snapshot is a version its ticket has had.
SeenOK(w) ==
  LET c == call[w] IN
  /\ pc[w] \in {"check", "reply", "write", "record"} /\ snap[w] # Nil
       => snap[w] \in versions[c.ticket]
  /\ pc[w] \in {"lookup", "get", "write"} /\ c.op \in {"resolve", "reopen"} => c.role # "user"
  /\ pc[w] = "write" =>
       /\ c.op = "setStatus" => c.role # "user"
       /\ c.op = "resolve" => target[w] = ResolvedStatus
       /\ c.op = "close" => target[w] = ClosedStatus
       /\ c.op = "reopen" => snap[w].status = ClosedStatus
       /\ c.op = "reply" => "reopened" \in outbox[w]

\* No other request knows the id of a ticket before it is there.
InsertsApart ==
  \A w \in Workers : pc[w] = "insert" =>
    /\ ticket[call[w].ticket] = Nil
    /\ \A v \in Workers \ {w} :
         call[v] # Nil /\ call[v].op \in TicketOps => call[v].ticket # call[w].ticket

VersionsHeld ==
  /\ versions \in [Tickets -> SUBSET Row]
  /\ \A t \in Tickets : ticket[t] # Nil => ticket[t] \in versions[t]

VersionsInv ==
  /\ SaidInv /\ VersionsHeld /\ InsertsApart
  /\ \A w \in Workers : SeenOK(w)

-----------------------------------------------------------------------------
(* The invariant.                                                          *)

LEMMA VersionsGrow ==
  ASSUME VersionsInv, [Next]_vars
  PROVE  VersionsHeld' /\ \A t \in Tickets : versions[t] \subseteq versions'[t]
<1> DEFINE Grow == VersionsHeld' /\ \A t \in Tickets : versions[t] \subseteq versions'[t]
<1>t. /\ versions \in [Tickets -> SUBSET Row] /\ ticket \in [Tickets -> Row \cup {Nil}]
      /\ \A t \in Tickets : ticket[t] # Nil => ticket[t] \in versions[t]
      /\ ServiceInv
  BY DEF VersionsInv, VersionsHeld, SaidInv, TrueInv, ServiceInv, TypeOK
<1>1. ASSUME UNCHANGED <<ticket, versions>> PROVE Grow
  BY <1>t, <1>1 DEF VersionsHeld
<1>2. ASSUME NEW w \in Workers, WritesRow(w) PROVE Grow
  <2>1. PICK row \in Row :
          /\ ticket' = [ticket EXCEPT ![call[w].ticket] = row]
          /\ versions' = [versions EXCEPT ![call[w].ticket] = @ \cup {row}]
    BY <1>2 DEF WritesRow
  <2>2. call[w].ticket \in Tickets
    BY <1>2 DEF WritesRow
  <2> QED BY <1>t, <2>1, <2>2 DEF VersionsHeld
<1> QED BY <1>t, <1>1, <1>2, Shapes DEF LeavesTables, InsertsEntry, AddsStatus, RemovesStatus

LEMMA UnmovedSeen ==
  ASSUME VersionsInv, NEW v \in Workers, Unmoved(v),
         \A t \in Tickets : versions[t] \subseteq versions'[t]
  PROVE  SeenOK(v)'
<1>1. ServiceInv /\ SeenOK(v)
  BY DEF VersionsInv, SaidInv, TrueInv
<1>2. pc[v] \in {"check", "reply", "write", "record"} => call[v].ticket \in Tickets
  BY <1>1, Busy, WhoRuns DEF TicketOps
<1> QED BY <1>1, <1>2 DEF SeenOK, Unmoved

\* A worker at none of these statements has nothing to have seen.
LEMMA ElsewhereSeen ==
  ASSUME NEW w \in Workers, pc'[w] \notin {"lookup", "get", "check", "reply", "write", "record"}
  PROVE  SeenOK(w)'
  BY DEF SeenOK

LEMMA AcceptSeen ==
  ASSUME ServiceInv, NEW w \in Workers, NEW c, NEW f, Accept(w, c, f)
  PROVE  SeenOK(w)'
<1>1. /\ pc'[w] = FirstStep(c.op) /\ call'[w] = c /\ MayCall(c) /\ c.op \in AllOps
  BY ServiceAssumption DEF Accept, ServiceInv, TypeOK
<1>2. FirstStep(c.op) \notin {"check", "reply", "write", "record"}
  BY <1>1 DEF FirstStep, AllOps, TicketOps, StatusOps
<1>3. c.op \in {"resolve", "reopen"} => c.role # "user"
  BY <1>1 DEF MayCall, CanTransitionStatus
<1> HIDE DEF FirstStep, MayCall
<1> QED BY <1>1, <1>2, <1>3 DEF SeenOK

LEMMA HandlesAccept ==
  ASSUME NEW w \in Workers, Handle(w)
  PROVE  \E c, f : Accept(w, c, f)
  BY DEF Handle, HandleCreateTicket, HandleUpdateTicket, HandleResolveTicket,
         HandleCloseTicket, HandleReopenTicket, HandleAddReply, HandleCreateStatus,
         HandleUpdateStatus, HandleDeleteStatus

\* The update of a worker fails, or its answer is lost.
LEMMA WriteFailsSeen ==
  ASSUME VersionsInv, NEW w \in Workers, pc[w] = "write", WriteFails(w),
         \A t \in Tickets : versions[t] \subseteq versions'[t]
  PROVE  SeenOK(w)'
<1>t. ServiceInv /\ LocalTypes /\ SeenOK(w)
  BY DEF VersionsInv, SaidInv, TrueInv, ServiceInv, TypeOK, LocalTypes
<1>1. CASE call[w].op = "reply"
  <2>1. /\ pc'[w] = "record" /\ call'[w] = call[w] /\ snap'[w] = snap[w]
        /\ call[w].ticket \in Tickets
    BY <1>t, <1>1, Busy, WhoRuns DEF WriteFails, Goto, LocalTypes
  <2> QED BY <1>t, <2>1 DEF SeenOK
<1>2. CASE call[w].op # "reply"
  <2>1. pc'[w] = "idle"
    BY <1>t, <1>2 DEF WriteFails, Idle, LocalTypes
  <2> QED BY <2>1, ElsewhereSeen
<1> QED BY <1>1, <1>2

LEMMA StepSeen ==
  ASSUME VersionsInv, NEW w \in Workers, Handle(w) \/ Step(w),
         \A t \in Tickets : versions[t] \subseteq versions'[t]
  PROVE  SeenOK(w)'
<1> DEFINE c == call[w]
<1>t. /\ ServiceInv /\ LocalTypes /\ SeenOK(w) /\ VersionsHeld /\ TruthOK(w)
      /\ sys = [new |-> NewStatus, resolved |-> ResolvedStatus, closed |-> ClosedStatus]
  BY DEF VersionsInv, SaidInv, TrueInv, NamesInv, RestartFindsSystemStatuses, ServiceInv,
         TypeOK, LocalTypes
<1>2. CASE Handle(w)
  BY <1>2, <1>t, HandlesAccept, AcceptSeen
<1>3. CASE Idle(w)
  BY <1>3, <1>t, ElsewhereSeen DEF Idle, LocalTypes
<1>4. CASE LookupTarget(w)
  <2>1. /\ pc[w] = "lookup" /\ pc'[w] = "get" /\ call'[w] = c
    BY <1>4, <1>t DEF LookupTarget, Goto, LocalTypes
  <2> QED BY <1>t, <2>1 DEF SeenOK
<1>5. CASE Get(w) /\ ~Idle(w)
  <2>1. /\ pc[w] = "get" /\ c \in Call /\ c.op \in TicketOps \ {"create"} /\ c.ticket \in Tickets
        /\ c.op = "reopen" => ticket[c.ticket].status = ClosedStatus
        /\ pc' = [pc EXCEPT ![w] = IF c.op \in {"setStatus", "reply"} THEN "check" ELSE "write"]
        /\ call' = call
        /\ snap' = [snap EXCEPT ![w] = ticket[c.ticket]]
        /\ target' = [target EXCEPT ![w] = TargetOf(w)]
        /\ ticket[c.ticket] # Nil
    BY <1>5, <1>t, WhoRuns, Busy, NilAssumption DEF Get, Goto
  <2>2. /\ pc'[w] = IF c.op \in {"setStatus", "reply"} THEN "check" ELSE "write"
        /\ call'[w] = c /\ target'[w] = TargetOf(w) /\ snap'[w] = ticket[c.ticket]
    BY <1>t, <2>1 DEF LocalTypes
  <2>3. /\ c.op = "resolve" => target'[w] = ResolvedStatus
        /\ c.op = "close" => target'[w] = ClosedStatus
    BY <1>t, <2>2 DEF TargetOf
  <2>4. c.op \in {"resolve", "reopen"} => c.role # "user"
    BY <1>t, <2>1 DEF SeenOK
  <2>5. snap'[w] \in versions'[c.ticket]
    BY <1>t, <2>1, <2>2 DEF VersionsHeld
  <2>6. /\ c.op \in {"setStatus", "reply"} => pc'[w] = "check"
        /\ pc'[w] \in {"check", "write"}
    BY <2>2
  <2> QED BY <2>1, <2>2, <2>3, <2>4, <2>5, <2>6 DEF SeenOK
<1>6. CASE CheckTransition(w) /\ ~Idle(w)
  <2>1. /\ pc[w] = "check" /\ c.op = "setStatus" /\ pc'[w] = "write" /\ call'[w] = c
        /\ snap'[w] = snap[w] /\ c.ticket \in Tickets
        /\ CanTransitionStatus(nameOf[c.status], c.role)
    BY <1>6, <1>t, WhoRuns, Busy DEF CheckTransition, Goto, LocalTypes, TicketOps
  <2> QED BY <1>t, <2>1 DEF SeenOK, CanTransitionStatus
<1>7. CASE CheckReply(w) /\ ~Idle(w)
  <2>1. /\ pc[w] = "check" /\ c.op = "reply" /\ pc'[w] = "reply" /\ call'[w] = c
        /\ snap'[w] = snap[w] /\ c.ticket \in Tickets
    BY <1>7, <1>t, WhoRuns, Busy DEF CheckReply, Goto, LocalTypes, TicketOps
  <2> QED BY <1>t, <2>1 DEF SeenOK
<1>8. CASE InsertReply(w)
  <2>1. /\ pc[w] = "reply" /\ c.op = "reply" /\ call'[w] = c /\ c.ticket \in Tickets
        /\ pc'[w] = IF "reopened" \in outbox[w] THEN "write" ELSE "announce"
        /\ outbox'[w] = outbox[w] /\ snap'[w] = snap[w]
    BY <1>8, <1>t, WhoRuns, Busy DEF InsertReply, Goto, LocalTypes, TicketOps
  <2> QED BY <1>t, <2>1 DEF SeenOK
<1>9. CASE /\ Record(w) \/ CountByStatus(w) \/ GetStatus(w)
           /\ ~Idle(w)
  <2>1. pc'[w] \in {"announce", "deleteStatus", "saveStatus", "count"}
    BY <1>9, <1>t DEF Record, CountByStatus, GetStatus, Goto, LocalTypes
  <2> QED BY <2>1, ElsewhereSeen
<1>10. CASE Announce(w)
  <2>1. CASE followUp[w] = Nil
    BY <1>3, <1>10, <2>1 DEF Announce, Return
  <2>2. CASE followUp[w] # Nil
    <3>1. followUp[w].op = "assign" /\ FirstStep("assign") = "get"
      BY <1>10, <1>t, <2>2 DEF Announce, FirstStep, ServiceInv, WorkersOK, WorkerOK
    <3>2. pc'[w] = "get" /\ call'[w].op = "assign"
      BY <1>10, <1>t, <2>2, <3>1 DEF Announce, Return, LocalTypes
    <3> QED BY <3>2 DEF SeenOK
  <2> QED BY <2>1, <2>2
<1>11. CASE AddStatus(w) \/ SaveStatus(w) \/ DeleteStatus(w)
  BY <1>3, <1>11 DEF AddStatus, SaveStatus, DeleteStatus
<1>12. CASE InsertTicket(w) /\ ~Idle(w)
  <2>1. pc[w] = "insert" /\ pc'[w] = "record" /\ snap'[w] = snap[w]
    BY <1>12, <1>t DEF InsertTicket, Goto, LocalTypes
  <2>2. snap'[w] = Nil
    BY <1>t, <2>1 DEF TruthOK
  <2> QED BY <2>1, <2>2 DEF SeenOK
<1>13. CASE Write(w) /\ ~Idle(w)
  <2>1. CASE WriteFails(w)
    BY <1>13, <2>1, WriteFailsSeen DEF Write
  <2>2. CASE ~WriteFails(w)
    <3>1. /\ pc[w] = "write" /\ pc'[w] \in {"record", "announce"} /\ call'[w] = c
          /\ snap'[w] = snap[w] /\ c.ticket \in Tickets
      BY <1>13, <1>t, <2>2, WhoRuns, Busy DEF Write, Goto, LocalTypes
    <3> QED BY <1>t, <3>1 DEF SeenOK
  <2> QED BY <2>1, <2>2
<1> QED BY <1>2, <1>3, <1>4, <1>5, <1>6, <1>7, <1>8, <1>9, <1>10, <1>11, <1>12, <1>13 DEF Step

LEMMA AllSeen ==
  ASSUME VersionsInv, [Next]_vars
  PROVE  \A v \in Workers : SeenOK(v)'
<1>1. ServiceInv /\ LocalTypes /\ \A t \in Tickets : versions[t] \subseteq versions'[t]
  BY VersionsGrow DEF VersionsInv, SaidInv, TrueInv, ServiceInv, TypeOK, LocalTypes
<1>2. ASSUME NEW w \in Workers, StatementFails(w) \/ AnswerLost(w) PROVE SeenOK(w)'
  <2>1. CASE Idle(w)
    BY <1>1, <2>1, ElsewhereSeen DEF Idle, LocalTypes
  <2>2. CASE pc[w] = "write" /\ WriteFails(w)
    BY <1>1, <2>2, WriteFailsSeen
  <2>3. CASE Goto(w, "announce")
    BY <1>1, <2>3, ElsewhereSeen DEF Goto, LocalTypes
  <2> QED BY <1>2, <2>1, <2>2, <2>3 DEF StatementFails, AnswerLost
<1>3. ASSUME NEW w \in Workers, Moves(w), NEW v \in Workers PROVE SeenOK(v)'
  <2>1. CASE v = w
    BY <1>1, <1>2, <1>3, <2>1, StepSeen DEF Moves
  <2>2. CASE v # w
    BY <1>1, <1>3, <2>2, OthersUnmoved, UnmovedSeen
  <2> QED BY <2>1, <2>2
<1>4. CASE Restart
  BY <1>4, ElsewhereSeen DEF Restart
<1>5. CASE Tick \/ Exhausted \/ UNCHANGED vars
  <2>1. ASSUME NEW v \in Workers PROVE Unmoved(v)
    BY <1>5 DEF Tick, Exhausted, vars, workerVars, Unmoved
  <2> QED BY <1>1, <2>1, UnmovedSeen
<1> QED BY <1>3, <1>4, <1>5 DEF Next, Moves

\* A call goes on with the ticket it is about.
LEMMA CallsKeepTheirTicket ==
  ASSUME ServiceInv, NEW w \in Workers, Step(w) \/ StatementFails(w) \/ AnswerLost(w)
  PROVE  /\ pc'[w] # "insert"
         /\ call'[w] # Nil /\ call'[w].op \in TicketOps =>
              call[w] # Nil /\ call[w].op \in TicketOps /\ call'[w].ticket = call[w].ticket
<1> DEFINE Keeps == /\ pc'[w] # "insert"
                    /\ call'[w] # Nil /\ call'[w].op \in TicketOps =>
                         call[w] # Nil /\ call[w].op \in TicketOps /\ call'[w].ticket = call[w].ticket
<1>t. LocalTypes /\ Nil \notin Call
  BY CallAssumption DEF ServiceInv, TypeOK, LocalTypes
<1>1. CASE Idle(w)
  BY <1>t, <1>1 DEF Idle, LocalTypes
<1>2. ASSUME NEW step, Goto(w, step), step # "insert" PROVE Keeps
  BY <1>t, <1>2 DEF Goto, LocalTypes
<1>3. CASE Announce(w)
  <2>1. CASE followUp[w] = Nil
    BY <1>1, <1>3, <2>1 DEF Announce, Return
  <2>2. CASE followUp[w] # Nil
    <3>1. /\ followUp[w].op = "assign" /\ followUp[w].ticket = call[w].ticket
          /\ call[w].op \in {"create", "setStatus"} /\ call[w] \in Call
      BY <1>3, <2>2, Busy DEF Announce, ServiceInv, WorkersOK, WorkerOK
    <3>2. FirstStep("assign") = "get"
      BY DEF FirstStep
    <3>3. pc'[w] = "get" /\ call'[w] = followUp[w]
      BY <1>3, <1>t, <2>2, <3>1, <3>2 DEF Announce, Return, LocalTypes
    <3> QED BY <1>t, <3>1, <3>3 DEF TicketOps
  <2> QED BY <2>1, <2>2
<1>4. CASE GetStatus(w)
  <2>1. CASE ~Idle(w)
    <3>1. /\ pc'[w] \in {"saveStatus", "count"} /\ call'[w].op = call[w].op
          /\ call[w].op \in {"saveStatus", "removeStatus"}
      BY <1>4, <1>t, <2>1, WhoRuns, Busy DEF GetStatus, LocalTypes, Call
    <3> QED BY <3>1 DEF TicketOps
  <2> QED BY <1>1, <2>1
<1>5. CASE InsertTicket(w) \/ LookupTarget(w) \/ Get(w) \/ CheckTransition(w) \/ CheckReply(w)
  BY <1>1, <1>2, <1>5 DEF InsertTicket, LookupTarget, Get, CheckTransition, CheckReply
<1>6. CASE InsertReply(w) \/ Write(w) \/ Record(w) \/ StatementFails(w) \/ AnswerLost(w)
  BY <1>1, <1>2, <1>6 DEF InsertReply, Write, Record, WriteFails, StatementFails, AnswerLost
<1>7. CASE AddStatus(w) \/ SaveStatus(w) \/ CountByStatus(w) \/ DeleteStatus(w)
  BY <1>1, <1>2, <1>7 DEF AddStatus, SaveStatus, CountByStatus, DeleteStatus
<1> QED BY <1>3, <1>4, <1>5, <1>6, <1>7 DEF Step

\* A request about a ticket is about one that is there, or creates one under a new id.
LEMMA HandlesKnow ==
  ASSUME ServiceInv, NEW w \in Workers, Handle(w)
  PROVE  /\ ticket' = ticket
         /\ \/ call'[w].op \in StatusOps
            \/ /\ call'[w].ticket \in Tickets
               /\ \/ Created(call'[w].ticket)
                  \/ Fresh(call'[w].ticket)
         /\ pc'[w] = "insert" => call'[w].ticket \in Tickets /\ Fresh(call'[w].ticket)
<1>t. LocalTypes
  BY DEF ServiceInv, TypeOK, LocalTypes
<1>1. ASSUME NEW c, NEW f, Accept(w, c, f)
      PROVE  ticket' = ticket /\ call'[w] = c /\ pc'[w] = FirstStep(c.op)
  BY <1>t, <1>1 DEF Accept, LocalTypes, dbVars
<1>2. \A op, role, t, s, a, n :
        /\ OnTicket(op, role, t, s).op = op /\ OnTicket(op, role, t, s).ticket = t
        /\ AssignCall(role, t, a).op = "assign" /\ AssignCall(role, t, a).ticket = t
        /\ OnStatus(op, s, n).op = op
  BY DEF OnTicket, AssignCall, OnStatus, CallOf
<1>3. \A op \in AllOps \ {"create"} : FirstStep(op) # "insert"
  BY DEF AllOps, TicketOps, StatusOps, FirstStep
<1>4. {"assign", "setStatus", "resolve", "close", "reopen", "reply", "addStatus", "saveStatus",
       "removeStatus"} \subseteq AllOps \ {"create"}
  BY DEF AllOps, TicketOps, StatusOps
<1>5. CASE HandleCreateTicket(w)
  BY <1>1, <1>2, <1>5 DEF HandleCreateTicket
<1>6. CASE HandleUpdateTicket(w)
  BY <1>1, <1>2, <1>3, <1>4, <1>6 DEF HandleUpdateTicket
<1>7. CASE HandleResolveTicket(w) \/ HandleCloseTicket(w) \/ HandleReopenTicket(w) \/ HandleAddReply(w)
  BY <1>1, <1>2, <1>3, <1>4, <1>7
     DEF HandleResolveTicket, HandleCloseTicket, HandleReopenTicket, HandleAddReply
<1>8. CASE HandleCreateStatus(w) \/ HandleUpdateStatus(w) \/ HandleDeleteStatus(w)
  BY <1>1, <1>2, <1>3, <1>4, <1>8
     DEF HandleCreateStatus, HandleUpdateStatus, HandleDeleteStatus, StatusOps
<1> QED BY <1>5, <1>6, <1>7, <1>8 DEF Handle

LEMMA InsertsStayApart ==
  ASSUME VersionsInv, [Next]_vars
  PROVE  InsertsApart'
<1>t. /\ ServiceInv /\ LocalTypes /\ InsertsApart /\ ticket \in [Tickets -> Row \cup {Nil}]
      /\ StatusOps \cap TicketOps = {} /\ Nil \notin Call
  BY CallAssumption DEF VersionsInv, SaidInv, TrueInv, ServiceInv, TypeOK, LocalTypes, StatusOps, TicketOps
<1>1. ASSUME NEW w \in Workers, Moves(w) PROVE InsertsApart'
  <2>o. \A v \in Workers \ {w} : pc'[v] = pc[v] /\ call'[v] = call[v]
    BY <1>t, <1>1, OthersUnmoved DEF Unmoved
  <2>1. CASE Handle(w)
    <3>1. /\ ticket' = ticket
          /\ \/ call'[w].op \in StatusOps
             \/ /\ call'[w].ticket \in Tickets
                /\ Created(call'[w].ticket) \/ Fresh(call'[w].ticket)
          /\ pc'[w] = "insert" => call'[w].ticket \in Tickets /\ Fresh(call'[w].ticket)
      BY <1>t, <2>1, HandlesKnow
    <3>2. ASSUME NEW v \in Workers, pc'[v] = "insert"
          PROVE  /\ ticket'[call'[v].ticket] = Nil
                 /\ \A x \in Workers \ {v} :
                      call'[x] # Nil /\ call'[x].op \in TicketOps => call'[x].ticket # call'[v].ticket
      <4>1. CASE v = w
        BY <2>o, <3>1, <3>2, <4>1 DEF Fresh, Created
      <4>2. CASE v # w
        <5>1. /\ pc[v] = "insert" /\ call'[v] = call[v] /\ ticket[call[v].ticket] = Nil
              /\ call[v] # Nil
              /\ \A x \in Workers \ {v, w} :
                   call[x] # Nil /\ call[x].op \in TicketOps => call[x].ticket # call[v].ticket
          BY <1>t, <2>o, <3>2, <4>2, Busy DEF InsertsApart
        <5>2. call'[w].op \in TicketOps => call'[w].ticket # call[v].ticket
          BY <1>t, <3>1, <5>1 DEF Fresh, Created
        <5> QED BY <2>o, <3>1, <5>1, <5>2
      <4> QED BY <4>1, <4>2
    <3> QED BY <3>2 DEF InsertsApart
  <2>2. CASE Step(w) \/ StatementFails(w) \/ AnswerLost(w)
    <3>1. /\ pc'[w] # "insert"
          /\ call'[w] # Nil /\ call'[w].op \in TicketOps =>
               call[w] # Nil /\ call[w].op \in TicketOps /\ call'[w].ticket = call[w].ticket
      BY <1>t, <2>2, CallsKeepTheirTicket
    <3>2. \/ ticket' = ticket
          \/ /\ pc[w] \in {"insert", "write"}
             /\ \E u : ticket' = [ticket EXCEPT ![call[w].ticket] = u]
      BY <2>2 DEF Step, InsertTicket, LookupTarget, Get, CheckTransition, CheckReply, InsertReply,
                  Write, Record, Announce, AddStatus, GetStatus, SaveStatus, CountByStatus,
                  DeleteStatus, StatementFails, AnswerLost, dbVars
    <3>3. pc[w] \in {"insert", "write"} => call[w] # Nil /\ call[w].op \in TicketOps
      BY <1>t, Busy, WhoRuns DEF TicketOps
    <3>4. ASSUME NEW v \in Workers, pc'[v] = "insert"
          PROVE  /\ ticket'[call'[v].ticket] = Nil
                 /\ \A x \in Workers \ {v} :
                      call'[x] # Nil /\ call'[x].op \in TicketOps => call'[x].ticket # call'[v].ticket
      <4>1. v # w /\ pc[v] = "insert" /\ call'[v] = call[v]
        BY <2>o, <3>1, <3>4
      <4>2. /\ ticket[call[v].ticket] = Nil /\ call[v].ticket \in Tickets
            /\ \A x \in Workers \ {v} :
                 call[x] # Nil /\ call[x].op \in TicketOps => call[x].ticket # call[v].ticket
        BY <1>t, <4>1, Busy, WhoRuns DEF InsertsApart, TicketOps
      <4>3. ticket'[call[v].ticket] = Nil
        BY <1>t, <3>2, <3>3, <4>1, <4>2
      <4> QED BY <2>o, <3>1, <4>1, <4>2, <4>3
    <3> QED BY <3>4 DEF InsertsApart
  <2> QED BY <1>1, <2>1, <2>2 DEF Moves
<1>2. CASE Restart
  BY <1>2 DEF Restart, InsertsApart
<1>3. CASE Tick \/ Exhausted \/ UNCHANGED vars
  BY <1>t, <1>3 DEF Tick, Exhausted, vars, dbVars, workerVars, InsertsApart
<1> QED BY <1>1, <1>2, <1>3 DEF Next, Moves

LEMMA InitVersions ==
  ASSUME NamesStay, Init
  PROVE  VersionsInv
<1>1. SaidInv
  BY InitSaid
<1>2. VersionsHeld /\ InsertsApart /\ \A w \in Workers : SeenOK(w)
  BY DEF Init, VersionsHeld, InsertsApart, SeenOK
<1> QED BY <1>1, <1>2 DEF VersionsInv

LEMMA NextVersions ==
  ASSUME NamesStay, VersionsInv, [Next]_vars
  PROVE  VersionsInv'
<1>1. SaidInv'
  BY NextSaid DEF VersionsInv
<1> QED BY <1>1, VersionsGrow, AllSeen, InsertsStayApart DEF VersionsInv

-----------------------------------------------------------------------------
(* Every statement is a step of TicketVersions.                            *)

\* What the other workers are about to record, and have been granted.
OthersDue(w) == UNION {DueOf(v) : v \in Workers \ {w}}
OthersGrants(w) == UNION {GrantOf(v) : v \in Workers \ {w}}

LEMMA Collect ==
  ASSUME NEW w \in Workers, \A v \in Workers \ {w} : Unmoved(v)
  PROVE  /\ Due = OthersDue(w) \cup DueOf(w) /\ Due' = OthersDue(w) \cup DueOf(w)'
         /\ Grants = OthersGrants(w) \cup GrantOf(w) /\ Grants' = OthersGrants(w) \cup GrantOf(w)'
<1>1. \A v \in Workers \ {w} : DueOf(v)' = DueOf(v) /\ GrantOf(v)' = GrantOf(v)
  BY DEF Unmoved, DueOf, EntryOf, GrantOf
<1>2. /\ Due = OthersDue(w) \cup DueOf(w)
      /\ Grants = OthersGrants(w) \cup GrantOf(w)
  BY DEF Due, Grants, OthersDue, OthersGrants
<1>3. \A x : x \in Due' <=> \E v \in Workers : x \in DueOf(v)'
  BY DEF Due, DueOf, EntryOf
<1>4. \A x : x \in Grants' <=> \E v \in Workers : x \in GrantOf(v)'
  BY DEF Grants, GrantOf
<1>5. \A x : x \in Due' <=> x \in OthersDue(w) \cup DueOf(w)'
  BY <1>1, <1>3 DEF OthersDue
<1>6. \A x : x \in Grants' <=> x \in OthersGrants(w) \cup GrantOf(w)'
  BY <1>1, <1>4 DEF OthersGrants
<1> QED BY <1>2, <1>5, <1>6

\* A statement that writes no row and no entry, and after which its worker has nothing
\* more to record and no other grant, only forgets.
LEMMA Forgets ==
  ASSUME NEW w \in Workers, \A v \in Workers \ {w} : Unmoved(v),
         UNCHANGED <<ticket, versions, history, now>>,
         DueOf(w)' \subseteq DueOf(w), GrantOf(w)' \subseteq GrantOf(w)
  PROVE  Versions!Next
<1>1. Due' \subseteq Due /\ Grants' \subseteq Grants
  BY Collect
<1> QED BY <1>1 DEF Versions!Next, Versions!Forget

\* The rows of TicketVersions are those of the service.
LEMMA SameRules ==
  /\ Versions!Roles = Roles /\ Versions!Never = Never
  /\ \A s : Versions!CreatedRow(s) = CreatedRow(s)
  /\ \A r, s : Versions!MovedRow(r, s) = MovedRow(r, s)
  /\ \A r, s, n : Versions!ResolvedRow(r, s, n) = ResolvedRow(r, s, n)
  /\ \A r, s, n : Versions!ClosedRow(r, s, n) = ClosedRow(r, s, n)
  /\ \A r, s : Versions!ReopenedRow(r, s) = ReopenedRow(r, s)
  /\ \A r, s : Versions!ReplyReopenedRow(r, s) = ReplyReopenedRow(r, s)
  /\ \A r, a : Versions!AssignedRow(r, a) = AssignedRow(r, a)
  BY DEF Versions!Roles, Roles, Versions!Never, Never, Versions!CreatedRow, CreatedRow,
         Versions!MovedRow, MovedRow, Versions!ResolvedRow, ResolvedRow, Versions!ClosedRow, ClosedRow,
         Versions!ReopenedRow, ReopenedRow, Versions!ReplyReopenedRow, ReplyReopenedRow,
         Versions!AssignedRow, AssignedRow

\* Worker w has written its row: what it is to record falls due, if it is to record it.
RowWritten(w) ==
  /\ pc[w] = "write" /\ RowOf(w).status \in Live
  /\ ticket' = [ticket EXCEPT ![call[w].ticket] = RowOf(w)]
  /\ versions' = [versions EXCEPT ![call[w].ticket] = @ \cup {RowOf(w)}]
  /\ UNCHANGED <<history, now>>
  /\ pc'[w] \in {"record", "announce", "idle"}
  /\ pc'[w] = "record" => /\ call[w].op # "assign" /\ call'[w] = call[w]
                          /\ snap'[w] = snap[w] /\ target'[w] = target[w]

LEMMA WriteIsStep ==
  ASSUME VersionsInv, ReopenTarget # "Closed", NEW w \in Workers,
         \A v \in Workers \ {w} : Unmoved(v), RowWritten(w)
  PROVE  Versions!Next
<1> DEFINE c == call[w]
           t == c.ticket
           r == snap[w]
           u == RowOf(w)
           e == EntryOf(w)
<1>t. ServiceInv /\ SeenOK(w) /\ HeldOK(w) /\ TruthOK(w)
  BY DEF VersionsInv, SaidInv, TrueInv
<1>1. /\ pc[w] = "write" /\ c \in Call /\ WellFormed(c) /\ t \in Tickets /\ r \in Row /\ r # Nil
      /\ c.op \in {"setStatus", "assign", "resolve", "close", "reopen", "reply"}
      /\ target[w] \in Statuses \cup {Nil}
      /\ u \in Row
      /\ c.op # "assign" => u.status = target[w] /\ target[w] \in Statuses
  BY <1>t, Busy, WhoRuns, RowOfIsRow, LiveStatus, NilAssumption DEF RowWritten, ForeignKeyHolds, TicketOps
<1>2. r \in versions[t]
  BY <1>t, <1>1 DEF SeenOK
<1>3. versions' = [versions EXCEPT ![t] = @ \cup {u}] /\ ticket' = [ticket EXCEPT ![t] = u]
  BY DEF RowWritten
<1>4. /\ DueOf(w) = {} /\ DueOf(w)' \in {{}, {<<t, e>>}}
      /\ c.op = "assign" => DueOf(w)' = {}
      /\ GrantOf(w)' = {}
      /\ c.op # "reply" => GrantOf(w) = {}
      /\ c.op = "reply" => GrantOf(w) = {<<t, r>>}
  BY <1>t, <1>1 DEF RowWritten, DueOf, GrantOf, EntryOf, SeenOK
<1>5. /\ Due' \in {Due, Due \cup {<<t, e>>}}
      /\ c.op = "assign" => Due' = Due
  BY <1>4, Collect
<1>6. c.op # "reply" => Grants' = Grants
  BY <1>4, Collect
<1>7. c.op = "reply" => Versions!GrantUsed(t, r)
  <2>1. ASSUME c.op = "reply" PROVE /\ <<t, r>> \in Grants
                                    /\ Grants' = Grants \/ Grants' = Grants \ {<<t, r>>}
    BY <1>4, <2>1, Collect
  <2> QED BY <2>1 DEF Versions!GrantUsed
<1>8. c.op # "assign" =>
        e = Versions!Change(r.status, u.status, IF c.op = "close" THEN "system" ELSE c.role)
  BY <1>1 DEF EntryOf, Versions!Change
<1>9. c.op # "assign" =>
        Versions!PutMoved(t, r, u, IF c.op = "close" THEN "system" ELSE c.role)
  BY <1>2, <1>3, <1>5, <1>8 DEF Versions!PutMoved, Versions!Put, RowWritten
<1>10. c.op # "assign" => c.role \in Versions!Roles
  BY <1>1, SameRules DEF WellFormed, TicketOps
<1>11. /\ c.op = "setStatus" => /\ c.role # "user"
                                /\ target[w] = ClosedStatus => c.role = "admin"
                                /\ u = Versions!MovedRow(r, target[w])
       /\ c.op = "resolve" => c.role # "user" /\ u = Versions!ResolvedRow(r, ResolvedStatus, now)
       /\ c.op = "close" => u = Versions!ClosedRow(r, ClosedStatus, now)
       /\ c.op = "reopen" => /\ c.role # "user" /\ r.status = ClosedStatus
                             /\ target[w] # ClosedStatus /\ u = Versions!ReopenedRow(r, target[w])
       /\ c.op = "reply" => /\ c.role = "user" /\ target[w] # ClosedStatus
                            /\ u = Versions!ReplyReopenedRow(r, target[w])
       /\ c.op = "assign" => u = Versions!AssignedRow(r, c.assignee)
  <2>1. c # Nil
    BY <1>1, CallAssumption
  <2>2. /\ c.op = "setStatus" => c.role # "user"
        /\ c.op \in {"resolve", "reopen"} => c.role # "user"
        /\ c.op = "resolve" => target[w] = ResolvedStatus
        /\ c.op = "close" => target[w] = ClosedStatus
        /\ c.op = "reopen" => r.status = ClosedStatus
        /\ target[w] = ClosedStatus => c.op = "close" \/ (c.op = "setStatus" /\ c.role = "admin")
        /\ c.op = "reply" => c.role = "user"
    BY <1>t, <1>1, <2>1 DEF SeenOK, HeldOK, TruthOK, ClosingCall
  <2>3. /\ c.op = "setStatus" => u = MovedRow(r, target[w])
        /\ c.op = "resolve" => u = ResolvedRow(r, target[w], now)
        /\ c.op = "close" => u = ClosedRow(r, target[w], now)
        /\ c.op = "reopen" => u = ReopenedRow(r, target[w])
        /\ c.op = "reply" => u = ReplyReopenedRow(r, target[w])
        /\ c.op = "assign" => u = AssignedRow(r, c.assignee)
    BY DEF RowOf
  <2> QED BY <2>2, <2>3, SameRules
<1> HIDE DEF c, t, r, u, e
<1>12. CASE c.op = "setStatus"
  <2>1. Versions!UpdateStatus(t, r, target[w], c.role)
    BY <1>6, <1>9, <1>11, <1>12 DEF Versions!UpdateStatus
  <2> QED BY <1>1, <1>2, <1>10, <1>12, <2>1 DEF Versions!Next
<1>13. CASE c.op = "resolve"
  <2>1. Versions!Resolve(t, r, c.role)
    BY <1>6, <1>9, <1>11, <1>13 DEF Versions!Resolve
  <2> QED BY <1>1, <1>2, <1>10, <1>13, <2>1 DEF Versions!Next
<1>14. CASE c.op = "close"
  <2>1. Versions!Close(t, r)
    BY <1>6, <1>9, <1>11, <1>14 DEF Versions!Close
  <2> QED BY <1>1, <1>2, <2>1 DEF Versions!Next
<1>15. CASE c.op = "reopen"
  <2>1. Versions!Reopen(t, r, target[w], c.role)
    BY <1>6, <1>9, <1>11, <1>15 DEF Versions!Reopen
  <2> QED BY <1>1, <1>2, <1>10, <1>15, <2>1 DEF Versions!Next
<1>16. CASE c.op = "reply"
  <2>1. Versions!ReplyReopens(t, r, target[w])
    BY <1>7, <1>9, <1>11, <1>16 DEF Versions!ReplyReopens
  <2> QED BY <1>1, <1>2, <1>16, <2>1 DEF Versions!Next
<1>17. CASE c.op = "assign"
  <2>1. c.assignee \in Assignees \cup {Nil}
    BY <1>1 DEF Call
  <2>2. Versions!Assign(t, r, c.assignee)
    BY <1>2, <1>3, <1>5, <1>6, <1>11, <1>17 DEF Versions!Assign, RowWritten
  <2> QED BY <1>1, <1>2, <2>1, <2>2 DEF Versions!Next
<1> QED BY <1>1, <1>12, <1>13, <1>14, <1>15, <1>16, <1>17

\* The update of w fails, or the database refuses it.
LEMMA WriteFailsIsStep ==
  ASSUME VersionsInv, ReopenTarget # "Closed", NEW w \in Workers,
         \A v \in Workers \ {w} : Unmoved(v), pc[w] = "write", WriteFails(w),
         UNCHANGED <<ticket, versions, history, now>>
  PROVE  Versions!Next
<1> DEFINE t == call[w].ticket
           r == snap[w]
<1>t. ServiceInv /\ LocalTypes /\ SeenOK(w) /\ HeldOK(w) /\ TruthOK(w)
  BY DEF VersionsInv, SaidInv, TrueInv, ServiceInv, TypeOK, LocalTypes
<1>1. CASE call[w].op = "reply"
  <2>1. /\ t \in Tickets /\ r \in Row /\ r # Nil /\ target[w] \in Statuses \cup {Nil}
        /\ call[w].role = "user" /\ target[w] # ClosedStatus /\ r \in versions[t]
        /\ "reopened" \in outbox[w]
    <3>1. /\ call[w] \in Call /\ call[w] # Nil /\ t \in Tickets /\ r \in Row /\ r # Nil
          /\ target[w] \in Statuses \cup {Nil}
      BY <1>t, <1>1, Busy, CallAssumption, NilAssumption DEF TicketOps
    <3> QED BY <1>t, <1>1, <3>1 DEF SeenOK, HeldOK, TruthOK, ClosingCall
  <2>2. /\ pc'[w] = "record" /\ call'[w] = call[w] /\ snap'[w] = r /\ target'[w] = target[w]
    BY <1>t, <1>1 DEF WriteFails, Goto, LocalTypes
  <2>3. /\ DueOf(w) = {} /\ DueOf(w)' = {<<t, Versions!Change(r.status, target[w], "user")>>}
        /\ GrantOf(w) = {<<t, r>>} /\ GrantOf(w)' = {}
    BY <1>1, <2>1, <2>2 DEF DueOf, EntryOf, GrantOf, Versions!Change
  <2>4. /\ Due' = Due \cup {<<t, Versions!Change(r.status, target[w], "user")>>}
        /\ <<t, r>> \in Grants
        /\ Grants' = Grants \/ Grants' = Grants \ {<<t, r>>}
    BY <2>3, Collect
  <2>5. Versions!ReopeningLost(t, r, target[w])
    BY <2>1, <2>4 DEF Versions!ReopeningLost, Versions!GrantUsed
  <2> HIDE DEF t, r
  <2> QED BY <2>1, <2>5 DEF Versions!Next
<1>2. CASE call[w].op # "reply"
  <2>1. DueOf(w)' = {} /\ GrantOf(w)' = {}
    BY <1>t, <1>2 DEF WriteFails, Idle, LocalTypes, DueOf, GrantOf
  <2> QED BY <2>1, Forgets
<1> QED BY <1>1, <1>2

\* Worker w has created its ticket.
LEMMA CreateIsStep ==
  ASSUME VersionsInv, NEW w \in Workers,
         \A v \in Workers \ {w} : Unmoved(v), pc[w] = "insert",
         ticket' = [ticket EXCEPT ![call[w].ticket] = CreatedRow(sys.new)],
         versions' = [versions EXCEPT ![call[w].ticket] = @ \cup {CreatedRow(sys.new)}],
         UNCHANGED <<history, now>>,
         \/ pc'[w] = "idle"
         \/ /\ pc'[w] = "record" /\ call'[w] = call[w] /\ snap'[w] = snap[w]
            /\ target'[w] = sys.new
  PROVE  Versions!Next
<1> DEFINE t == call[w].ticket
           by == call[w].role
           e == Versions!Change(Nil, NewStatus, by)
<1>t. ServiceInv /\ TruthOK(w) /\ InsertsApart /\ sys.new = NewStatus
  BY DEF VersionsInv, SaidInv, TrueInv, NamesInv, RestartFindsSystemStatuses
<1>1. /\ t \in Tickets /\ by \in Versions!Roles /\ call[w].op = "create" /\ snap[w] = Nil
      /\ ticket[t] = Nil
  BY <1>t, Busy, WhoRuns, SameRules DEF TicketOps, WellFormed, InsertsApart, TruthOK
<1>4. /\ DueOf(w) = {} /\ DueOf(w)' \in {{}, {<<t, e>>}}
      /\ GrantOf(w) = {} /\ GrantOf(w)' = {}
  BY <1>t, <1>1 DEF DueOf, EntryOf, GrantOf, Versions!Change
<1>5. Due' \in {Due, Due \cup {<<t, e>>}} /\ Grants' = Grants
  BY <1>4, Collect
<1>6. Versions!Create(t, by)
  BY <1>t, <1>1, <1>5, SameRules DEF Versions!Create, Versions!Put
<1> HIDE DEF t, by, e
<1> QED BY <1>1, <1>6 DEF Versions!Next

LEMMA CheckReplyIsStep ==
  ASSUME VersionsInv, NEW w \in Workers, \A v \in Workers \ {w} : Unmoved(v), CheckReply(w),
         UNCHANGED <<ticket, versions, history, now>>
  PROVE  Versions!Next
<1> DEFINE t == call[w].ticket
           r == snap[w]
           name == nameOf[snap[w].status]
<1>t. /\ ServiceInv /\ LocalTypes /\ SeenOK(w) /\ TruthOK(w) /\ TablesNamed
  BY DEF VersionsInv, SaidInv, TrueInv, NamesInv, ServiceInv, TypeOK, LocalTypes
<1>1. /\ pc[w] = "check" /\ call[w].op = "reply" /\ t \in Tickets /\ r \in Row /\ r # Nil
      /\ DueOf(w) = {} /\ GrantOf(w) = {} /\ "reopened" \notin outbox[w] /\ r \in versions[t]
      /\ call[w] # Nil
  BY <1>t, Busy, CallAssumption, NilAssumption
     DEF CheckReply, TicketOps, TruthOK, SeenOK, DueOf, GrantOf
<1>2. CASE Idle(w)
  <2>1. DueOf(w)' = {} /\ GrantOf(w)' = {}
    BY <1>t, <1>2 DEF Idle, LocalTypes, DueOf, GrantOf
  <2> QED BY <2>1, Forgets
<1>3. CASE ~Idle(w)
  <2>1. /\ r.status \in Live /\ CanUserUpdate(r, name, call[w].role, now)
        /\ pc'[w] = "reply" /\ call'[w] = call[w] /\ snap'[w] = r
        /\ outbox'[w] = outbox[w] \cup (IF call[w].role = "user" /\ name = "Resolved"
                                        THEN {"reopened"} ELSE {})
    BY <1>t, <1>3 DEF CheckReply, Goto, LocalTypes
  <2>2. CASE call[w].role = "user" /\ name = "Resolved"
    <3>1. DueOf(w)' = {} /\ GrantOf(w)' = {<<t, r>>}
      BY <1>1, <2>1, <2>2 DEF DueOf, GrantOf
    <3>2. Due' = Due /\ Grants' = Grants \cup {<<t, r>>}
      BY <1>1, <3>1, Collect
    <3>3. r.status = ResolvedStatus
      BY <1>t, <2>1, <2>2, NamedResolved
    <3>4. r.resolvedAt # Versions!Never /\ now <= r.resolvedAt + ReopenWindow
      BY <2>1, <2>2, SameRules DEF CanUserUpdate
    <3>5. Versions!AcceptReply(t, r)
      BY <1>1, <3>2, <3>3, <3>4 DEF Versions!AcceptReply
    <3> HIDE DEF t, r
    <3> QED BY <1>1, <3>5 DEF Versions!Next
  <2>3. CASE ~(call[w].role = "user" /\ name = "Resolved")
    <3>1. DueOf(w)' = {} /\ GrantOf(w)' = {}
      BY <1>1, <2>1, <2>3 DEF DueOf, GrantOf
    <3> QED BY <3>1, Forgets
  <2> QED BY <2>2, <2>3
<1> QED BY <1>2, <1>3

LEMMA RecordIsStep ==
  ASSUME VersionsInv, NEW w \in Workers, \A v \in Workers \ {w} : Unmoved(v), Record(w),
         UNCHANGED <<ticket, versions, now>>
  PROVE  Versions!Next
<1> DEFINE t == call[w].ticket
           e == EntryOf(w)
<1>t. ServiceInv /\ LocalTypes /\ Nil \notin Live
  BY LiveStatus DEF VersionsInv, SaidInv, TrueInv, ServiceInv, TypeOK, LocalTypes
<1>1. /\ pc[w] = "record" /\ pc'[w] = "announce" /\ t \in Tickets
      /\ DueOf(w) = {<<t, e>>} /\ DueOf(w)' = {} /\ GrantOf(w) = {} /\ GrantOf(w)' = {}
  BY <1>t, Busy, WhoRuns DEF Record, Goto, LocalTypes, TicketOps, DueOf, GrantOf
<1>2. /\ <<t, e>> \in Due /\ Grants' = Grants
      /\ Due' = Due \/ Due' = Due \ {<<t, e>>}
  BY <1>1, Collect
<1>3. CASE history' = history
  BY <1>1, <1>3, Forgets
<1>4. CASE history' # history
  <2>1. e.to \in Live /\ history' = [history EXCEPT ![t] = Append(@, e)]
    BY <1>4 DEF Record, ForeignKeyHolds
  <2>2. Versions!Record(t, e)
    BY <1>t, <1>2, <2>1 DEF Versions!Record
  <2> HIDE DEF t, e
  <2>3. <<t, e>>[1] = t /\ <<t, e>>[2] = e
    OBVIOUS
  <2> QED BY <1>2, <2>2, <2>3 DEF Versions!Next
<1> QED BY <1>3, <1>4

\* Statements that write neither a row nor an entry.
LEMMA OtherStepsForget ==
  ASSUME VersionsInv, NEW w \in Workers, \A v \in Workers \ {w} : Unmoved(v),
         UNCHANGED <<ticket, versions, history, now>>,
         \/ Handle(w) \/ LookupTarget(w) \/ Get(w) \/ CheckTransition(w) \/ InsertReply(w)
         \/ Announce(w) \/ AddStatus(w) \/ GetStatus(w) \/ SaveStatus(w) \/ CountByStatus(w)
         \/ DeleteStatus(w) \/ Idle(w) \/ Goto(w, "announce")
  PROVE  Versions!Next
<1>t. ServiceInv /\ LocalTypes
  BY DEF VersionsInv, SaidInv, TrueInv, ServiceInv, TypeOK, LocalTypes
<1>1. ASSUME pc'[w] \notin {"reply", "write", "record"} PROVE Versions!Next
  <2>1. DueOf(w)' = {} /\ GrantOf(w)' = {}
    BY <1>1 DEF DueOf, GrantOf
  <2> QED BY <2>1, Forgets
<1>2. ASSUME pc'[w] = "write", call'[w].op # "reply" PROVE Versions!Next
  <2>1. DueOf(w)' = {} /\ GrantOf(w)' = {}
    BY <1>2 DEF DueOf, GrantOf
  <2> QED BY <2>1, Forgets
<1>3. CASE Handle(w)
  <2>1. PICK c, f : Accept(w, c, f)
    BY <1>3, HandlesAccept
  <2>2. pc'[w] = FirstStep(c.op) /\ c.op \in AllOps
    BY <1>t, <2>1, ServiceAssumption DEF Accept, LocalTypes
  <2>3. FirstStep(c.op) \notin {"reply", "write", "record"}
    BY <2>2 DEF FirstStep, AllOps, TicketOps, StatusOps
  <2> QED BY <1>1, <2>2, <2>3
<1>4. CASE Idle(w)
  BY <1>t, <1>1, <1>4 DEF Idle, LocalTypes
<1>5. ASSUME NEW step, Goto(w, step), step \notin {"reply", "write", "record"} PROVE Versions!Next
  BY <1>t, <1>1, <1>5 DEF Goto, LocalTypes
<1>6. ASSUME Goto(w, "write"), call[w].op # "reply" PROVE Versions!Next
  BY <1>t, <1>2, <1>6 DEF Goto, LocalTypes
<1>7. CASE Get(w) \/ CheckTransition(w)
  BY <1>4, <1>5, <1>6, <1>7 DEF Get, CheckTransition
<1>8. CASE InsertReply(w)
  <2>1. CASE "reopened" \in outbox[w]
    <3>1. /\ pc[w] = "reply" /\ pc'[w] = "write" /\ call'[w] = call[w] /\ snap'[w] = snap[w]
          /\ outbox'[w] = outbox[w]
      BY <1>t, <1>8, <2>1 DEF InsertReply, Goto, LocalTypes
    <3>2. DueOf(w)' = {} /\ GrantOf(w)' = GrantOf(w)
      BY <3>1 DEF DueOf, GrantOf
    <3> QED BY <3>2, Forgets
  <2>2. CASE "reopened" \notin outbox[w]
    BY <1>5, <1>8, <2>2 DEF InsertReply
  <2> QED BY <2>1, <2>2
<1>9. CASE Announce(w)
  <2>1. CASE followUp[w] = Nil
    BY <1>4, <1>9, <2>1 DEF Announce, Return
  <2>2. CASE followUp[w] # Nil
    <3>1. followUp[w].op = "assign" /\ FirstStep("assign") = "get"
      BY <1>9, <1>t, <2>2 DEF Announce, FirstStep, ServiceInv, WorkersOK, WorkerOK
    <3>2. pc'[w] = "get"
      BY <1>9, <1>t, <2>2, <3>1 DEF Announce, Return, LocalTypes
    <3> QED BY <1>1, <3>2
  <2> QED BY <2>1, <2>2
<1>10. CASE GetStatus(w)
  <2>1. CASE ~Idle(w)
    <3>1. pc'[w] \in {"saveStatus", "count"}
      BY <1>10, <1>t, <2>1 DEF GetStatus, LocalTypes
    <3> QED BY <1>1, <3>1
  <2> QED BY <1>4, <2>1
<1>11. CASE LookupTarget(w) \/ AddStatus(w) \/ SaveStatus(w) \/ CountByStatus(w) \/ DeleteStatus(w)
  BY <1>4, <1>5, <1>11 DEF LookupTarget, AddStatus, SaveStatus, CountByStatus, DeleteStatus
<1> QED BY <1>3, <1>4, <1>5, <1>7, <1>8, <1>9, <1>10, <1>11

LEMMA WorkerIsStep ==
  ASSUME VersionsInv, [Next]_vars, ReopenTarget # "Closed",
         NEW w \in Workers, Moves(w)
  PROVE  Versions!Next
<1>t. /\ ServiceInv /\ LocalTypes /\ \A v \in Workers \ {w} : Unmoved(v)
  BY OthersUnmoved DEF VersionsInv, SaidInv, TrueInv, ServiceInv, TypeOK, LocalTypes
<1>1. CASE \/ Handle(w) \/ LookupTarget(w) \/ Get(w) \/ CheckTransition(w) \/ InsertReply(w)
           \/ Announce(w) \/ AddStatus(w) \/ GetStatus(w) \/ SaveStatus(w) \/ CountByStatus(w)
           \/ DeleteStatus(w)
  <2>1. ASSUME Handle(w) PROVE UNCHANGED <<ticket, versions, history, now>>
    <3>1. PICK c, f : Accept(w, c, f)
      BY <2>1, HandlesAccept
    <3> QED BY <3>1 DEF Accept, dbVars
  <2>2. UNCHANGED <<ticket, versions, history, now>>
    BY <1>1, <2>1 DEF LookupTarget, Get, CheckTransition, InsertReply, Announce, AddStatus,
         GetStatus, SaveStatus, CountByStatus, DeleteStatus, dbVars
  <2> QED BY <1>1, <1>t, <2>2, OtherStepsForget
<1>2. CASE CheckReply(w)
  <2>1. UNCHANGED <<ticket, versions, history, now>>
    BY <1>2 DEF CheckReply, dbVars
  <2> QED BY <1>2, <1>t, <2>1, CheckReplyIsStep
<1>3. CASE Record(w)
  <2>1. UNCHANGED <<ticket, versions, now>>
    BY <1>3 DEF Record
  <2> QED BY <1>3, <1>t, <2>1, RecordIsStep
<1>4. CASE InsertTicket(w)
  <2>1. CASE Idle(w) /\ UNCHANGED <<ticket, versions>>
    <3>1. UNCHANGED <<history, now>>
      BY <1>4 DEF InsertTicket
    <3> QED BY <1>t, <2>1, <3>1, OtherStepsForget
  <2>2. CASE ~(Idle(w) /\ UNCHANGED <<ticket, versions>>)
    <3>1. /\ pc[w] = "insert" /\ pc'[w] = "record" /\ call'[w] = call[w] /\ snap'[w] = snap[w]
          /\ target'[w] = sys.new /\ UNCHANGED <<history, now>>
          /\ ticket' = [ticket EXCEPT ![call[w].ticket] = CreatedRow(sys.new)]
          /\ versions' = [versions EXCEPT ![call[w].ticket] = @ \cup {CreatedRow(sys.new)}]
      BY <1>4, <1>t, <2>2 DEF InsertTicket, Goto, LocalTypes
    <3> QED BY <1>t, <3>1, CreateIsStep
  <2> QED BY <2>1, <2>2
<1>5. CASE Write(w)
  <2>1. CASE ForeignKeyHolds(RowOf(w).status)
    <3>1. pc[w] = "write" /\ call[w].op # "assign" <=> pc'[w] = "record"
      BY <1>5, <1>t, <2>1 DEF Write, Goto, LocalTypes
    <3>2. RowWritten(w)
      BY <1>5, <1>t, <2>1 DEF RowWritten, Write, Goto, LocalTypes, ForeignKeyHolds
    <3> QED BY <1>t, <3>2, WriteIsStep
  <2>2. CASE ~ForeignKeyHolds(RowOf(w).status)
    <3>1. pc[w] = "write" /\ WriteFails(w) /\ UNCHANGED <<ticket, versions, history, now>>
      BY <1>5, <2>2 DEF Write
    <3> QED BY <1>t, <3>1, WriteFailsIsStep
  <2> QED BY <2>1, <2>2
<1>6. CASE StatementFails(w)
  <2>1. UNCHANGED <<ticket, versions, history, now>>
    BY <1>6 DEF StatementFails, dbVars
  <2>2. CASE pc[w] = "write" /\ WriteFails(w)
    BY <1>t, <2>1, <2>2, WriteFailsIsStep
  <2>3. CASE Idle(w) \/ Goto(w, "announce")
    BY <1>t, <2>1, <2>3, OtherStepsForget
  <2> QED BY <1>6, <2>2, <2>3 DEF StatementFails
<1>7. CASE AnswerLost(w)
  <2>1. CASE pc[w] = "insert"
    <3>1. /\ pc'[w] = "idle" /\ UNCHANGED <<history, now>>
          /\ ticket' = [ticket EXCEPT ![call[w].ticket] = CreatedRow(sys.new)]
          /\ versions' = [versions EXCEPT ![call[w].ticket] = @ \cup {CreatedRow(sys.new)}]
      BY <1>7, <1>t, <2>1 DEF AnswerLost, Idle, LocalTypes
    <3> QED BY <1>t, <2>1, <3>1, CreateIsStep
  <2>2. CASE pc[w] = "write"
    <3>1. RowWritten(w)
      BY <1>7, <1>t, <2>2 DEF RowWritten, AnswerLost, WriteFails, Goto, Idle, LocalTypes, ForeignKeyHolds
    <3> QED BY <1>t, <3>1, WriteIsStep
  <2> QED BY <1>7, <2>1, <2>2 DEF AnswerLost
<1> QED BY <1>1, <1>2, <1>3, <1>4, <1>5, <1>6, <1>7 DEF Moves, Step

LEMMA StepIsVersionsStep ==
  ASSUME VersionsInv, [Next]_vars, ReopenTarget # "Closed"
  PROVE  [Versions!Next]_(Versions!vars)
<1>1. ASSUME NEW w \in Workers, Moves(w) PROVE Versions!Next
  BY <1>1, WorkerIsStep
<1>2. CASE Restart
  <2>1. UNCHANGED <<ticket, versions, history, now>> /\ \A w \in Workers : pc'[w] = "idle"
    BY <1>2 DEF Restart, dbVars
  <2>2. Due' = {} /\ Grants' = {}
    BY <2>1 DEF Due, DueOf, Grants, GrantOf
  <2>3. Versions!Forget
    BY <2>1, <2>2 DEF Versions!Forget
  <2> QED BY <2>3 DEF Versions!Next
<1>3. ASSUME UNCHANGED workerVars PROVE Due' = Due /\ Grants' = Grants
  BY <1>3 DEF workerVars, Due, DueOf, EntryOf, Grants, GrantOf
<1>4. CASE Tick
  <2>1. UNCHANGED <<ticket, versions, history>> /\ UNCHANGED <<Due, Grants>>
        /\ now < MaxDay /\ now' = now + 1
    BY <1>3, <1>4 DEF Tick, dbVars
  <2>2. Versions!Tick
    BY <2>1 DEF Versions!Tick
  <2> QED BY <2>2 DEF Versions!Next
<1>5. CASE Exhausted \/ UNCHANGED vars
  <2>1. UNCHANGED <<ticket, versions, history, now>> /\ UNCHANGED <<Due, Grants>>
    BY <1>3, <1>5 DEF Exhausted, vars, dbVars
  <2> QED BY <2>1 DEF Versions!vars
<1> QED BY <1>1, <1>2, <1>4, <1>5 DEF Next, Moves

LEMMA InitIsVersionsInit ==
  ASSUME Init
  PROVE  Versions!Init
<1>1. Due = {} /\ Grants = {}
  BY DEF Init, Due, DueOf, Grants, GrantOf
<1> QED BY <1>1 DEF Init, Versions!Init

\* However requests overlap, statements fail and the process restarts, every row the
\* service writes is made, by one operation of somebody who may do it, from a version its
\* ticket has had, and every entry it inserts is of a row it has written or of a reply it
\* has granted; as long as no status is renamed and reopening does not lead to Closed.
THEOREM ServiceImplementsVersions ==
  ASSUME NamesStay, ReopenTarget # "Closed"
  PROVE  Spec => ImplementsVersions
<1>1. Init => VersionsInv
  BY InitVersions
<1>2. VersionsInv /\ [Next]_vars => VersionsInv'
  BY NextVersions
<1>3. Init => Versions!Init
  BY InitIsVersionsInit
<1>4. VersionsInv /\ [Next]_vars => [Versions!Next]_(Versions!vars)
  BY StepIsVersionsStep
<1> QED BY <1>1, <1>2, <1>3, <1>4, PTL DEF Spec, ImplementsVersions, Versions!Spec

-----------------------------------------------------------------------------
(* What TicketVersions promises adds up to.                                *)

VersionsTyped == versions \in [Tickets -> SUBSET Row] /\ now \in Nat

\* What is due to be recorded is as permitted as what is recorded.
DueIsPermitted ==
  /\ \A d \in Due : Versions!EntryPermitted(d[2])
  /\ \A g \in Grants : g[2].status = ResolvedStatus

PromisesInv ==
  VersionsTyped /\ DueIsPermitted /\ Versions!MomentsAreTrue /\ Versions!EntriesArePermitted

\* A new row u of t bears the moments of a version of t, or none, or was resolved or closed
\* just now.
LEMMA MomentsOfNewRow ==
  ASSUME VersionsTyped, Versions!MomentsAreTrue, NEW t \in Tickets, NEW u \in Row,
         versions' = [versions EXCEPT ![t] = @ \cup {u}], now' = now,
         \/ u.resolvedAt = Never
         \/ u.resolvedAt = now /\ u.status = ResolvedStatus
         \/ \E v \in versions[t] : u.resolvedAt = v.resolvedAt,
         \/ u.closedAt = Never
         \/ u.closedAt = now /\ u.status = ClosedStatus
         \/ \E v \in versions[t] : u.closedAt = v.closedAt
  PROVE  VersionsTyped' /\ Versions!MomentsAreTrue'
<1> DEFINE Told(x, vs, n) ==
             /\ x.resolvedAt # Never =>
                  /\ x.resolvedAt <= n
                  /\ \E y \in vs : y.status = ResolvedStatus /\ y.resolvedAt = x.resolvedAt
             /\ x.closedAt # Never =>
                  /\ x.closedAt <= n
                  /\ \E y \in vs : y.status = ClosedStatus /\ y.closedAt = x.closedAt
<1>1. /\ versions' \in [Tickets -> SUBSET Row] /\ versions'[t] = versions[t] \cup {u}
      /\ \A s \in Tickets \ {t} : versions'[s] = versions[s]
      /\ \A s \in Tickets : versions[s] \subseteq versions'[s]
  BY DEF VersionsTyped
<1>2. \A s \in Tickets : \A x \in versions[s] : Told(x, versions[s], now)
  BY SameRules DEF Versions!MomentsAreTrue
<1>3. \A s \in Tickets : \A x \in versions[s] : Told(x, versions'[s], now)
  BY <1>1, <1>2
<1>4. Told(u, versions'[t], now)
  <2>1. now <= now
    BY DEF VersionsTyped
  <2>2. ASSUME u.resolvedAt # Never
        PROVE  /\ u.resolvedAt <= now
               /\ \E y \in versions'[t] : y.status = ResolvedStatus /\ y.resolvedAt = u.resolvedAt
    BY <1>1, <1>2, <2>1, <2>2
  <2>3. ASSUME u.closedAt # Never
        PROVE  /\ u.closedAt <= now
               /\ \E y \in versions'[t] : y.status = ClosedStatus /\ y.closedAt = u.closedAt
    BY <1>1, <1>2, <2>1, <2>3
  <2> QED BY <2>2, <2>3
<1>5. \A s \in Tickets : \A x \in versions'[s] : Told(x, versions'[s], now)
  BY <1>1, <1>3, <1>4
<1> QED BY <1>1, <1>5, SameRules DEF Versions!MomentsAreTrue, VersionsTyped

\* Row u of t is written, and what falls due is permitted.
LEMMA PutPromises ==
  ASSUME PromisesInv, NEW t \in Tickets, NEW u \in Row, NEW e, Versions!Put(t, u, e),
         Grants' \subseteq Grants, Versions!EntryPermitted(e),
         \/ u.resolvedAt = Never
         \/ u.resolvedAt = now /\ u.status = ResolvedStatus
         \/ \E v \in versions[t] : u.resolvedAt = v.resolvedAt,
         \/ u.closedAt = Never
         \/ u.closedAt = now /\ u.status = ClosedStatus
         \/ \E v \in versions[t] : u.closedAt = v.closedAt
  PROVE  PromisesInv'
<1>1. /\ versions' = [versions EXCEPT ![t] = @ \cup {u}] /\ now' = now /\ history' = history
      /\ Due' \in {Due, Due \cup {<<t, e>>}}
  BY DEF Versions!Put
<1>2. VersionsTyped' /\ Versions!MomentsAreTrue'
  BY <1>1, MomentsOfNewRow DEF PromisesInv
<1>3. Versions!EntriesArePermitted'
  BY <1>1 DEF PromisesInv, Versions!EntriesArePermitted
<1>4. DueIsPermitted'
  <2>1. \A d \in Due' : d \in Due \/ d[2] = e
    BY <1>1
  <2> QED BY <2>1 DEF PromisesInv, DueIsPermitted
<1> QED BY <1>2, <1>3, <1>4 DEF PromisesInv

LEMMA NextPromises ==
  ASSUME PromisesInv, [Versions!Next]_(Versions!vars)
  PROVE  PromisesInv'
<1>t. /\ versions \in [Tickets -> SUBSET Row] /\ now \in Nat
      /\ NewStatus \in Statuses /\ ResolvedStatus \in Statuses /\ ClosedStatus \in Statuses
      /\ NewStatus # ClosedStatus /\ ResolvedStatus # ClosedStatus /\ Nil \notin Statuses
      /\ \A r \in Row : r.status \in Statuses
  BY StatusAssumption, NilAssumption DEF PromisesInv, VersionsTyped, SystemStatuses, Row
<1>s. ASSUME versions' = versions, now' = now, history' = history, DueIsPermitted'
      PROVE  PromisesInv'
  BY <1>s DEF PromisesInv, VersionsTyped, Versions!MomentsAreTrue, Versions!EntriesArePermitted
<1>1. ASSUME NEW t \in Tickets, NEW by \in Versions!Roles, Versions!Create(t, by) PROVE PromisesInv'
  <2>1. /\ CreatedRow(NewStatus) \in Row /\ CreatedRow(NewStatus).resolvedAt = Never
        /\ CreatedRow(NewStatus).closedAt = Never
    BY <1>t, CreatedRowIsRow DEF CreatedRow
  <2>2. Versions!EntryPermitted(Versions!Change(Nil, NewStatus, by))
    BY <1>t DEF Versions!EntryPermitted, Versions!Change
  <2>3. /\ Versions!Put(t, CreatedRow(NewStatus), Versions!Change(Nil, NewStatus, by))
        /\ Grants' \subseteq Grants
    BY <1>1, SameRules DEF Versions!Create
  <2> QED BY <2>1, <2>2, <2>3, PutPromises
<1>2. ASSUME NEW t \in Tickets, NEW v \in versions[t], NEW s \in Statuses, NEW by,
             \/ Versions!UpdateStatus(t, v, s, by) \/ Versions!Reopen(t, v, s, by)
             \/ Versions!Resolve(t, v, by) /\ s = ResolvedStatus
             \/ Versions!Close(t, v) /\ s = ClosedStatus /\ by = "system"
             \/ Versions!ReplyReopens(t, v, s) /\ by = "user"
      PROVE  PromisesInv'
  <2>v. v \in Row /\ v.status \in Statuses /\ v.status # Nil
    BY <1>t
  <2>1. PICK u : /\ Versions!PutMoved(t, v, u, by)
                 /\ \/ u = MovedRow(v, s) \/ u = ReopenedRow(v, s)
                    \/ u = ResolvedRow(v, s, now) /\ s = ResolvedStatus
                    \/ u = ClosedRow(v, s, now) /\ s = ClosedStatus
                    \/ u = ReplyReopenedRow(v, s)
    BY <1>2, SameRules DEF Versions!UpdateStatus, Versions!Reopen, Versions!Resolve, Versions!Close,
                           Versions!ReplyReopens
  <2>2. u \in Row /\ u.status = s
    <3>1. /\ MovedRow(v, s) \in Row /\ MovedRow(v, s).status = s
          /\ ResolvedRow(v, s, now) \in Row /\ ResolvedRow(v, s, now).status = s
          /\ ClosedRow(v, s, now) \in Row /\ ClosedRow(v, s, now).status = s
          /\ ReopenedRow(v, s) \in Row /\ ReopenedRow(v, s).status = s
          /\ ReplyReopenedRow(v, s) \in Row /\ ReplyReopenedRow(v, s).status = s
      BY <1>t, <2>v, RowsAreRows
    <3> QED BY <2>1, <3>1
  <2>3. /\ \/ u.resolvedAt = Never
           \/ u.resolvedAt = now /\ u.status = ResolvedStatus
           \/ u.resolvedAt = v.resolvedAt
        /\ \/ u.closedAt = Never
           \/ u.closedAt = now /\ u.status = ClosedStatus
           \/ u.closedAt = v.closedAt
    BY <2>v, <2>1, <2>2 DEF Row, MovedRow, ReopenedRow, ResolvedRow, ClosedRow, ReplyReopenedRow
  <2>4. /\ s = ClosedStatus => by \in {"admin", "system"}
        /\ by = "user" => v.status = ResolvedStatus
    <3>1. Versions!ReplyReopens(t, v, s) => v.status = ResolvedStatus
      <4>1. ASSUME <<t, v>> \in Grants PROVE v.status = ResolvedStatus
        <5>1. <<t, v>>[2].status = ResolvedStatus
          BY <4>1 DEF PromisesInv, DueIsPermitted
        <5> QED BY <5>1
      <4> QED BY <4>1 DEF Versions!ReplyReopens, Versions!GrantUsed
    <3> QED BY <1>t, <1>2, <3>1 DEF Versions!UpdateStatus, Versions!Reopen, Versions!Resolve, Versions!Close,
                           Versions!ReplyReopens
  <2>5. Versions!EntryPermitted(Versions!Change(v.status, s, by))
    BY <2>v, <2>4 DEF Versions!EntryPermitted, Versions!Change
  <2>6. Grants' \subseteq Grants
    BY <1>2 DEF Versions!UpdateStatus, Versions!Reopen, Versions!Resolve, Versions!Close,
                Versions!ReplyReopens, Versions!GrantUsed
  <2>7. Versions!Put(t, u, Versions!Change(v.status, s, by))
    BY <2>1, <2>2 DEF Versions!PutMoved
  <2> QED BY <2>2, <2>3, <2>5, <2>6, <2>7, PutPromises
<1>3. ASSUME NEW t \in Tickets, NEW v \in versions[t], Versions!AcceptReply(t, v) PROVE PromisesInv'
  <2>1. v.status = ResolvedStatus /\ Due' = Due /\ \A g \in Grants' : g \in Grants \/ g = <<t, v>>
    BY <1>3 DEF Versions!AcceptReply
  <2>2. <<t, v>>[2] = v
    OBVIOUS
  <2>3. DueIsPermitted'
    BY <2>1, <2>2 DEF PromisesInv, DueIsPermitted
  <2> QED BY <1>3, <1>s, <2>3 DEF Versions!AcceptReply
<1>4. ASSUME NEW t \in Tickets, NEW v \in versions[t], NEW s, Versions!ReopeningLost(t, v, s)
      PROVE  PromisesInv'
  <2> DEFINE e == Versions!Change(v.status, s, "user")
  <2>1. /\ s # ClosedStatus /\ <<t, v>> \in Grants /\ Grants' \subseteq Grants
        /\ \A d \in Due' : d \in Due \/ d = <<t, e>>
    BY <1>4 DEF Versions!ReopeningLost, Versions!GrantUsed
  <2>2. v.status = ResolvedStatus /\ v.status # Nil
    <3>1. <<t, v>>[2].status = ResolvedStatus
      BY <2>1 DEF PromisesInv, DueIsPermitted
    <3> QED BY <1>t, <3>1
  <2>3. Versions!EntryPermitted(e)
    BY <2>1, <2>2 DEF Versions!EntryPermitted, Versions!Change
  <2> HIDE DEF e
  <2>4. <<t, e>>[2] = e
    OBVIOUS
  <2>5. DueIsPermitted'
    BY <2>1, <2>3, <2>4 DEF PromisesInv, DueIsPermitted
  <2> QED BY <1>4, <1>s, <2>5 DEF Versions!ReopeningLost
<1>5. ASSUME NEW t \in Tickets, NEW v \in versions[t], NEW a \in Assignees \cup {Nil},
             Versions!Assign(t, v, a)
      PROVE  PromisesInv'
  <2>1. /\ AssignedRow(v, a) \in Row /\ AssignedRow(v, a).resolvedAt = v.resolvedAt
        /\ AssignedRow(v, a).closedAt = v.closedAt
    BY <1>t, AssignedRowIsRow DEF AssignedRow, Row
  <2>2. /\ versions' = [versions EXCEPT ![t] = @ \cup {AssignedRow(v, a)}]
        /\ now' = now /\ history' = history /\ Due' = Due /\ Grants' = Grants
    BY <1>5, SameRules DEF Versions!Assign
  <2>3. VersionsTyped' /\ Versions!MomentsAreTrue'
    BY <2>1, <2>2, MomentsOfNewRow DEF PromisesInv
  <2> QED BY <2>2, <2>3 DEF PromisesInv, DueIsPermitted, Versions!EntriesArePermitted
<1>6. ASSUME NEW d \in Due, Versions!Record(d[1], d[2]) PROVE PromisesInv'
  <2>1. /\ history' = [history EXCEPT ![d[1]] = Append(@, d[2])] /\ Due' \subseteq Due
        /\ versions' = versions /\ now' = now /\ Grants' = Grants
    BY <1>6 DEF Versions!Record
  <2>2. Versions!EntryPermitted(d[2])
    BY DEF PromisesInv, DueIsPermitted
  <2>3. Versions!EntriesArePermitted'
    BY <2>1, <2>2 DEF PromisesInv, Versions!EntriesArePermitted
  <2> QED BY <2>1, <2>3 DEF PromisesInv, DueIsPermitted, VersionsTyped, Versions!MomentsAreTrue
<1>7. CASE Versions!Forget \/ UNCHANGED Versions!vars
  <2>1. /\ UNCHANGED <<versions, history, now>> /\ Due' \subseteq Due /\ Grants' \subseteq Grants
    BY <1>7 DEF Versions!Forget, Versions!vars
  <2> QED BY <1>s, <2>1 DEF PromisesInv, DueIsPermitted
<1>8. CASE Versions!Tick
  <2>1. UNCHANGED <<versions, history>> /\ now' = now + 1 /\ Due' = Due /\ Grants' = Grants
    BY <1>8 DEF Versions!Tick
  <2>2. Versions!MomentsAreTrue'
    <3>1. \A t \in Tickets : \A v \in versions[t] : v.resolvedAt \in Nat /\ v.closedAt \in Nat
      BY <1>t DEF Row
    <3> QED BY <1>t, <2>1, <3>1 DEF PromisesInv, Versions!MomentsAreTrue
  <2> QED BY <1>t, <2>1, <2>2 DEF PromisesInv, VersionsTyped, DueIsPermitted, Versions!EntriesArePermitted
<1>9. CASE Versions!Next
  <2>1. CASE \E t \in Tickets, by \in Versions!Roles : Versions!Create(t, by)
    BY <1>1, <2>1
  <2>2. CASE \E t \in Tickets : \E v \in versions[t] :
               \/ \E s \in Statuses, by \in Versions!Roles :
                    Versions!UpdateStatus(t, v, s, by) \/ Versions!Reopen(t, v, s, by)
               \/ \E by \in Versions!Roles : Versions!Resolve(t, v, by)
               \/ \E s \in Statuses : Versions!ReplyReopens(t, v, s)
               \/ Versions!Close(t, v)
    BY <1>t, <1>2, <2>2
  <2>3. CASE \E t \in Tickets : \E v \in versions[t] :
               \/ \E s \in Statuses \cup {Nil} : Versions!ReopeningLost(t, v, s)
               \/ \E a \in Assignees \cup {Nil} : Versions!Assign(t, v, a)
               \/ Versions!AcceptReply(t, v)
    BY <1>3, <1>4, <1>5, <2>3
  <2> QED BY <1>6, <1>7, <1>8, <1>9, <2>1, <2>2, <2>3 DEF Versions!Next
<1> QED BY <1>7, <1>9

LEMMA InitPromises == Init => PromisesInv
<1> SUFFICES ASSUME Init PROVE PromisesInv
  OBVIOUS
<1>1. /\ Versions!Init /\ \A t \in Tickets : versions[t] = {} /\ history[t] = <<>>
      /\ now = 1 /\ Due = {} /\ Grants = {} /\ versions = [t \in Tickets |-> {}]
  BY InitIsVersionsInit DEF Versions!Init
<1> QED BY <1>1 DEF PromisesInv, VersionsTyped, DueIsPermitted, Versions!MomentsAreTrue,
                    Versions!EntriesArePermitted

LEMMA PromisesInvariant ==
  ASSUME NamesStay, ReopenTarget # "Closed"
  PROVE  Spec => []PromisesInv
<1>1. [Versions!Next]_(Versions!vars) /\ PromisesInv => PromisesInv'
  BY NextPromises
<1>2. Spec => [][Versions!Next]_(Versions!vars)
  BY ServiceImplementsVersions, PTL DEF ImplementsVersions, Versions!Spec
<1> QED BY <1>1, <1>2, InitPromises, PTL DEF Spec

\* No write of a stale row makes up a moment of resolution or of closing, or moves one to
\* another day: every moment a version of a ticket bears is that of a version that was
\* resolved, or closed, at that moment.
THEOREM ServiceMomentsAreTrue ==
  ASSUME NamesStay, ReopenTarget # "Closed"
  PROVE  Spec => []Versions!MomentsAreTrue
<1>1. PromisesInv => Versions!MomentsAreTrue
  BY DEF PromisesInv
<1> QED BY <1>1, PromisesInvariant, PTL

\* Every entry of the history is of somebody who may make the change, whatever overlaps
\* between the check of an operation and its entry: only a creation starts from nothing
\* and it leads to New, only administrators and the system close, and a reporter moves
\* nothing but a ticket he has found resolved.
THEOREM ServiceEntriesArePermitted ==
  ASSUME NamesStay, ReopenTarget # "Closed"
  PROVE  Spec => []Versions!EntriesArePermitted
<1>1. PromisesInv => Versions!EntriesArePermitted
  BY DEF PromisesInv
<1> QED BY <1>1, PromisesInvariant, PTL
=============================================================================
