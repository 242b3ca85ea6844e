---------------------------- MODULE TicketBoard ----------------------------
(***************************************************************************)
(* What the ticket service promises, with every operation atomic: one step *)
(* changes the row of a ticket and, when the status is written, appends    *)
(* the matching row of the status history.  The promises are those of      *)
(* docs/DESIGN.md, section "Ticket Lifecycle": every transition is         *)
(* recorded, only administrators and the system close, a closed ticket is  *)
(* reopened by staff, a resolved one also by its reporter inside the       *)
(* window.                                                                 *)
(*                                                                         *)
(* TicketService implements this specification while its requests do not   *)
(* overlap and none of its database calls fails.                           *)
(***************************************************************************)
EXTENDS TicketRules, Sequences

CONSTANT
  MaxDay   \* bound on the clock

ASSUME DayAssumption == MaxDay \in Nat \ {0}

VARIABLES
  ticket,   \* ticket[t]: the row of t, Nil before it is created
  history,  \* history[t]: the status history of t, oldest entry first
  granted,  \* tickets with a reporter's reply accepted inside the window, to be reopened
  now       \* the day

vars == <<ticket, history, granted, now>>

TypeOK ==
  /\ ticket \in [Tickets -> Row \cup {Nil}]
  /\ history \in [Tickets -> Seq(Entry)]
  /\ granted \subseteq Tickets
  /\ now \in 1..MaxDay

Init ==
  /\ ticket = [t \in Tickets |-> Nil]
  /\ history = [t \in Tickets |-> <<>>]
  /\ granted = {}
  /\ now = 1

Created(t) == ticket[t] # Nil

\* Mutant of Write: the history row is lost.
WriteUnrecorded(t, r, by) ==
  /\ Created(t)
  /\ ticket' = [ticket EXCEPT ![t] = r]
  /\ UNCHANGED <<history, now>>

\* Write row r on t and record the status it moves to.
Write(t, r, by) ==
  /\ Created(t)
  /\ ticket' = [ticket EXCEPT ![t] = r]
  /\ history' = [history EXCEPT
                   ![t] = Append(@, [from |-> ticket[t].status, to |-> r.status, by |-> by])]
  /\ UNCHANGED now

WriteOnly(t, r, by) == Write(t, r, by) /\ UNCHANGED granted

Create(t, by) ==
  /\ ~Created(t)
  /\ ticket' = [ticket EXCEPT ![t] = CreatedRow(NewStatus)]
  /\ history' = [history EXCEPT ![t] = <<[from |-> Nil, to |-> NewStatus, by |-> by]>>]
  /\ UNCHANGED <<granted, now>>

\* Mutant of UpdateStatus: staff may close.
UpdateStatusAsStaff(t, s, by) ==
  /\ by # "user"
  /\ WriteOnly(t, MovedRow(ticket[t], s), by)

UpdateStatus(t, s, by) ==
  /\ by # "user"
  /\ s = ClosedStatus => by = "admin"
  /\ WriteOnly(t, MovedRow(ticket[t], s), by)

Resolve(t, by) ==
  /\ by # "user"
  /\ WriteOnly(t, ResolvedRow(ticket[t], ResolvedStatus, now), by)

Close(t) == WriteOnly(t, ClosedRow(ticket[t], ClosedStatus, now), "system")

Reopen(t, target, by) ==
  /\ by # "user"
  /\ Created(t) => ticket[t].status = ClosedStatus
  /\ target # ClosedStatus
  /\ WriteOnly(t, ReopenedRow(ticket[t], target), by)

\* The window is judged when the reporter's reply is accepted ...
AcceptReply(t) ==
  /\ Created(t)
  /\ ticket[t].status = ResolvedStatus
  /\ ticket[t].resolvedAt # Never
  /\ now <= ticket[t].resolvedAt + ReopenWindow
  /\ granted' = granted \cup {t}
  /\ UNCHANGED <<ticket, history, now>>

\* ... and an accepted reply reopens the ticket.
ReplyReopens(t, target) ==
  /\ t \in granted
  /\ Created(t) => ticket[t].status = ResolvedStatus
  /\ target # ClosedStatus
  /\ Write(t, ReplyReopenedRow(ticket[t], target), "user")
  /\ granted' = granted \ {t}

Assign(t, a) ==
  /\ Created(t)
  /\ ticket' = [ticket EXCEPT ![t] = AssignedRow(@, a)]
  /\ UNCHANGED <<history, granted, now>>

Tick == now < MaxDay /\ now' = now + 1 /\ UNCHANGED <<ticket, history, granted>>

Next ==
  \/ \E t \in Tickets, by \in Roles : Create(t, by) \/ Resolve(t, by)
  \/ \E t \in Tickets, by \in Roles, s \in Statuses : UpdateStatus(t, s, by) \/ Reopen(t, s, by)
  \/ \E t \in Tickets, s \in Statuses : ReplyReopens(t, s)
  \/ \E t \in Tickets, a \in Assignees \cup {Nil} : Assign(t, a)
  \/ \E t \in Tickets : Close(t) \/ AcceptReply(t)
  \/ Tick

Spec == Init /\ [][Next]_vars

-----------------------------------------------------------------------------
(* What the promises add up to.                                            *)

\* The history of a ticket is its whole life: it starts with the creation, every
\* entry goes on from where the one before it stopped, and it ends at the status
\* the ticket has.
HistoryChain ==
  \A t \in Tickets :
    LET h == history[t] IN
    IF ticket[t] = Nil
    THEN h = <<>>
    ELSE /\ h # <<>>
         /\ h[1].from = Nil
         /\ \A i \in 1..(Len(h) - 1) : h[i + 1].from = h[i].to
         /\ h[Len(h)].to = ticket[t].status

\* Only administrators and the system close, and a reporter never takes a ticket
\* out of Closed.
ClosedIsGuarded ==
  \A t \in Tickets : \A i \in DOMAIN history[t] :
    LET e == history[t][i] IN
    /\ e.to = ClosedStatus => e.by \in {"admin", "system"}
    /\ e.from = ClosedStatus => e.by # "user"
=============================================================================
