---------------------------- MODULE TicketRules ----------------------------
(***************************************************************************)
(* The data of the ticket domain and its pure rules, as written in         *)
(* internal/domain/ticket/ticket.go and in the middle of the operations of *)
(* internal/domain/ticket/service.go: what a row of the tables `tickets`   *)
(* and `ticket_status_history` holds, who may move a ticket to a status,   *)
(* when a reporter may still write, and the row each operation computes    *)
(* from the row it has read.                                               *)
(*                                                                         *)
(* A row keeps the columns the lifecycle reads or writes.  The remaining   *)
(* columns are either constant after creation or belong to the             *)
(* classification of the ticket, which has no part in these rules.         *)
(***************************************************************************)
EXTENDS Naturals

CONSTANTS
  Tickets,        \* ticket ids
  Statuses,       \* ids of rows of table `statuses`, past, present and future
  NewStatus,      \* the three rows migration 000001 seeds with kind 'system'
  ResolvedStatus,
  ClosedStatus,
  Assignees,      \* users and groups a ticket can be assigned to
  Nil,            \* uuid.Nil, SQL NULL, a nil pointer
  ReopenWindow    \* setting reopen_window_days

SystemStatuses == {NewStatus, ResolvedStatus, ClosedStatus}

ASSUME StatusAssumption ==
  /\ SystemStatuses \subseteq Statuses
  /\ NewStatus # ResolvedStatus /\ NewStatus # ClosedStatus /\ ResolvedStatus # ClosedStatus
ASSUME WindowAssumption == ReopenWindow \in Nat

Roles  == {"user", "staff", "admin"}
\* Whom a history row names; "system" is a NULL changed_by_user_id.
Actors == Roles \cup {"system"}

\* Day 0 stands for a NULL timestamp; the clock starts at day 1.
Never == 0

Row ==
  [status     : Statuses,
   resolvedAt : Nat,
   closedAt   : Nat,
   assignee   : Assignees \cup {Nil}]

ASSUME NilAssumption == Nil \notin Statuses /\ Nil \notin Row

Entry == [from : Statuses \cup {Nil}, to : Statuses, by : Actors]

-----------------------------------------------------------------------------
(* Rules of ticket.go.                                                     *)

\* Mutant of CanTransitionStatus: staff may close.
CanTransitionAsStaff(name, role) == role # "user"

\* May an actor with this role set a status that carries this name?
CanTransitionStatus(name, role) ==
  /\ role # "user"
  /\ name = "Closed" => role = "admin"

\* Mutant of CanUserUpdate: the window is not looked at.
CanUserUpdateAnyDay(r, name, role, now) == role \in {"admin", "staff"} \/ name # "Closed"

\* May this role write on a ticket with row r, whose status is called name?
CanUserUpdate(r, name, role, now) ==
  \/ role \in {"admin", "staff"}
  \/ /\ name # "Closed"
     /\ name = "Resolved" => /\ r.resolvedAt # Never
                             /\ now <= r.resolvedAt + ReopenWindow

-----------------------------------------------------------------------------
(* The row an operation writes back, from the row r it has read.           *)

\* Create: an unassigned row in status `New`.
CreatedRow(new) ==
  [status |-> new, resolvedAt |-> Never, closedAt |-> Never, assignee |-> Nil]

\* UpdateStatus touches the status only: neither timestamp is set or cleared.
MovedRow(r, status) == [r EXCEPT !.status = status]

AssignedRow(r, assignee) == [r EXCEPT !.assignee = assignee]

ResolvedRow(r, resolved, now) == [r EXCEPT !.status = resolved, !.resolvedAt = now]

ClosedRow(r, closed, now) == [r EXCEPT !.status = closed, !.closedAt = now]

\* Reopen (staff and administrators, from Closed).
ReopenedRow(r, target) ==
  [r EXCEPT !.status = target, !.closedAt = Never, !.resolvedAt = Never]

\* Mutant of ReplyReopenedRow: the status is left as it was.
ReplyClearedRow(r, target) == [r EXCEPT !.resolvedAt = Never]

\* The reporter's reply inside the reopen window; closed_at stays as it was read.
ReplyReopenedRow(r, target) == [r EXCEPT !.status = target, !.resolvedAt = Never]
=============================================================================
