--------------------------- MODULE TicketVersions ---------------------------
(***************************************************************************)
(* What the ticket service promises however its requests overlap, its      *)
(* statements fail and its process restarts: every row a ticket has is     *)
(* made, by one operation of somebody who may do it, from a row the ticket *)
(* has had.  An operation may have seen an old version of its ticket, and  *)
(* what came after that version is then lost; but no row is a mixture of   *)
(* two, and none comes from an operation that was refused.                 *)
(*                                                                         *)
(* The history is kept apart from the rows: a change that has been written *)
(* is due to be recorded, and it is recorded later or never.               *)
(***************************************************************************)
EXTENDS TicketRules, Sequences

CONSTANT
  MaxDay   \* bound on the clock

VARIABLES
  ticket,    \* ticket[t]: the row of t, Nil before it is created
  versions,  \* versions[t]: every row t has had
  history,   \* history[t]: the status history of t, oldest entry first
  due,       \* <<t, e>>: entry e is about to be recorded on t
  granted,   \* <<t, v>>: a reporter's reply to version v of t is accepted, to reopen it
  now        \* the day

vars == <<ticket, versions, history, due, granted, now>>

Init ==
  /\ ticket = [t \in Tickets |-> Nil]
  /\ versions = [t \in Tickets |-> {}]
  /\ history = [t \in Tickets |-> <<>>]
  /\ due = {} /\ granted = {}
  /\ now = 1

Change(from, to, by) == [from |-> from, to |-> to, by |-> by]

\* t gets row u, and entry e falls due unless the answer of the database is lost.
Put(t, u, e) ==
  /\ ticket' = [ticket EXCEPT ![t] = u]
  /\ versions' = [versions EXCEPT ![t] = @ \cup {u}]
  /\ due' \in {due, due \cup {<<t, e>>}}
  /\ UNCHANGED <<history, now>>

\* An operation of `by` makes row u of version v.
PutMoved(t, v, u, by) ==
  /\ v \in versions[t]
  /\ Put(t, u, Change(v.status, u.status, by))

Create(t, by) ==
  /\ ticket[t] = Nil
  /\ Put(t, CreatedRow(NewStatus), Change(Nil, NewStatus, by))
  /\ UNCHANGED granted

UpdateStatus(t, v, s, by) ==
  /\ by # "user"
  /\ s = ClosedStatus => by = "admin"
  /\ PutMoved(t, v, MovedRow(v, s), by)
  /\ UNCHANGED granted

Resolve(t, v, by) ==
  /\ by # "user"
  /\ PutMoved(t, v, ResolvedRow(v, ResolvedStatus, now), by)
  /\ UNCHANGED granted

Close(t, v) ==
  /\ PutMoved(t, v, ClosedRow(v, ClosedStatus, now), "system")
  /\ UNCHANGED granted

\* Staff reopens what it has seen closed.
Reopen(t, v, s, by) ==
  /\ by # "user"
  /\ v.status = ClosedStatus /\ s # ClosedStatus
  /\ PutMoved(t, v, ReopenedRow(v, s), by)
  /\ UNCHANGED granted

\* A reporter's reply is judged by the version it has read, on the day it is accepted ...
AcceptReply(t, v) ==
  /\ v \in versions[t]
  /\ v.status = ResolvedStatus
  /\ v.resolvedAt # Never
  /\ now <= v.resolvedAt + ReopenWindow
  /\ granted' = granted \cup {<<t, v>>}
  /\ UNCHANGED <<ticket, versions, history, due, now>>

\* Another request may hold the same grant.
GrantUsed(t, v) ==
  /\ <<t, v>> \in granted
  /\ granted' \in {granted, granted \ {<<t, v>>}}

\* ... and reopens that version.
ReplyReopens(t, v, s) ==
  /\ GrantUsed(t, v)
  /\ s # ClosedStatus
  /\ PutMoved(t, v, ReplyReopenedRow(v, s), "user")

\* The update of a reply fails, and the reopening falls due to be recorded all the same.
ReopeningLost(t, v, s) ==
  /\ GrantUsed(t, v)
  /\ s # ClosedStatus
  /\ due' = due \cup {<<t, Change(v.status, s, "user")>>}
  /\ UNCHANGED <<ticket, versions, history, now>>

\* An assignment is no change of status, and is not recorded.
Assign(t, v, a) ==
  /\ v \in versions[t]
  /\ ticket' = [ticket EXCEPT ![t] = AssignedRow(v, a)]
  /\ versions' = [versions EXCEPT ![t] = @ \cup {AssignedRow(v, a)}]
  /\ UNCHANGED <<history, due, granted, now>>

\* Another request may have the same entry to record.
Record(t, e) ==
  /\ <<t, e>> \in due
  /\ e.to # Nil
  /\ history' = [history EXCEPT ![t] = Append(@, e)]
  /\ due' \in {due, due \ {<<t, e>>}}
  /\ UNCHANGED <<ticket, versions, granted, now>>

\* A statement fails or the process stops: what was due or granted is forgotten.
Forget ==
  /\ due' \subseteq due /\ granted' \subseteq granted
  /\ UNCHANGED <<ticket, versions, history, now>>

Tick == now < MaxDay /\ now' = now + 1 /\ UNCHANGED <<ticket, versions, history, due, granted>>

Next ==
  \/ \E t \in Tickets, by \in Roles : Create(t, by)
  \/ \E t \in Tickets : \E v \in versions[t] :
       \/ \E s \in Statuses, by \in Roles : UpdateStatus(t, v, s, by) \/ Reopen(t, v, s, by)
       \/ \E by \in Roles : Resolve(t, v, by)
       \/ \E s \in Statuses : ReplyReopens(t, v, s)
       \/ \E s \in Statuses \cup {Nil} : ReopeningLost(t, v, s)
       \/ \E a \in Assignees \cup {Nil} : Assign(t, v, a)
       \/ Close(t, v) \/ AcceptReply(t, v)
  \/ \E d \in due : Record(d[1], d[2])
  \/ Forget \/ Tick

Spec == Init /\ [][Next]_vars

-----------------------------------------------------------------------------
(* What the promises add up to.                                            *)

\* A ticket bears a moment of resolution or of closing only if it was resolved or closed
\* at that moment: a stale write may bring a moment back, it never makes one up or moves
\* one to another day.
MomentsAreTrue ==
  \A t \in Tickets : \A v \in versions[t] :
    /\ v.resolvedAt # Never =>
         /\ v.resolvedAt <= now
         /\ \E u \in versions[t] : u.status = ResolvedStatus /\ u.resolvedAt = v.resolvedAt
    /\ v.closedAt # Never =>
         /\ v.closedAt <= now
         /\ \E u \in versions[t] : u.status = ClosedStatus /\ u.closedAt = v.closedAt

\* Every entry is of somebody who may make that change: only the creation has no status
\* before it and leads to New, administrators and the system close, and a reporter moves
\* nothing but a ticket he has seen resolved.
EntryPermitted(e) ==
  /\ e.from = Nil => e.to = NewStatus
  /\ e.to = ClosedStatus => e.by \in {"admin", "system"}
  /\ e.by = "user" => e.from \in {Nil, ResolvedStatus}

EntriesArePermitted ==
  \A t \in Tickets : \A i \in DOMAIN history[t] : EntryPermitted(history[t][i])
=============================================================================
