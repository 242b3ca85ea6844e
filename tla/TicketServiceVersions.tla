----------------------- MODULE TicketServiceVersions ------------------------
(***************************************************************************)
(* TicketService implements TicketVersions, with requests that overlap,    *)
(* statements that fail and a process that restarts, while no status is    *)
(* renamed and the target of reopening is not Closed.                      *)
(***************************************************************************)
EXTENDS TicketService

\* The change worker w has made, or failed to make, and is about to record.
DueOf(w) == IF pc[w] = "record" THEN {<<call[w].ticket, EntryOf(w)>>} ELSE {}
Due == UNION {DueOf(w) : w \in Workers}

\* The version whose reopening by a reporter's reply, served by w, has been granted.
GrantOf(w) ==
  IF pc[w] \in {"reply", "write"} /\ call[w].op = "reply" /\ "reopened" \in outbox[w]
  THEN {<<call[w].ticket, snap[w]>>} ELSE {}
Grants == UNION {GrantOf(w) : w \in Workers}

Versions == INSTANCE TicketVersions WITH due <- Due, granted <- Grants

\* However its requests overlap and fail, every row the service writes is one permitted
\* operation away from a row the ticket has had, and every entry it records is of a change
\* it has written, or of a reporter's reply.
ImplementsVersions == Versions!Spec
=============================================================================
