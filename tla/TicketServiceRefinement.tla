---------------------- MODULE TicketServiceRefinement ----------------------
(***************************************************************************)
(* TicketService implements TicketBoard while one request is served at a   *)
(* time, no statement fails, the process is not restarted, no system       *)
(* status is renamed and the target of reopening exists and is not Closed. *)
(*                                                                         *)
(* A write of the row and the history row that follows are one step of the *)
(* board: the entry a worker is about to insert counts as inserted.        *)
(***************************************************************************)
EXTENDS TicketService

\* The entries workers are about to insert on t, when the foreign keys allow them.
Pending(t) ==
  {EntryOf(w) : w \in {v \in Workers : /\ pc[v] = "record" /\ call[v].ticket = t
                                       /\ {EntryOf(v).from, EntryOf(v).to} \subseteq Live \cup {Nil}}}

\* The history of t with the pending entry in its place.
BoardHistory(t) ==
  IF Pending(t) = {} THEN history[t] ELSE Append(history[t], CHOOSE e \in Pending(t) : TRUE)

\* Tickets with a reporter's reply accepted and not yet acted on.
Granted ==
  {call[w].ticket : w \in {v \in Workers : pc[v] \in {"reply", "write"} /\ "reopened" \in outbox[v]
                                             /\ call[v].op = "reply"}}

Board == INSTANCE TicketBoard WITH
           history <- [t \in Tickets |-> BoardHistory(t)],
           granted <- Granted

\* One request at a time, the running service does what the board promises.
ImplementsBoard == Board!Spec
=============================================================================
