--------------------------- MODULE MCTicketBoard ---------------------------
(* An instance of TicketBoard for TLC, with histories of bounded length. *)
EXTENDS TicketBoard

CONSTANT MaxEntries   \* bound on the length of a history

ShortHistories == \A t \in Tickets : Len(history[t]) < MaxEntries \/ ticket[t] = Nil
=============================================================================
