--------------------------- MODULE TicketClaims ----------------------------
(***************************************************************************)
(* What the documentation says of the ticket lifecycle and the running     *)
(* service does not keep: a run of its own in which TLC finds the          *)
(* behaviour that breaks it.                                               *)
(***************************************************************************)
EXTENDS TicketServiceRefinement

\* docs/DESIGN.md:109: "Every status transition is recorded in a status history
\* timeline".  A step that moves a ticket is followed by the insertion of an entry
\* that leads to the new status.
EveryTransitionRecorded ==
  [][\A t \in Tickets :
       (Created(t) /\ ticket'[t].status # ticket[t].status)
         => \E w \in Workers : /\ pc'[w] = "record"
                               /\ call'[w].ticket = t
                               /\ target'[w] = ticket'[t].status]_vars
=============================================================================
