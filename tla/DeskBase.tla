------------------------------ MODULE DeskBase ------------------------------
(***************************************************************************)
(* What the modules of the desk's tables share: a request is a sequence of *)
(* SQL statements, and between two of them other requests run theirs.      *)
(***************************************************************************)
CONSTANTS
  Tickets,    \* ids of rows of table tickets, present and future
  Workers,    \* requests that can be in progress at the same time
  Nil         \* SQL NULL, a nil pointer, the absence of a row

\* The request of w ends, with success or with an error.
Ended(req, w) == [req EXCEPT ![w] = Nil]
\* The request of w goes on at `step`.
GoesTo(req, w, step) == [req EXCEPT ![w].step = step]
=============================================================================
