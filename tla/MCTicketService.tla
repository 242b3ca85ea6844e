-------------------------- MODULE MCTicketService --------------------------
(* Instances of TicketService for TLC. *)
EXTENDS TicketClaims, TicketServiceVersions, TLC

CONSTANTS sNew, sResolved, sClosed, sOpen, sHold

\* The names the statuses of an instance are created with; sOpen and sHold are custom.
MCInitialName ==
  [s \in Statuses |-> CASE s = sNew -> "New" [] s = sResolved -> "Resolved"
                        [] s = sClosed -> "Closed" [] s = sOpen -> "Open" [] s = sHold -> "Hold"]

\* Here sHold is to be created under a name the seed has taken.
MCClashingName == [s \in Statuses |-> IF s = sHold THEN "New" ELSE MCInitialName[s]]

WorkerSymmetry == Permutations(Workers)
=============================================================================
