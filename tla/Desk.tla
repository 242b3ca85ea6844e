-------------------------------- MODULE Desk --------------------------------
(***************************************************************************)
(* What runs beside the ticket's own row, as the server wires it: service  *)
(* levels, tags, custom fields, the lists and counts people see, the       *)
(* settings of the identity providers, and files on disk.  Requests to any *)
(* of them interleave; they keep their state in tables of their own, and   *)
(* each step is of one of them.                                            *)
(***************************************************************************)
EXTENDS SLAClock, TagCatalog, CustomFields, TicketLists, IdentityProviders, Uploads

deskVars == <<slaVars, tagVars, fieldVars, listVars, idpVars, uploadVars>>

DeskInit == SLAInit /\ TagInit /\ FieldInit /\ ListInit /\ IdPInit /\ UploadInit

DeskNext ==
  \/ SLANext /\ UNCHANGED <<tagVars, fieldVars, listVars, idpVars, uploadVars>>
  \/ TagNext /\ UNCHANGED <<slaVars, fieldVars, listVars, idpVars, uploadVars>>
  \/ FieldNext /\ UNCHANGED <<slaVars, tagVars, listVars, idpVars, uploadVars>>
  \/ ListNext /\ UNCHANGED <<slaVars, tagVars, fieldVars, idpVars, uploadVars>>
  \/ IdPNext /\ UNCHANGED <<slaVars, tagVars, fieldVars, listVars, uploadVars>>
  \/ UploadNext /\ UNCHANGED <<slaVars, tagVars, fieldVars, listVars, idpVars>>

DeskSpec == DeskInit /\ [][DeskNext]_deskVars

\* Every table and request of the six parts has its type: no sequence of statements stores
\* a priority its column refuses, a record of no ticket, a tag link to no tag.
DeskTypes == SLATypeOK /\ TagTypeOK /\ FieldTypeOK /\ ListTypeOK /\ IdPTypeOK /\ UploadTypeOK
=============================================================================
