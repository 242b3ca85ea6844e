------------------------------- MODULE MCDesk -------------------------------
(***************************************************************************)
(* Instances of Desk for TLC.  The six parts share no state and Desk       *)
(* implements each of them, so that in a behaviour only one is active.     *)
(***************************************************************************)
EXTENDS Desk, TLC

VARIABLE part   \* the part that is active
partVars == <<part, deskVars>>

PartInit ==
  /\ part \in {"sla", "tags", "fields", "lists", "providers", "uploads"}
  /\ DeskInit
  /\ overlap => part = "sla"
  /\ inTurn => part = "providers"
  /\ queued => part = "uploads"

PartNext ==
  /\ part' = part
  /\ \/ part = "sla" /\ SLANext /\ UNCHANGED <<tagVars, fieldVars, listVars, idpVars, uploadVars>>
     \/ part = "tags" /\ TagNext /\ UNCHANGED <<slaVars, fieldVars, listVars, idpVars, uploadVars>>
     \/ part = "fields" /\ FieldNext /\ UNCHANGED <<slaVars, tagVars, listVars, idpVars, uploadVars>>
     \/ part = "lists" /\ ListNext /\ UNCHANGED <<slaVars, tagVars, fieldVars, idpVars, uploadVars>>
     \/ part = "providers" /\ IdPNext /\ UNCHANGED <<slaVars, tagVars, fieldVars, listVars, uploadVars>>
     \/ part = "uploads" /\ UploadNext /\ UNCHANGED <<slaVars, tagVars, fieldVars, listVars, idpVars>>

PartSpec == PartInit /\ [][PartNext]_partVars

-----------------------------------------------------------------------------
(* SLAClock *)
CONSTANTS p1, p2, p3, hw, sw   \* policies and categories

Targeted(x, c, a, b) == [priority |-> x, category |-> c, response |-> a, resolution |-> b]

\* There is a policy of all categories and one of a category of its own.
MCSeededPolicies == [p \in Policies |-> CASE p = p1 -> Targeted("high", Nil, 1, 2)
                                          [] p = p2 -> Targeted("high", hw, 1, 1)
                                          [] p = p3 -> Nil]

\* One more policy comes, and one whose target does not fit its column.
MCDrafts == {Targeted("high", hw, 2, 2), Targeted("urgent", Nil, 9, 2)}

OnlyPolicy == [priority |-> Nil, category |-> Nil, clear |-> FALSE, response |-> Nil, resolution |-> Nil]
MCPatches == {[OnlyPolicy EXCEPT !.category = sw], [OnlyPolicy EXCEPT !.clear = TRUE, !.response = 9]}

-----------------------------------------------------------------------------
(* TagCatalog: two spellings of one name, another name, and blanks. *)
MCTagName ==
  [s \in Spellings |-> CASE s \in {"net", "Net "} -> "net" [] s = "network" -> "network" [] OTHER -> Nil]

-----------------------------------------------------------------------------
(* CustomFields *)
CONSTANTS f1, f2, f3, a1, hwForm, lapForm   \* fields, an assignment, a category and a type

MCBodies ==
  {[f \in {f1, f2} |-> IF f = f1 THEN "a" ELSE "b"], [f \in {f1, f2} |-> IF f = f1 THEN "b" ELSE Empty]}
MCForms == {<<hwForm>>, <<hwForm, lapForm>>}

\* A select field, which the form of a category shows, and a text; the third is yet to come.
MCSeededFields ==
  [f \in Fields |-> CASE f = f1 -> [kind |-> "select", options |-> {"a"}, active |-> TRUE]
                      [] f = f2 -> [kind |-> "text", options |-> {}, active |-> TRUE]
                      [] OTHER  -> Nil]
MCSeededAssigns ==
  [a \in Assigns |-> IF a = a1 THEN [field |-> f1, scope |-> hwForm, visible |-> TRUE, required |-> TRUE]
                     ELSE Nil]
MCSeededValues == [t \in FieldTickets |-> [f \in Fields |-> IF f = f2 THEN "a" ELSE Nil]]

MCFieldDrafts == {[kind |-> "select", options |-> o, active |-> TRUE] : o \in {{}, {"b"}}}
\* Deactivate; change the options; make it a select, with or without options.
MCFieldPatches ==
  LET only == [kind |-> Nil, options |-> {}, same |-> TRUE, active |-> Nil] IN
  {[only EXCEPT !.active = FALSE], [only EXCEPT !.kind = "select"],
   [only EXCEPT !.options = {"b"}, !.same = FALSE], [only EXCEPT !.same = FALSE]}
MCAssignDrafts == {[field |-> f, scope |-> hwForm, visible |-> TRUE, required |-> FALSE] : f \in {f1, f2}}
MCAssignPatches == {[visible |-> Nil, required |-> FALSE], [visible |-> FALSE, required |-> Nil]}

-----------------------------------------------------------------------------
(* TicketLists *)
CONSTANTS t1, t2, t3, rita, sam, ada, jam, g1, opening   \* tickets, people, a term, a group, a status

MCRoles == rita :> "user" @@ sam :> "staff" @@ ada :> "admin"
\* The number of one ticket and the text of two match the term, one of them better.
MCByNumber == jam :> {t1}
MCByWords == jam :> {t2, t3}
MCRelevance == jam :> (t1 :> 0 @@ t2 :> 1 @@ t3 :> 2)

\* Staff has a ticket of his own and one of his group, and the third is to come.
MCSeededDesk ==
  LET row(u, g, n) == [reporter |-> rita, user |-> u, group |-> g, status |-> opening, created |-> n]
  IN t1 :> row(sam, Nil, 0) @@ t2 :> row(Nil, g1, -1) @@ t3 :> Nil
MCMembers == {<<sam, g1>>}

-----------------------------------------------------------------------------
(* IdentityProviders: a whole pair, a pair without its address, half a pair, nothing; OIDC
   with a secret and without one, and switched off. *)
SentOnly(f) == [k \in Keys |-> IF k \in DOMAIN f THEN f[k] ELSE Blank]
MCSent ==
  [saml |-> {SentOnly([url |-> "a", cert |-> "a", privateKey |-> "a"]),
             SentOnly([cert |-> "b", privateKey |-> "b"]), SentOnly([cert |-> "b"]), Unset},
   oidc |-> {SentOnly([enabled |-> "a", issuer |-> "a", client |-> "a", secret |-> "a"]),
             SentOnly([enabled |-> "a", issuer |-> "b", client |-> "a"]),
             SentOnly([issuer |-> "a", client |-> "a"])}]
MCRaw == {[url |-> "", cert |-> "a"], [enabled |-> ""]}

-----------------------------------------------------------------------------
(* Uploads: a document, a picture, a picture that cannot be decoded, a document with a
   wrong extension, a drawing. *)
CONSTANTS pdf, pic, bad, eps, svg
MCFormat == [f \in Files |-> CASE f = pic -> "png" [] f = svg -> "svg" [] OTHER -> Nil]

DeskSymmetry == Permutations(Workers)
=============================================================================
