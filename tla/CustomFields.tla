----------------------------- MODULE CustomFields -----------------------------
(***************************************************************************)
(* Custom fields: definitions, their assignment to nodes of the tree of    *)
(* categories, types and items, and the values of tickets.                 *)
(*                                                                         *)
(* A definition is read before a value is stored, in another statement;    *)
(* several values are stored one after another, in the order of a Go map,  *)
(* and the first error stops the rest.  A PATCH writes a definition or an  *)
(* assignment back from what it has read.                                  *)
(***************************************************************************)
EXTENDS DeskBase, Integers, Sequences

CONSTANTS
  FieldTickets,     \* ids of rows of tickets, the one to be created included
  Fields,           \* ids of rows of custom_field_defs, present and future
  Assigns,          \* ids of rows of custom_field_assignments
  Scopes,           \* the nodes fields are assigned to: no foreign key holds them
  Values,           \* values other than the empty one ...
  Empty,            \* ... which deletes
  Bodies,           \* what clients send: functions from some fields to values
  Forms,            \* the scopes a form asks for: its category, type and item
  FieldDrafts, FieldPatches,     \* what administrators send to create a definition and to edit one ...
  AssignDrafts, AssignPatches,   \* ... and an assignment
  SeededFields, SeededAssigns, SeededValues,   \* the rows there were before
  MaxFieldRequests  \* bound on the number of requests

Kinds == {"text", "select"}   \* textarea and number are treated like text

Field  == [kind : Kinds, options : SUBSET Values, active : BOOLEAN]
\* visible and required on the form for new tickets.
Assign == [field : Fields, scope : Scopes, visible : BOOLEAN, required : BOOLEAN]
\* A PATCH of a definition: Nil for what is not sent, `same` when no options are.
FieldPatch ==
  [kind : Kinds \cup {Nil}, options : SUBSET Values, same : BOOLEAN, active : BOOLEAN \cup {Nil}]
AssignPatch == [visible : BOOLEAN \cup {Nil}, required : BOOLEAN \cup {Nil}]

ASSUME FieldAssumption ==
  /\ \A b \in Bodies : DOMAIN b \subseteq Fields /\ \A f \in DOMAIN b : b[f] \in Values \cup {Empty}
  /\ Forms \subseteq Seq(Scopes)
  /\ FieldDrafts \subseteq Field /\ FieldPatches \subseteq FieldPatch
  /\ AssignDrafts \subseteq Assign /\ AssignPatches \subseteq AssignPatch
  /\ SeededFields \in [Fields -> Field \cup {Nil}]
  /\ \A f \in Fields : SeededFields[f] # Nil /\ SeededFields[f].kind = "select"
                       => SeededFields[f].options # {}
  /\ SeededAssigns \in [Assigns -> Assign \cup {Nil}]
  /\ SeededValues \in [FieldTickets -> [Fields -> Values \cup {Nil}]]
  /\ MaxFieldRequests \in Nat

FieldOps == {"create", "put", "field", "assign", "form"}
FieldSteps ==
  {"next", "readField", "store", "getField", "putField", "insertField",
   "insertAssign", "getAssign", "putAssign", "deleteAssign", "list", "shown", "done"}

\* A request: its parameters, and the values it holds between its statements.
FieldRequest ==
  [op     : FieldOps,
   step   : FieldSteps,
   ticket : FieldTickets \cup {Nil},
   body   : Bodies \cup {Nil},
   left   : SUBSET Fields,            \* the fields of the body not set yet
   field  : Fields \cup {Nil},
   sent   : FieldPatch \cup {Nil},
   row    : Field \cup {Nil},         \* the definition to be written
   assign : Assigns \cup {Nil},
   change : AssignPatch \cup {Nil},
   held   : Assign \cup {Nil},        \* the assignment to be written
   form   : Seq(Scopes),              \* the lists not read yet
   answer : SUBSET (Assigns \X Fields)]

ASSUME FieldNilAssumption ==
  /\ Empty \notin Values \cup {Nil}
  /\ Nil \notin Fields \cup Assigns \cup Scopes \cup Values \cup FieldTickets \cup Kinds
  /\ Nil \notin Bodies /\ Nil \notin BOOLEAN
  /\ Nil \notin Field \cup Assign \cup FieldPatch \cup AssignPatch \cup FieldRequest

VARIABLES
  field,        \* table custom_field_defs
  assign,       \* table custom_field_assignments
  fieldValue,   \* table ticket_custom_field_values
  fieldReq,     \* the requests in progress
  allowed,      \* the values that were allowed at some moment since a request began (observer)
  fieldCount    \* number of requests so far

fieldTables == <<field, assign, fieldValue>>
fieldVars   == <<field, assign, fieldValue, fieldReq, allowed, fieldCount>>

FieldTypeOK ==
  /\ field \in [Fields -> Field \cup {Nil}]
  /\ assign \in [Assigns -> Assign \cup {Nil}]
  /\ fieldValue \in [FieldTickets -> [Fields -> Values \cup {Nil}]]
  /\ fieldReq \in [Workers -> FieldRequest \cup {Nil}]
  /\ allowed \in [Workers -> SUBSET (Fields \X Values)]
  /\ fieldCount \in 0..MaxFieldRequests

FieldInit ==
  /\ field = SeededFields
  /\ assign = SeededAssigns
  /\ fieldValue = SeededValues
  /\ fieldReq = [w \in Workers |-> Nil]
  /\ allowed = [w \in Workers |-> {}]
  /\ fieldCount = 0

-----------------------------------------------------------------------------
(* Requests arrive.                                                        *)

FieldBlank ==
  [op |-> "put", step |-> "next", ticket |-> Nil, body |-> Nil, left |-> {}, field |-> Nil,
   sent |-> Nil, row |-> Nil, assign |-> Nil, change |-> Nil, held |-> Nil,
   form |-> <<>>, answer |-> {}]

FieldBegins(w, r) ==
  /\ fieldReq[w] = Nil
  /\ fieldCount < MaxFieldRequests /\ fieldCount' = fieldCount + 1
  /\ fieldReq' = [fieldReq EXCEPT ![w] = r]
  /\ UNCHANGED fieldTables

\* The values sent with a new ticket ("create") or for a ticket there is ("put").
HandlePutTicketCustomFields(w) ==
  \E t \in FieldTickets, b \in Bodies, op \in {"create", "put"} :
    FieldBegins(w, [FieldBlank EXCEPT !.op = op, !.ticket = t, !.body = b, !.left = DOMAIN b])

\* Options are required of a select field.
Definable(d) == d.kind = "select" => d.options # {}

HandleCreateFieldDef(w) ==
  \E f \in Fields, d \in FieldDrafts :
    /\ field[f] = Nil /\ \A v \in Workers : fieldReq[v] # Nil => fieldReq[v].field # f
    /\ Definable(d)
    /\ FieldBegins(w, [FieldBlank EXCEPT !.op = "field", !.step = "insertField", !.field = f,
                         !.row = [d EXCEPT !.active = TRUE]])

HandleUpdateFieldDef(w) ==
  \E f \in Fields, d \in FieldPatches :
    /\ field[f] # Nil
    /\ FieldBegins(w, [FieldBlank EXCEPT !.op = "field", !.step = "getField", !.field = f, !.sent = d])

HandleCreateAssignment(w) ==
  \E a \in Assigns, k \in AssignDrafts :
    /\ assign[a] = Nil /\ \A x \in Workers : fieldReq[x] # Nil => fieldReq[x].assign # a
    /\ FieldBegins(w, [FieldBlank EXCEPT !.op = "assign", !.step = "insertAssign", !.assign = a, !.held = k])

HandleUpdateAssignment(w) ==
  \E a \in Assigns, d \in AssignPatches :
    /\ assign[a] # Nil
    /\ FieldBegins(w, [FieldBlank EXCEPT !.op = "assign", !.step = "getAssign", !.assign = a, !.change = d])

HandleDeleteAssignment(w) ==
  \E a \in Assigns :
    /\ assign[a] # Nil
    /\ FieldBegins(w, [FieldBlank EXCEPT !.op = "assign", !.step = "deleteAssign", !.assign = a])

HandleResolveFieldsForCTI(w) ==
  \E s \in Forms :
    FieldBegins(w, [FieldBlank EXCEPT !.op = "form", !.step = "list", !.form = s])

-----------------------------------------------------------------------------
(* Values.                                                                 *)

FieldEnds(w) == fieldReq' = Ended(fieldReq, w)
FieldGoes(w, step) == fieldReq' = GoesTo(fieldReq, w, step)

\* An error ends a PUT; a new ticket does without the value.
Refused(w) == IF fieldReq[w].op = "create" THEN FieldGoes(w, "next") ELSE FieldEnds(w)

\* The loop over the body takes the fields that are left in any order.
SetNextValue(w) ==
  LET r == fieldReq[w] IN
  /\ r # Nil /\ r.step = "next"
  /\ \/ \E f \in r.left :
          fieldReq' = [fieldReq EXCEPT ![w].field = f, ![w].left = @ \ {f},
                         ![w].step = IF r.body[f] # Empty THEN "readField"
                                     ELSE IF r.op = "create" THEN "next" ELSE "store"]
     \/ r.left = {} /\ FieldGoes(w, "done")
  /\ UNCHANGED <<fieldTables, fieldCount>>

\* Mutant of Settable: SetValue does not look whether the field is in use.
SettableInactive(d, v) == d # Nil /\ (d.kind = "select" => v \in d.options)

\* SetValue: the field is there and active, and has the value among its options.
Settable(d, v) == d # Nil /\ d.active /\ (d.kind = "select" => v \in d.options)

ReadFieldDef(w) ==
  LET r == fieldReq[w] IN
  /\ r # Nil /\ r.step = "readField"
  /\ IF Settable(field[r.field], r.body[r.field]) THEN FieldGoes(w, "store") ELSE Refused(w)
  /\ UNCHANGED <<fieldTables, fieldCount>>

\* UpsertValue, or DeleteValue for the empty value.
StoredValue(old, v) == IF v = Empty THEN Nil ELSE v

StoreValue(w) ==
  LET r == fieldReq[w] IN
  /\ r # Nil /\ r.step = "store"
  /\ fieldValue' = [fieldValue EXCEPT ![r.ticket][r.field] = StoredValue(@, r.body[r.field])]
  /\ FieldGoes(w, "next")
  /\ UNCHANGED <<field, assign, fieldCount>>

\* The client is answered that its values were stored.
ValuesStored(w) ==
  /\ fieldReq[w] # Nil /\ fieldReq[w].step = "done"
  /\ FieldEnds(w)
  /\ UNCHANGED <<fieldTables, fieldCount>>

-----------------------------------------------------------------------------
(* Definitions.                                                            *)

InsertFieldDef(w) ==
  LET r == fieldReq[w] IN
  /\ r # Nil /\ r.step = "insertField"
  /\ field' = [field EXCEPT ![r.field] = r.row]
  /\ FieldEnds(w)
  /\ UNCHANGED <<assign, fieldValue, fieldCount>>

\* The definition a PATCH makes of the one it has read.
PatchedField(old, d) ==
  [kind    |-> IF d.kind = Nil THEN old.kind ELSE d.kind,
   options |-> IF d.same THEN old.options ELSE d.options,
   active  |-> IF d.active = Nil THEN old.active ELSE d.active]

\* Mutant of Updatable: what was sent is validated, not what will be written.
UpdatableAsSent(d, new) == d.kind = "select" /\ ~d.same => d.options # {}

Updatable(d, new) == Definable(new)

GetFieldDef(w) ==
  LET r == fieldReq[w]
      new == PatchedField(field[r.field], r.sent)
  IN
  /\ r # Nil /\ r.step = "getField"
  /\ IF Updatable(r.sent, new)
     THEN fieldReq' = [fieldReq EXCEPT ![w].row = new, ![w].step = "putField"]
     ELSE FieldEnds(w)
  /\ UNCHANGED <<fieldTables, fieldCount>>

PutFieldDef(w) ==
  LET r == fieldReq[w] IN
  /\ r # Nil /\ r.step = "putField"
  /\ field' = [field EXCEPT ![r.field] = r.row]
  /\ FieldEnds(w)
  /\ UNCHANGED <<assign, fieldValue, fieldCount>>

-----------------------------------------------------------------------------
(* Assignments.                                                            *)

\* UNIQUE (field_def_id, scope_type, scope_id), and the field's foreign key.
Assignable(k) ==
  /\ field[k.field] # Nil
  /\ \A a \in Assigns : assign[a] # Nil => assign[a].field # k.field \/ assign[a].scope # k.scope

InsertAssignment(w) ==
  LET r == fieldReq[w] IN
  /\ r # Nil /\ r.step = "insertAssign"
  /\ assign' = IF Assignable(r.held) THEN [assign EXCEPT ![r.assign] = r.held] ELSE assign
  /\ FieldEnds(w)
  /\ UNCHANGED <<field, fieldValue, fieldCount>>

GetAssignment(w) ==
  LET r == fieldReq[w]
      old == assign[r.assign]
      d == r.change
  IN
  /\ r # Nil /\ r.step = "getAssign"
  /\ IF old = Nil THEN FieldEnds(w)
     ELSE fieldReq' = [fieldReq EXCEPT ![w].step = "putAssign",
            ![w].held = [old EXCEPT !.visible = IF d.visible = Nil THEN @ ELSE d.visible,
                                    !.required = IF d.required = Nil THEN @ ELSE d.required]]
  /\ UNCHANGED <<fieldTables, fieldCount>>

PutAssignment(w) ==
  LET r == fieldReq[w] IN
  /\ r # Nil /\ r.step = "putAssign"
  /\ assign' = IF assign[r.assign] = Nil THEN assign
               ELSE [assign EXCEPT ![r.assign].visible = r.held.visible,
                                   ![r.assign].required = r.held.required]
  /\ FieldEnds(w)
  /\ UNCHANGED <<field, fieldValue, fieldCount>>

DeleteAssignment(w) ==
  LET r == fieldReq[w] IN
  /\ r # Nil /\ r.step = "deleteAssign"
  /\ assign' = [assign EXCEPT ![r.assign] = Nil]
  /\ FieldEnds(w)
  /\ UNCHANGED <<field, fieldValue, fieldCount>>

-----------------------------------------------------------------------------
(* The form for new tickets: one list for each of category, type and item. *)

\* ListAssignmentsForScope joins the definitions, active or not.
Listed(s) == {<<a, assign[a].field>> : a \in {b \in Assigns : assign[b] # Nil /\ assign[b].scope = s}}

ListAssignments(w) ==
  LET r == fieldReq[w] IN
  /\ r # Nil /\ r.step = "list"
  /\ IF r.form = <<>> THEN FieldGoes(w, "shown")
     ELSE fieldReq' = [fieldReq EXCEPT ![w].form = Tail(@), ![w].answer = @ \cup Listed(Head(r.form))]
  /\ UNCHANGED <<fieldTables, fieldCount>>

FormShown(w) ==
  /\ fieldReq[w] # Nil /\ fieldReq[w].step = "shown"
  /\ FieldEnds(w)
  /\ UNCHANGED <<fieldTables, fieldCount>>

-----------------------------------------------------------------------------

FieldArrive(w) ==
  HandlePutTicketCustomFields(w) \/ HandleCreateFieldDef(w) \/ HandleUpdateFieldDef(w)
  \/ HandleCreateAssignment(w) \/ HandleUpdateAssignment(w) \/ HandleDeleteAssignment(w)
  \/ HandleResolveFieldsForCTI(w)

FieldStatement(w) ==
  SetNextValue(w) \/ ReadFieldDef(w) \/ StoreValue(w) \/ ValuesStored(w)
  \/ InsertFieldDef(w) \/ GetFieldDef(w) \/ PutFieldDef(w)
  \/ InsertAssignment(w) \/ GetAssignment(w) \/ PutAssignment(w) \/ DeleteAssignment(w)
  \/ ListAssignments(w) \/ FormShown(w)

FieldExhausted ==
  /\ fieldCount = MaxFieldRequests /\ \A w \in Workers : fieldReq[w] = Nil
  /\ UNCHANGED <<fieldTables, fieldReq, fieldCount>>

\* The values of a field in use: any for a text, the options for a select.
InUseWith(f, v) ==
  field'[f] # Nil /\ field'[f].active /\ (field'[f].kind = "text" \/ v \in field'[f].options)

Allowing(w) ==
  LET r == fieldReq'[w] IN
  IF r = Nil \/ r.body = Nil THEN {}
  ELSE allowed[w] \cup {p \in Fields \X Values : p[1] \in DOMAIN r.body /\ r.body[p[1]] = p[2]
                                                 /\ InUseWith(p[1], p[2])}

FieldNext ==
  /\ (\E w \in Workers : FieldArrive(w) \/ FieldStatement(w)) \/ FieldExhausted
  /\ allowed' = [w \in Workers |-> Allowing(w)]

FieldSpec == FieldInit /\ [][FieldNext]_fieldVars

-----------------------------------------------------------------------------
(* What must hold.                                                         *)

\* A select field has options, whatever parts of its definition were edited apart or
\* at once.  (CreateFieldDef, UpdateFieldDef)
SelectHasOptions ==
  \A f \in Fields : field[f] # Nil /\ field[f].kind = "select" => field[f].options # {}

\* A value is stored only by a request that takes the step and in whose time, at some moment,
\* the field was in use and admitted the value, although administrators edit the field
\* between the check and the storing.  (SetValue)
ValueWasAllowed ==
  [][\A t \in FieldTickets, f \in Fields :
       fieldValue'[t][f] \notin {fieldValue[t][f], Nil} =>
         \E w \in Workers : /\ fieldReq'[w] # fieldReq[w]
                            /\ <<f, fieldValue'[t][f]>> \in allowed[w]]_fieldVars

\* DESIGN.md:284: "Deactivated fields do not appear on new ticket forms".  With one request
\* at a time, what a form shows is active.  (ListAssignments)
FormShowsActive ==
  \A w \in Workers :
    LET r == fieldReq[w] IN
    r # Nil /\ r.step = "shown" =>
      \A p \in r.answer : assign[p[1]].visible => field[p[2]].active
=============================================================================
