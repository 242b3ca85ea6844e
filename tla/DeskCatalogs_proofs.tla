------------------------- MODULE DeskCatalogs_proofs -------------------------
(***************************************************************************)
(* What holds of tags, custom fields, files on disk and the settings of    *)
(* identity providers, for any number of rows, requests, failures and      *)
(* stops; and of the desk that they and the parts of DeskTickets_proofs    *)
(* make up.                                                                *)
(*                                                                         *)
(* The parts share no state.  Each has an inductive invariant: its types,  *)
(* and what a request holds at each of its statements.                     *)
(***************************************************************************)
EXTENDS Desk, DeskTickets_proofs

-----------------------------------------------------------------------------
(* Tags.                                                                   *)

\* A request that names a tag has a name; one that attaches a tag has found it in use.
TagWorkerOK(w) ==
  tagReq[w] # Nil =>
    /\ tagReq[w].step \in {"find", "insert"} => tagReq[w].name # Nil
    /\ tagReq[w].step = "attach" =>
         /\ tagReq[w].tag \in inUse[w]
         /\ tag[tagReq[w].tag] # Nil

TagInv == TagTypeOK /\ OneTagPerName /\ \A w \in Workers : TagWorkerOK(w)

\* How the observer moves with every step.
InUseMoves ==
  inUse' = [w \in Workers |-> IF tagReq'[w] = Nil THEN {}
                              ELSE IF tagReq[w] = Nil THEN Used ELSE inUse[w] \cup Used']

\* No tag ever goes, and none changes its name.
TagsStay == \A g \in TagIds : tag[g] # Nil => tag'[g] # Nil /\ tag'[g].name = tag[g].name

RequestTypes ==
  /\ tagReq \in [Workers -> TagRequest \cup {Nil}]
  /\ inUse \in [Workers -> SUBSET TagIds]
  /\ \A w \in Workers : TagWorkerOK(w)

TableTypes ==
  /\ tag \in [TagIds -> TagRow \cup {Nil}]
  /\ tagged \subseteq FiledTickets \X TagIds
  /\ \A p \in tagged : tag[p[2]] # Nil
  /\ tagCount \in 0..MaxTagRequests /\ tagFaults \in 0..MaxTagFaults

LEMMA TagInvParts == TagInv <=> TableTypes /\ RequestTypes /\ OneTagPerName
  BY DEF TagInv, TagTypeOK, TableTypes, RequestTypes

\* One request moves to q, or ends; the others are as they were.
LEMMA RequestMoves ==
  ASSUME TagInv, NEW w \in Workers, NEW q \in TagRequest \cup {Nil},
         tagReq' = [tagReq EXCEPT ![w] = q], TagsStay, InUseMoves,
         q # Nil =>
           /\ q.step \in {"find", "insert"} => q.name # Nil
           /\ q.step = "attach" => tagReq[w] # Nil /\ q.tag \in Used'
  PROVE  RequestTypes'
<1>1. tagReq' \in [Workers -> TagRequest \cup {Nil}]
  BY DEF TagInv, TagTypeOK
<1>2. inUse' \in [Workers -> SUBSET TagIds]
  BY DEF TagInv, TagTypeOK, InUseMoves, Used
<1>3. TagWorkerOK(w)'
  <2>1. tagReq'[w] = q
    BY DEF TagInv, TagTypeOK
  <2>2. CASE q = Nil
    BY <2>1, <2>2 DEF TagWorkerOK
  <2>3. CASE q # Nil
    <3>1. q.step = "attach" => q.tag \in inUse'[w]
      BY <2>1, <2>3 DEF InUseMoves
    <3> QED BY <2>1, <2>3, <3>1 DEF TagWorkerOK, Used
  <2> QED BY <2>2, <2>3
<1>4. ASSUME NEW v \in Workers \ {w} PROVE TagWorkerOK(v)'
  <2>1. tagReq'[v] = tagReq[v]
    BY DEF TagInv, TagTypeOK
  <2>2. tagReq[v] # Nil => inUse[v] \subseteq inUse'[v]
    BY <2>1 DEF InUseMoves
  <2>3. tagReq[v] # Nil /\ tagReq[v].step = "attach" => tagReq[v].tag \in TagIds
    BY DEF TagInv, TagTypeOK, TagWorkerOK
  <2> QED BY <2>1, <2>2, <2>3 DEF TagInv, TagWorkerOK, TagsStay
<1> QED BY <1>1, <1>2, <1>3, <1>4 DEF RequestTypes

LEMMA TagBeginsKeeps ==
  ASSUME TagInv, InUseMoves, NEW w \in Workers, NEW step \in TagSteps \ {"attach"},
         NEW name \in TagNames \cup {Nil}, NEW t \in Tickets \cup {Nil},
         NEW g \in TagIds \cup {Nil},
         step \in {"find", "insert"} => name # Nil,
         TagBegins(w, step, name, t, g)
  PROVE  TagInv'
<1> DEFINE q == [step |-> step, name |-> name, ticket |-> t, tag |-> g]
<1>1. q \in TagRequest /\ q.step # "attach" /\ (q.step \in {"find", "insert"} => q.name # Nil)
  BY DEF TagRequest
<1>2. tagReq' = [tagReq EXCEPT ![w] = q] /\ TagsStay
  BY DEF TagBegins, TagsStay
<1>3. RequestTypes'
  BY <1>1, <1>2, RequestMoves
<1>4. TableTypes' /\ OneTagPerName'
  BY TagAssumption DEF TagInv, TagTypeOK, TableTypes, TagBegins, OneTagPerName
<1> QED BY <1>3, <1>4, TagInvParts DEF TagInv, TagTypeOK, TableTypes, RequestTypes

\* A request ends.
LEMMA TagEndsKeeps ==
  ASSUME TagInv, InUseMoves, NEW w \in Workers, TagEnds(w), TagsStay
  PROVE  RequestTypes'
  BY RequestMoves, TagNilAssumption DEF TagEnds, Ended

\* A request goes on.
LEMMA TagGoesKeeps ==
  ASSUME TagInv, InUseMoves, NEW w \in Workers, tagReq[w] # Nil, TagsStay,
         NEW step \in TagSteps, NEW g \in TagIds \cup {Nil}, TagGoes(w, step, g),
         step \in {"find", "insert"} => tagReq[w].name # Nil,
         step = "attach" => g \in Used'
  PROVE  RequestTypes'
<1> DEFINE q == [tagReq[w] EXCEPT !.step = step, !.tag = g]
<1>1. tagReq[w] \in TagRequest
  BY DEF TagInv, TagTypeOK
<1>2. q \in TagRequest /\ q.step = step /\ q.tag = g /\ q.name = tagReq[w].name
  BY <1>1 DEF TagRequest
<1>3. tagReq' = [tagReq EXCEPT ![w] = q]
  BY DEF TagGoes
<1> QED BY <1>2, <1>3, RequestMoves

LEMMA ResolvedKeeps ==
  ASSUME TagInv, InUseMoves, NEW w \in Workers, tagReq[w] # Nil, TagsStay,
         NEW g \in TagIds, g \in Used', Resolved(w, g)
  PROVE  RequestTypes'
<1>1. CASE tagReq[w].ticket = Nil
  BY <1>1, TagEndsKeeps DEF Resolved
<1>2. CASE tagReq[w].ticket # Nil
  BY <1>2, TagGoesKeeps DEF Resolved, TagSteps
<1> QED BY <1>1, <1>2

\* A statement that writes only rows of requests.
LEMMA TablesAsTheyWere ==
  ASSUME TagInv, UNCHANGED <<tag, tagged, tagCount>>, tagFaults' \in 0..MaxTagFaults, RequestTypes'
  PROVE  TagInv'
<1>1. TableTypes' /\ OneTagPerName'
  BY DEF TagInv, TagTypeOK, TableTypes, OneTagPerName
<1> QED BY <1>1 DEF TagInv, TagTypeOK, TableTypes, RequestTypes

LEMMA FindKeeps ==
  ASSUME TagInv, InUseMoves, NEW w \in Workers, GetTagByName(w) \/ GetTagFails(w)
  PROVE  TagInv'
<1>1. /\ TagsStay /\ tagReq[w] # Nil /\ tagReq[w].name # Nil
      /\ UNCHANGED <<tag, tagged, tagCount>> /\ tagFaults' \in 0..MaxTagFaults
  BY TagAssumption DEF TagsStay, GetTagByName, GetTagFails, TagInv, TagWorkerOK, TagTypeOK
<1>2. CASE TagGoes(w, "insert", Nil)
  BY <1>1, <1>2, TagGoesKeeps, TablesAsTheyWere DEF TagSteps
<1>3. CASE TagEnds(w)
  BY <1>1, <1>3, TagEndsKeeps, TablesAsTheyWere
<1>4. ASSUME NEW g \in Named(tagReq[w].name), Resolvable(g), Resolved(w, g) PROVE TagInv'
  <2>1. g \in TagIds /\ g \in Used'
    BY <1>1, <1>4 DEF Named, Resolvable, Used
  <2> QED BY <1>1, <1>4, <2>1, ResolvedKeeps, TablesAsTheyWere
<1> QED BY <1>2, <1>3, <1>4 DEF GetTagByName, GetTagFails

LEMMA CreateKeeps ==
  ASSUME TagInv, InUseMoves, NEW w \in Workers, CreateTag(w)
  PROVE  TagInv'
<1> USE DEF CreateTag
<1>1. tagReq[w] # Nil /\ tagReq[w].name \in TagNames
  BY DEF TagInv, TagWorkerOK, TagTypeOK, TagRequest
<1>2. CASE ~NameFree(tagReq[w].name) /\ TagEnds(w) /\ UNCHANGED tag
  BY <1>2, TagEndsKeeps, TablesAsTheyWere DEF TagsStay, TagInv, TagTypeOK
<1>3. ASSUME NameFree(tagReq[w].name), NEW g \in TagIds, tag[g] = Nil,
             tag' = [tag EXCEPT ![g] = [name |-> tagReq[w].name, deleted |-> FALSE]],
             Resolved(w, g)
      PROVE TagInv'
  <2> DEFINE row == [name |-> tagReq[w].name, deleted |-> FALSE]
  <2>1. row \in TagRow /\ row # Nil /\ row.name = tagReq[w].name /\ ~row.deleted
    <3>1. row \in TagRow
      BY <1>1 DEF TagRow
    <3> QED BY <3>1, TagNilAssumption
  <2>2. tag' \in [TagIds -> TagRow \cup {Nil}] /\ tag'[g] = row
        /\ \A h \in TagIds \ {g} : tag'[h] = tag[h]
    BY <1>3, <2>1 DEF TagInv, TagTypeOK
  <2>3. TagsStay /\ g \in Used'
    BY <1>3, <2>1, <2>2 DEF TagsStay, Used
  <2>4. RequestTypes'
    BY <1>1, <1>3, <2>3, ResolvedKeeps
  <2>5. OneTagPerName'
    BY <1>3, <2>1, <2>2 DEF TagInv, OneTagPerName, NameFree, Named
  <2>6. TableTypes'
    BY <2>2, <2>3 DEF TagInv, TagTypeOK, TableTypes, TagsStay
  <2> QED BY <2>4, <2>5, <2>6 DEF TagInv, TagTypeOK, TableTypes, RequestTypes
<1> QED BY <1>2, <1>3

LEMMA AttachKeeps ==
  ASSUME TagInv, InUseMoves, NEW w \in Workers, AddTicketTag(w) \/ RemoveTicketTag(w)
  PROVE  TagInv'
<1>1. TagEnds(w) /\ UNCHANGED <<tag, tagCount, tagFaults>> /\ tagReq[w] # Nil
  BY DEF AddTicketTag, RemoveTicketTag
<1>2. RequestTypes'
  BY <1>1, TagEndsKeeps DEF TagsStay
<1>3. CASE AddTicketTag(w)
  <2>1. tagReq[w].tag \in TagIds /\ tag[tagReq[w].tag] # Nil
    BY <1>3 DEF AddTicketTag, TagInv, TagTypeOK, TagWorkerOK
  <2>2. TableTypes' /\ OneTagPerName'
    BY <1>1, <1>3, <2>1 DEF AddTicketTag, TagInv, TagTypeOK, TableTypes, OneTagPerName
  <2> QED BY <1>2, <2>2 DEF TagInv, TagTypeOK, TableTypes, RequestTypes
<1>4. CASE RemoveTicketTag(w)
  <2>1. TableTypes' /\ OneTagPerName'
    BY <1>1, <1>4 DEF RemoveTicketTag, TagInv, TagTypeOK, TableTypes, OneTagPerName
  <2> QED BY <1>2, <2>1 DEF TagInv, TagTypeOK, TableTypes, RequestTypes
<1> QED BY <1>3, <1>4

LEMMA MarkKeeps ==
  ASSUME TagInv, InUseMoves, NEW w \in Workers, SoftDeleteTag(w) \/ RestoreTag(w)
  PROVE  TagInv'
<1>1. PICK g \in TagIds \cup {Nil}, d \in BOOLEAN :
        tag' = Marked(g, d) /\ TagEnds(w) /\ UNCHANGED <<tagged, tagCount, tagFaults>>
  BY DEF SoftDeleteTag, RestoreTag, TagInv, TagTypeOK, TagRequest
<1>2. tag' \in [TagIds -> TagRow \cup {Nil}]
      /\ \A h \in TagIds : (tag'[h] = Nil <=> tag[h] = Nil)
                          /\ (tag[h] # Nil => tag'[h].name = tag[h].name)
  <2>1. CASE tag' = tag
    BY <2>1 DEF TagInv, TagTypeOK
  <2>2. CASE g \in TagIds /\ tag[g] # Nil
    <3> DEFINE row == [tag[g] EXCEPT !.deleted = d]
    <3>1. tag[g] \in TagRow
      BY <2>2 DEF TagInv, TagTypeOK
    <3>2. row \in TagRow /\ row # Nil /\ row.name = tag[g].name
      BY <3>1, TagNilAssumption DEF TagRow
    <3>3. tag' = [tag EXCEPT ![g] = row]
      BY <1>1, <2>2 DEF Marked
    <3> QED BY <2>2, <3>2, <3>3 DEF TagInv, TagTypeOK
  <2>3. CASE g = Nil
    BY <1>1, <2>3, TagNilAssumption, <2>1 DEF Marked, TagInv, TagTypeOK
  <2> QED BY <1>1, <2>1, <2>2, <2>3 DEF Marked
<1>3. TagsStay
  BY <1>2 DEF TagsStay
<1>4. RequestTypes'
  BY <1>1, <1>3, TagEndsKeeps
<1>5. TableTypes'
  BY <1>1, <1>2, <1>3 DEF TagInv, TagTypeOK, TableTypes, TagsStay
<1>6. OneTagPerName'
  BY <1>2 DEF TagInv, OneTagPerName
<1> QED BY <1>4, <1>5, <1>6 DEF TagInv, TagTypeOK, TableTypes, RequestTypes

LEMMA TagInductive ==
  ASSUME TagInv, [TagNext]_tagVars
  PROVE  TagInv'
<1>1. CASE UNCHANGED tagVars
  BY <1>1 DEF tagVars, TagInv, TagTypeOK, OneTagPerName, TagWorkerOK
<1>2. CASE TagNext
  <2> USE <1>2 DEF TagSteps
  <2>1. InUseMoves
    BY DEF TagNext, InUseMoves
  <2>2. ASSUME NEW w \in Workers, HandleAdminCreateTag(w) \/ HandleAddTicketTag(w) PROVE TagInv'
    <3>1. PICK n \in TagNames, t \in Tickets \cup {Nil} : TagBegins(w, "find", n, t, Nil)
      BY <2>2, TagAssumption DEF HandleAdminCreateTag, HandleAddTicketTag, TagNames
    <3>2. n # Nil
      BY DEF TagNames
    <3> QED BY <2>1, <3>1, <3>2, TagBeginsKeeps
  <2>3. ASSUME NEW w \in Workers, HandleRemoveTicketTag(w) PROVE TagInv'
    BY <2>1, <2>3, TagBeginsKeeps DEF HandleRemoveTicketTag
  <2>4. ASSUME NEW w \in Workers, HandleAdminDeleteTag(w) PROVE TagInv'
    BY <2>1, <2>4, TagBeginsKeeps DEF HandleAdminDeleteTag
  <2>5. ASSUME NEW w \in Workers, HandleAdminRestoreTag(w) PROVE TagInv'
    BY <2>1, <2>5, TagBeginsKeeps DEF HandleAdminRestoreTag
  <2>6. CASE TagExhausted
    <3>1. TableTypes' /\ OneTagPerName' /\ inUse' \in [Workers -> SUBSET TagIds]
      BY <2>1, <2>6 DEF TagExhausted, TagInv, TagTypeOK, TableTypes, OneTagPerName, InUseMoves
    <3> QED BY <2>6, <3>1 DEF TagExhausted, TagInv, TagTypeOK, TableTypes, TagWorkerOK
  <2> QED BY <2>1, <2>2, <2>3, <2>4, <2>5, <2>6, FindKeeps, CreateKeeps, AttachKeeps, MarkKeeps
          DEF TagNext, TagStep
<1> QED BY <1>1, <1>2

LEMMA TagInitially == TagInit => TagInv
  BY TagAssumption DEF TagInit, TagInv, TagTypeOK, OneTagPerName, TagWorkerOK

\* Every table and request of the catalog has its type, and a ticket's tag is a row.
THEOREM TagTypes == TagSpec => []TagTypeOK
<1>1. TagInv => TagTypeOK
  BY DEF TagInv
<1> QED BY <1>1, TagInitially, TagInductive, PTL DEF TagSpec

\* A name has one tag, whatever look-ups overlap or fail: the constraint stands in for the
\* transaction that Resolve does without.
THEOREM NamesHaveOneTag == TagSpec => []OneTagPerName
<1>1. TagInv => OneTagPerName
  BY DEF TagInv
<1> QED BY <1>1, TagInitially, TagInductive, PTL DEF TagSpec

\* A tag is attached only by a request during which it was in use.
THEOREM AttachedTagsWereInUse == TagSpec => AttachedWasInUse
<1> DEFINE OK == \A w \in Workers : tagReq[w] # Nil /\ tagReq'[w] = Nil =>
                   \A p \in tagged' \ tagged : p[2] \in inUse[w]
<1>1. ASSUME TagInv, [TagNext]_tagVars PROVE OK \/ UNCHANGED tagVars
  <2>1. CASE tagged' = tagged
    BY <2>1
  <2>2. ASSUME tagged' # tagged PROVE OK
    <3>1. PICK w \in Workers : AddTicketTag(w) \/ RemoveTicketTag(w)
      BY <1>1, <2>2 DEF TagNext, TagStep, TagBegins, HandleAdminCreateTag, HandleAddTicketTag,
           HandleRemoveTicketTag, HandleAdminDeleteTag, HandleAdminRestoreTag, GetTagByName,
           GetTagFails, CreateTag, SoftDeleteTag, RestoreTag, TagExhausted, tagVars
    <3>2. \A v \in Workers \ {w} : tagReq'[v] = tagReq[v]
      BY <1>1, <3>1 DEF AddTicketTag, RemoveTicketTag, TagEnds, Ended, TagInv, TagTypeOK
    <3>3. \A p \in tagged' \ tagged : p[2] \in inUse[w]
      BY <1>1, <3>1 DEF AddTicketTag, RemoveTicketTag, TagInv, TagWorkerOK
    <3> QED BY <3>2, <3>3
  <2> QED BY <2>1, <2>2
<1>2. TagInv /\ [TagNext]_tagVars => [OK]_tagVars
  BY <1>1
<1> QED BY <1>2, TagInitially, TagInductive, PTL DEF TagSpec, AttachedWasInUse

-----------------------------------------------------------------------------
(* Custom fields.                                                          *)

\* What a request carries at each of its statements.
FieldHolds(q) ==
  /\ q.step \in {"next", "readField", "store", "done"} =>
       q.ticket \in FieldTickets /\ q.body \in Bodies /\ q.left \subseteq DOMAIN q.body
  /\ q.step \in {"readField", "store"} => q.field \in DOMAIN q.body
  /\ q.step = "readField" => q.body[q.field] # Empty
  /\ q.step \in {"insertField", "getField", "putField"} => q.field \in Fields
  /\ q.step = "getField" => q.sent \in FieldPatch
  /\ q.step \in {"insertField", "putField"} => q.row \in Field /\ Definable(q.row)
  /\ q.step \in {"insertAssign", "getAssign", "putAssign", "deleteAssign"} => q.assign \in Assigns
  /\ q.step \in {"insertAssign", "putAssign"} => q.held \in Assign
  /\ q.step = "getAssign" => q.change \in AssignPatch

\* A value about to be stored was allowed; a definition that is edited is there.
FieldWorkerOK(w) ==
  LET r == fieldReq[w] IN
  r # Nil =>
    /\ FieldHolds(r)
    /\ r.step = "store" /\ r.body[r.field] # Empty => <<r.field, r.body[r.field]>> \in allowed[w]
    /\ r.step = "getField" => field[r.field] # Nil

FieldInv == FieldTypeOK /\ SelectHasOptions /\ \A w \in Workers : FieldWorkerOK(w)

AllowedMoves == allowed' = [w \in Workers |-> Allowing(w)]

\* No definition ever goes.
FieldsStay == \A f \in Fields : field[f] # Nil => field'[f] # Nil

FieldRequestTypes ==
  /\ fieldReq \in [Workers -> FieldRequest \cup {Nil}]
  /\ allowed \in [Workers -> SUBSET (Fields \X Values)]
  /\ \A w \in Workers : FieldWorkerOK(w)

FieldTableTypes ==
  /\ field \in [Fields -> Field \cup {Nil}]
  /\ assign \in [Assigns -> Assign \cup {Nil}]
  /\ fieldValue \in [FieldTickets -> [Fields -> Values \cup {Nil}]]
  /\ fieldCount \in 0..MaxFieldRequests
  /\ SelectHasOptions

LEMMA FieldInvParts == FieldInv <=> FieldTableTypes /\ FieldRequestTypes
  BY DEF FieldInv, FieldTypeOK, FieldTableTypes, FieldRequestTypes

LEMMA BodyFacts ==
  ASSUME NEW b \in Bodies
  PROVE  b # Nil /\ DOMAIN b \subseteq Fields /\ \A f \in DOMAIN b : b[f] \in Values \cup {Empty}
  BY FieldAssumption, FieldNilAssumption

LEMMA AllowedTypes ==
  ASSUME FieldInv, AllowedMoves
  PROVE  allowed' \in [Workers -> SUBSET (Fields \X Values)]
<1>1. ASSUME NEW v \in Workers PROVE Allowing(v) \subseteq Fields \X Values
  BY DEF Allowing, FieldInv, FieldTypeOK
<1> QED BY <1>1 DEF AllowedMoves

\* One request moves to q, or ends; the others are as they were.
LEMMA FieldRequestMoves ==
  ASSUME FieldInv, NEW w \in Workers, NEW q \in FieldRequest \cup {Nil},
         fieldReq' = [fieldReq EXCEPT ![w] = q], FieldsStay, AllowedMoves,
         q # Nil =>
           /\ FieldHolds(q)
           /\ q.step = "getField" => field'[q.field] # Nil
           /\ q.step = "store" /\ q.body[q.field] # Empty => InUseWith(q.field, q.body[q.field])
  PROVE  FieldRequestTypes'
<1>1. fieldReq' \in [Workers -> FieldRequest \cup {Nil}] /\ fieldReq'[w] = q
      /\ \A v \in Workers \ {w} : fieldReq'[v] = fieldReq[v]
  BY DEF FieldInv, FieldTypeOK
<1>2. allowed' \in [Workers -> SUBSET (Fields \X Values)]
  BY AllowedTypes
<1>3. FieldWorkerOK(w)'
  <2>1. ASSUME q # Nil, q.step = "store", q.body[q.field] # Empty
        PROVE  <<q.field, q.body[q.field]>> \in allowed'[w]
    <3>1. q.body \in Bodies /\ q.field \in DOMAIN q.body
      BY <2>1 DEF FieldHolds
    <3>2. q.body # Nil /\ q.field \in Fields /\ q.body[q.field] \in Values
      BY <2>1, <3>1, BodyFacts
    <3>3. <<q.field, q.body[q.field]>> \in Allowing(w)
      BY <1>1, <2>1, <3>1, <3>2 DEF Allowing
    <3> QED BY <3>3 DEF AllowedMoves
  <2> QED BY <1>1, <2>1 DEF FieldWorkerOK
<1>4. ASSUME NEW v \in Workers \ {w} PROVE FieldWorkerOK(v)'
  <2>1. FieldWorkerOK(v) /\ fieldReq'[v] = fieldReq[v] /\ fieldReq[v] \in FieldRequest \cup {Nil}
    BY <1>1 DEF FieldInv, FieldTypeOK
  <2>2. fieldReq[v] # Nil /\ fieldReq[v].body # Nil => allowed[v] \subseteq allowed'[v]
    BY <2>1 DEF AllowedMoves, Allowing
  <2>3. fieldReq[v] # Nil /\ fieldReq[v].step = "store" => fieldReq[v].body # Nil
    BY <2>1, BodyFacts DEF FieldWorkerOK, FieldHolds
  <2>4. fieldReq[v] # Nil /\ fieldReq[v].step = "getField" => fieldReq[v].field \in Fields
    BY <2>1 DEF FieldWorkerOK, FieldHolds
  <2> QED BY <2>1, <2>2, <2>3, <2>4 DEF FieldWorkerOK, FieldsStay
<1> QED BY <1>1, <1>2, <1>3, <1>4 DEF FieldRequestTypes

\* A request ends.
LEMMA FieldEndsKeeps ==
  ASSUME FieldInv, NEW w \in Workers, FieldEnds(w), FieldsStay, AllowedMoves
  PROVE  FieldRequestTypes'
  BY FieldRequestMoves DEF FieldEnds, Ended

\* A request goes on, with what it carries, to a statement that needs no more.
LEMMA FieldGoesKeeps ==
  ASSUME FieldInv, NEW w \in Workers, NEW step \in FieldSteps, FieldGoes(w, step),
         fieldReq[w] # Nil, FieldsStay, AllowedMoves,
         \/ step \in {"list", "shown"}
         \/ step \in {"next", "done"} /\ fieldReq[w].step \in {"next", "readField", "store"}
         \/ /\ step = "store" /\ fieldReq[w].step = "readField"
            /\ InUseWith(fieldReq[w].field, fieldReq[w].body[fieldReq[w].field])
  PROVE  FieldRequestTypes'
<1> DEFINE r == fieldReq[w]
           q == [r EXCEPT !.step = step]
<1>1. r \in FieldRequest /\ FieldHolds(r)
  BY DEF FieldInv, FieldTypeOK, FieldWorkerOK
<1>2. /\ q \in FieldRequest /\ q.step = step /\ q.body = r.body /\ q.field = r.field
      /\ q.ticket = r.ticket /\ q.left = r.left
  BY <1>1 DEF FieldRequest
<1>3. FieldHolds(q)
  BY <1>1, <1>2 DEF FieldHolds
<1>4. fieldReq' = [fieldReq EXCEPT ![w] = q]
  BY DEF FieldGoes, GoesTo
<1> QED BY <1>2, <1>3, <1>4, FieldRequestMoves

LEMMA FieldBeginsKeeps ==
  ASSUME FieldInv, NEW w \in Workers, NEW q \in FieldRequest, FieldBegins(w, q), AllowedMoves,
         FieldHolds(q), q.step # "store", q.step = "getField" => field[q.field] # Nil
  PROVE  FieldInv'
<1>1. FieldRequestTypes'
  BY FieldRequestMoves DEF FieldBegins, FieldsStay, fieldTables
<1>2. FieldTableTypes'
  BY FieldAssumption DEF FieldBegins, fieldTables, FieldInv, FieldTypeOK, FieldTableTypes, SelectHasOptions
<1> QED BY <1>1, <1>2 DEF FieldInv, FieldTypeOK, FieldTableTypes, FieldRequestTypes

LEMMA BlankTypes == FieldBlank \in FieldRequest /\ FieldBlank.step = "next"
<1>1. /\ "put" \in FieldOps /\ "next" \in FieldSteps
  BY DEF FieldOps, FieldSteps
<1>2. <<>> \in Seq(Scopes)
  OBVIOUS
<1> QED BY <1>1, <1>2 DEF FieldBlank, FieldRequest

LEMMA FieldArrivalsKeep ==
  ASSUME FieldInv, NEW w \in Workers, FieldArrive(w), AllowedMoves
  PROVE  FieldInv'
<1>a. /\ "create" \in FieldOps /\ "put" \in FieldOps /\ "field" \in FieldOps /\ "assign" \in FieldOps
      /\ "form" \in FieldOps /\ "next" \in FieldSteps /\ "insertField" \in FieldSteps
      /\ "getField" \in FieldSteps /\ "insertAssign" \in FieldSteps /\ "getAssign" \in FieldSteps
      /\ "deleteAssign" \in FieldSteps /\ "list" \in FieldSteps
  BY DEF FieldOps, FieldSteps
<1>1. CASE HandlePutTicketCustomFields(w)
  <2>1. PICK t \in FieldTickets, b \in Bodies, op \in {"create", "put"} :
          FieldBegins(w, [FieldBlank EXCEPT !.op = op, !.ticket = t, !.body = b, !.left = DOMAIN b])
    BY <1>1 DEF HandlePutTicketCustomFields
  <2> DEFINE q == [FieldBlank EXCEPT !.op = op, !.ticket = t, !.body = b, !.left = DOMAIN b]
  <2>2. DOMAIN b \subseteq Fields /\ op \in FieldOps
    BY BodyFacts, <1>a
  <2>3. q \in FieldRequest
    BY <1>a, <2>2, BlankTypes DEF FieldRequest
  <2>4. q.step = "next" /\ q.ticket = t /\ q.body = b /\ q.left = DOMAIN b
    BY BlankTypes DEF FieldRequest
  <2>5. FieldBegins(w, q)
    BY <2>1
  <2> HIDE DEF q
  <2>6. FieldHolds(q)
    BY <2>2, <2>4 DEF FieldHolds
  <2> QED BY <2>1, <2>2, <2>3, <2>4, <2>5, <2>6, FieldBeginsKeeps
<1>2. CASE HandleCreateFieldDef(w)
  <2>1. PICK f \in Fields, d \in FieldDrafts :
          /\ Definable(d)
          /\ FieldBegins(w, [FieldBlank EXCEPT !.op = "field", !.step = "insertField", !.field = f,
                               !.row = [d EXCEPT !.active = TRUE]])
    BY <1>2 DEF HandleCreateFieldDef
  <2> DEFINE q == [FieldBlank EXCEPT !.op = "field", !.step = "insertField", !.field = f,
                                !.row = [d EXCEPT !.active = TRUE]]
  <2>2. [d EXCEPT !.active = TRUE] \in Field /\ Definable([d EXCEPT !.active = TRUE])
    BY <2>1, FieldAssumption DEF Field, Definable
  <2>3. q \in FieldRequest
    BY <1>a, <2>2, BlankTypes DEF FieldRequest
  <2>4. q.step = "insertField" /\ q.field = f /\ q.row = [d EXCEPT !.active = TRUE]
    BY BlankTypes DEF FieldRequest
  <2>5. FieldBegins(w, q)
    BY <2>1
  <2> HIDE DEF q
  <2>6. FieldHolds(q)
    BY <2>2, <2>4 DEF FieldHolds
  <2> QED BY <2>1, <2>2, <2>3, <2>4, <2>5, <2>6, FieldBeginsKeeps
<1>3. CASE HandleUpdateFieldDef(w)
  <2>1. PICK f \in Fields, d \in FieldPatches :
          /\ field[f] # Nil
          /\ FieldBegins(w, [FieldBlank EXCEPT !.op = "field", !.step = "getField", !.field = f, !.sent = d])
    BY <1>3 DEF HandleUpdateFieldDef
  <2> DEFINE q == [FieldBlank EXCEPT !.op = "field", !.step = "getField", !.field = f, !.sent = d]
  <2>2. d \in FieldPatch
    BY FieldAssumption
  <2>3. q \in FieldRequest
    BY <1>a, <2>2, BlankTypes DEF FieldRequest
  <2>4. q.step = "getField" /\ q.field = f /\ q.sent = d
    BY BlankTypes DEF FieldRequest
  <2>5. FieldBegins(w, q)
    BY <2>1
  <2> HIDE DEF q
  <2>6. FieldHolds(q)
    BY <2>2, <2>4 DEF FieldHolds
  <2> QED BY <2>1, <2>2, <2>3, <2>4, <2>5, <2>6, FieldBeginsKeeps
<1>4. CASE HandleCreateAssignment(w)
  <2>1. PICK a \in Assigns, k \in AssignDrafts :
          FieldBegins(w, [FieldBlank EXCEPT !.op = "assign", !.step = "insertAssign", !.assign = a, !.held = k])
    BY <1>4 DEF HandleCreateAssignment
  <2> DEFINE q == [FieldBlank EXCEPT !.op = "assign", !.step = "insertAssign", !.assign = a, !.held = k]
  <2>2. k \in Assign
    BY FieldAssumption
  <2>3. q \in FieldRequest
    BY <1>a, <2>2, BlankTypes DEF FieldRequest
  <2>4. q.step = "insertAssign" /\ q.assign = a /\ q.held = k
    BY BlankTypes DEF FieldRequest
  <2>5. FieldBegins(w, q)
    BY <2>1
  <2> HIDE DEF q
  <2>6. FieldHolds(q)
    BY <2>2, <2>4 DEF FieldHolds
  <2> QED BY <2>1, <2>2, <2>3, <2>4, <2>5, <2>6, FieldBeginsKeeps
<1>5. CASE HandleUpdateAssignment(w)
  <2>1. PICK a \in Assigns, d \in AssignPatches :
          FieldBegins(w, [FieldBlank EXCEPT !.op = "assign", !.step = "getAssign", !.assign = a, !.change = d])
    BY <1>5 DEF HandleUpdateAssignment
  <2> DEFINE q == [FieldBlank EXCEPT !.op = "assign", !.step = "getAssign", !.assign = a, !.change = d]
  <2>2. d \in AssignPatch
    BY FieldAssumption
  <2>3. q \in FieldRequest
    BY <1>a, <2>2, BlankTypes DEF FieldRequest
  <2>4. q.step = "getAssign" /\ q.assign = a /\ q.change = d
    BY BlankTypes DEF FieldRequest
  <2>5. FieldBegins(w, q)
    BY <2>1
  <2> HIDE DEF q
  <2>6. FieldHolds(q)
    BY <2>2, <2>4 DEF FieldHolds
  <2> QED BY <2>1, <2>2, <2>3, <2>4, <2>5, <2>6, FieldBeginsKeeps
<1>6. CASE HandleDeleteAssignment(w)
  <2>1. PICK a \in Assigns :
          FieldBegins(w, [FieldBlank EXCEPT !.op = "assign", !.step = "deleteAssign", !.assign = a])
    BY <1>6 DEF HandleDeleteAssignment
  <2> DEFINE q == [FieldBlank EXCEPT !.op = "assign", !.step = "deleteAssign", !.assign = a]
  <2>3. q \in FieldRequest
    BY <1>a, BlankTypes DEF FieldRequest
  <2>4. q.step = "deleteAssign" /\ q.assign = a
    BY BlankTypes DEF FieldRequest
  <2>5. FieldBegins(w, q)
    BY <2>1
  <2> HIDE DEF q
  <2>6. FieldHolds(q)
    BY <2>4 DEF FieldHolds
  <2> QED BY <2>1, <2>3, <2>4, <2>5, <2>6, FieldBeginsKeeps
<1>7. CASE HandleResolveFieldsForCTI(w)
  <2>1. PICK s \in Forms :
          FieldBegins(w, [FieldBlank EXCEPT !.op = "form", !.step = "list", !.form = s])
    BY <1>7 DEF HandleResolveFieldsForCTI
  <2> DEFINE q == [FieldBlank EXCEPT !.op = "form", !.step = "list", !.form = s]
  <2>2. s \in Seq(Scopes)
    BY FieldAssumption
  <2>3. q \in FieldRequest
    BY <1>a, <2>2, BlankTypes DEF FieldRequest
  <2>4. q.step = "list"
    BY BlankTypes DEF FieldRequest
  <2>5. FieldBegins(w, q)
    BY <2>1
  <2> HIDE DEF q
  <2>6. FieldHolds(q)
    BY <2>2, <2>4 DEF FieldHolds
  <2> QED BY <2>1, <2>2, <2>3, <2>4, <2>5, <2>6, FieldBeginsKeeps
<1> QED BY <1>1, <1>2, <1>3, <1>4, <1>5, <1>6, <1>7 DEF FieldArrive

LEMMA FieldTablesStay ==
  ASSUME FieldInv, UNCHANGED <<fieldTables, fieldCount>>
  PROVE  FieldTableTypes' /\ FieldsStay
  BY DEF fieldTables, FieldInv, FieldTypeOK, FieldTableTypes, SelectHasOptions, FieldsStay

LEMMA FieldRequestNow ==
  ASSUME FieldInv, NEW w \in Workers, fieldReq[w] # Nil
  PROVE  fieldReq[w] \in FieldRequest /\ FieldHolds(fieldReq[w])
  BY DEF FieldInv, FieldTypeOK, FieldWorkerOK

LEMMA SetNextValueKeeps ==
  ASSUME FieldInv, NEW w \in Workers, SetNextValue(w), AllowedMoves
  PROVE  FieldInv'
<1> DEFINE r == fieldReq[w]
<1>1. r \in FieldRequest /\ FieldHolds(r) /\ r.step = "next"
  BY FieldRequestNow DEF SetNextValue
<1>2. FieldTableTypes' /\ FieldsStay
  BY FieldTablesStay DEF SetNextValue
<1>3. CASE FieldGoes(w, "done")
  <2>1. r # Nil /\ "done" \in FieldSteps
    BY DEF SetNextValue, FieldSteps
  <2> QED BY <1>1, <1>2, <1>3, <2>1, FieldGoesKeeps, FieldInvParts DEF FieldInv, FieldTypeOK, FieldTableTypes, FieldRequestTypes
<1>4. ASSUME NEW f \in r.left,
             fieldReq' = [fieldReq EXCEPT ![w].field = f, ![w].left = @ \ {f},
                            ![w].step = IF r.body[f] # Empty THEN "readField"
                                        ELSE IF r.op = "create" THEN "next" ELSE "store"]
      PROVE  FieldInv'
  <2> DEFINE s == IF r.body[f] # Empty THEN "readField" ELSE IF r.op = "create" THEN "next" ELSE "store"
             q == [r EXCEPT !.field = f, !.left = r.left \ {f}, !.step = s]
  <2>1. s \in FieldSteps /\ s \in {"readField", "next", "store"}
    BY DEF FieldSteps
  <2>2. r.body \in Bodies /\ r.left \subseteq DOMAIN r.body /\ r.ticket \in FieldTickets
    BY <1>1 DEF FieldHolds
  <2>3. f \in Fields /\ f \in DOMAIN r.body /\ r.left \ {f} \in SUBSET Fields
    BY <2>2, BodyFacts
  <2>4. fieldReq' = [fieldReq EXCEPT ![w] = q]
    BY <1>4
  <2>5. (s = "readField") = (r.body[f] # Empty)
    OBVIOUS
  <2> HIDE DEF s
  <2>6. /\ q \in FieldRequest /\ q.field = f /\ q.left = r.left \ {f} /\ q.step = s
        /\ q.body = r.body /\ q.ticket = r.ticket
    BY <1>1, <2>1, <2>3 DEF FieldRequest
  <2> HIDE DEF q
  <2>7. FieldHolds(q)
    BY <2>1, <2>2, <2>3, <2>5, <2>6 DEF FieldHolds
  <2>8. q.step = "store" => q.body[q.field] = Empty
    BY <2>1, <2>5, <2>6
  <2>9. FieldRequestTypes'
    BY <1>2, <2>1, <2>4, <2>6, <2>7, <2>8, FieldRequestMoves
  <2> QED BY <1>2, <2>9 DEF FieldInv, FieldTypeOK, FieldTableTypes, FieldRequestTypes
<1> QED BY <1>3, <1>4 DEF SetNextValue

LEMMA ReadFieldDefKeeps ==
  ASSUME FieldInv, NEW w \in Workers, ReadFieldDef(w), AllowedMoves
  PROVE  FieldInv'
<1> DEFINE r == fieldReq[w]
<1>1. r \in FieldRequest /\ FieldHolds(r) /\ r.step = "readField" /\ r # Nil
  BY FieldRequestNow DEF ReadFieldDef
<1>2. FieldTableTypes' /\ FieldsStay /\ field' = field
  BY FieldTablesStay DEF ReadFieldDef, fieldTables
<1>3. r.field \in DOMAIN r.body /\ r.body \in Bodies /\ r.field \in Fields
  BY <1>1, BodyFacts DEF FieldHolds
<1>4. "store" \in FieldSteps /\ "next" \in FieldSteps
  BY DEF FieldSteps
<1>5. FieldRequestTypes'
  <2>1. CASE Settable(field[r.field], r.body[r.field])
    <3>1. field[r.field] \in Field
      BY <1>3, <2>1 DEF Settable, FieldInv, FieldTypeOK
    <3>2. InUseWith(r.field, r.body[r.field])
      BY <1>2, <2>1, <3>1 DEF Settable, InUseWith, Field, Kinds
    <3>3. FieldGoes(w, "store")
      BY <2>1 DEF ReadFieldDef
    <3> QED BY <1>1, <1>2, <1>4, <3>2, <3>3, FieldGoesKeeps
  <2>2. CASE ~Settable(field[r.field], r.body[r.field])
    BY <1>1, <1>2, <1>4, <2>2, FieldGoesKeeps, FieldEndsKeeps DEF ReadFieldDef, Refused
  <2> QED BY <2>1, <2>2
<1> QED BY <1>2, <1>5 DEF FieldInv, FieldTypeOK, FieldTableTypes, FieldRequestTypes

LEMMA StoreValueKeeps ==
  ASSUME FieldInv, NEW w \in Workers, StoreValue(w), AllowedMoves
  PROVE  FieldInv'
<1> DEFINE r == fieldReq[w]
<1>1. r \in FieldRequest /\ FieldHolds(r) /\ r.step = "store" /\ r # Nil
  BY FieldRequestNow DEF StoreValue
<1>2. r.field \in DOMAIN r.body /\ r.body \in Bodies /\ r.ticket \in FieldTickets
  BY <1>1 DEF FieldHolds
<1>3. r.field \in Fields /\ StoredValue(fieldValue[r.ticket][r.field], r.body[r.field]) \in Values \cup {Nil}
  BY <1>2, BodyFacts DEF StoredValue
<1>4. fieldValue' \in [FieldTickets -> [Fields -> Values \cup {Nil}]]
  BY <1>2, <1>3 DEF StoreValue, FieldInv, FieldTypeOK
<1>5. FieldsStay
  BY DEF StoreValue, FieldsStay
<1>6. FieldTableTypes'
  BY <1>4 DEF StoreValue, FieldInv, FieldTypeOK, FieldTableTypes, SelectHasOptions
<1>7. "next" \in FieldSteps /\ FieldGoes(w, "next")
  BY DEF FieldSteps, StoreValue
<1>8. FieldRequestTypes'
  BY <1>1, <1>5, <1>7, FieldGoesKeeps
<1> QED BY <1>6, <1>8 DEF FieldInv, FieldTypeOK, FieldTableTypes, FieldRequestTypes

\* The definition a request has ready is written.
LEMMA WriteFieldDefKeeps ==
  ASSUME FieldInv, NEW w \in Workers, InsertFieldDef(w) \/ PutFieldDef(w), AllowedMoves
  PROVE  FieldInv'
<1> DEFINE r == fieldReq[w]
<1>1. /\ r # Nil /\ r.step \in {"insertField", "putField"} /\ FieldEnds(w)
      /\ field' = [field EXCEPT ![r.field] = r.row]
      /\ UNCHANGED <<assign, fieldValue, fieldCount>>
  BY DEF InsertFieldDef, PutFieldDef
<1>2. r.field \in Fields /\ r.row \in Field /\ Definable(r.row)
  BY <1>1, FieldRequestNow DEF FieldHolds
<1>3. field' \in [Fields -> Field \cup {Nil}]
      /\ \A f \in Fields : field'[f] = IF f = r.field THEN r.row ELSE field[f]
  BY <1>1, <1>2 DEF FieldInv, FieldTypeOK
<1>4. r.row # Nil
  BY <1>2, FieldNilAssumption
<1>5. FieldsStay
  BY <1>3, <1>4 DEF FieldsStay
<1>6. SelectHasOptions'
  BY <1>2, <1>3 DEF FieldInv, SelectHasOptions, Definable
<1>7. FieldTableTypes'
  BY <1>1, <1>3, <1>6 DEF FieldInv, FieldTypeOK, FieldTableTypes
<1>8. FieldRequestTypes'
  BY <1>1, <1>5, FieldEndsKeeps
<1> QED BY <1>7, <1>8 DEF FieldInv, FieldTypeOK, FieldTableTypes, FieldRequestTypes

LEMMA GetFieldDefKeeps ==
  ASSUME FieldInv, NEW w \in Workers, GetFieldDef(w), AllowedMoves
  PROVE  FieldInv'
<1> DEFINE r == fieldReq[w]
           new == PatchedField(field[r.field], r.sent)
           q == [r EXCEPT !.row = new, !.step = "putField"]
<1>1. r \in FieldRequest /\ FieldHolds(r) /\ r.step = "getField" /\ r # Nil
  BY FieldRequestNow DEF GetFieldDef
<1>2. FieldTableTypes' /\ FieldsStay
  BY FieldTablesStay DEF GetFieldDef
<1>3. r.field \in Fields /\ field[r.field] \in Field /\ r.sent \in FieldPatch
  BY <1>1 DEF FieldHolds, FieldInv, FieldTypeOK, FieldWorkerOK
<1>4. new \in Field
  BY <1>3 DEF PatchedField, Field, FieldPatch
<1> HIDE DEF new
<1>5. FieldRequestTypes'
  <2>1. CASE Updatable(r.sent, new)
    <3>1. "putField" \in FieldSteps
      BY DEF FieldSteps
    <3>2. q \in FieldRequest /\ q.step = "putField" /\ q.row = new /\ q.field = r.field
      BY <1>1, <1>4, <3>1 DEF FieldRequest
    <3>3. FieldHolds(q)
      BY <1>3, <1>4, <2>1, <3>2 DEF FieldHolds, Updatable
    <3>4. fieldReq' = [fieldReq EXCEPT ![w] = q]
      BY <2>1 DEF GetFieldDef, new
    <3> HIDE DEF q
    <3> QED BY <1>2, <3>2, <3>3, <3>4, FieldRequestMoves
  <2>2. CASE ~Updatable(r.sent, new)
    BY <1>2, <2>2, FieldEndsKeeps DEF GetFieldDef, new
  <2> QED BY <2>1, <2>2
<1> QED BY <1>2, <1>5 DEF FieldInv, FieldTypeOK, FieldTableTypes, FieldRequestTypes

\* An assignment is inserted, written back or deleted.
LEMMA WriteAssignmentKeeps ==
  ASSUME FieldInv, NEW w \in Workers, AllowedMoves,
         InsertAssignment(w) \/ PutAssignment(w) \/ DeleteAssignment(w)
  PROVE  FieldInv'
<1> DEFINE r == fieldReq[w]
<1>1. r # Nil /\ FieldEnds(w) /\ UNCHANGED <<field, fieldValue, fieldCount>>
  BY DEF InsertAssignment, PutAssignment, DeleteAssignment
<1>2. FieldHolds(r)
  BY <1>1, FieldRequestNow
<1>3. assign' \in [Assigns -> Assign \cup {Nil}]
  <2>1. CASE InsertAssignment(w)
    BY <1>2, <2>1 DEF InsertAssignment, FieldHolds, FieldInv, FieldTypeOK
  <2>2. CASE PutAssignment(w)
    <3>1. r.assign \in Assigns /\ r.held \in Assign
      BY <1>2, <2>2 DEF PutAssignment, FieldHolds
    <3>2. CASE assign[r.assign] = Nil
      BY <2>2, <3>2 DEF PutAssignment, FieldInv, FieldTypeOK
    <3>3. CASE assign[r.assign] # Nil
      <4> DEFINE k == [assign[r.assign] EXCEPT !.visible = r.held.visible, !.required = r.held.required]
      <4>1. assign[r.assign] \in Assign
        BY <3>1, <3>3 DEF FieldInv, FieldTypeOK
      <4>2. k \in Assign
        BY <3>1, <4>1 DEF Assign
      <4>3. assign' = [assign EXCEPT ![r.assign] = k]
        BY <2>2, <3>3 DEF PutAssignment
      <4> HIDE DEF k
      <4> QED BY <3>1, <4>2, <4>3 DEF FieldInv, FieldTypeOK
    <3> QED BY <3>2, <3>3
  <2>3. CASE DeleteAssignment(w)
    BY <1>2, <2>3 DEF DeleteAssignment, FieldHolds, FieldInv, FieldTypeOK
  <2> QED BY <2>1, <2>2, <2>3
<1>4. FieldTableTypes' /\ FieldsStay
  BY <1>1, <1>3 DEF FieldInv, FieldTypeOK, FieldTableTypes, SelectHasOptions, FieldsStay
<1>5. FieldRequestTypes'
  BY <1>1, <1>4, FieldEndsKeeps
<1> QED BY <1>4, <1>5 DEF FieldInv, FieldTypeOK, FieldTableTypes, FieldRequestTypes

LEMMA GetAssignmentKeeps ==
  ASSUME FieldInv, NEW w \in Workers, GetAssignment(w), AllowedMoves
  PROVE  FieldInv'
<1> DEFINE r == fieldReq[w]
           old == assign[r.assign]
           d == r.change
           k == [old EXCEPT !.visible = IF d.visible = Nil THEN @ ELSE d.visible,
                            !.required = IF d.required = Nil THEN @ ELSE d.required]
           q == [r EXCEPT !.step = "putAssign", !.held = k]
<1>1. r \in FieldRequest /\ FieldHolds(r) /\ r.step = "getAssign" /\ r # Nil
  BY FieldRequestNow DEF GetAssignment
<1>2. FieldTableTypes' /\ FieldsStay
  BY FieldTablesStay DEF GetAssignment
<1>3. r.assign \in Assigns /\ old \in Assign \cup {Nil} /\ d \in AssignPatch
  BY <1>1 DEF FieldHolds, FieldInv, FieldTypeOK
<1>4. FieldRequestTypes'
  <2>1. CASE old = Nil
    BY <1>2, <2>1, FieldEndsKeeps DEF GetAssignment
  <2>2. CASE old # Nil
    <3>1. "putAssign" \in FieldSteps
      BY DEF FieldSteps
    <3>2. k \in Assign
      <4>1. old \in Assign
        BY <1>3, <2>2
      <4>2. (IF d.visible = Nil THEN old.visible ELSE d.visible) \in BOOLEAN
            /\ (IF d.required = Nil THEN old.required ELSE d.required) \in BOOLEAN
        BY <1>3, <4>1 DEF Assign, AssignPatch
      <4> HIDE DEF old, d
      <4> QED BY <4>1, <4>2 DEF Assign
    <3>3. fieldReq' = [fieldReq EXCEPT ![w] = q]
      BY <2>2 DEF GetAssignment
    <3> HIDE DEF k
    <3>4. q \in FieldRequest /\ q.step = "putAssign" /\ q.held = k /\ q.assign = r.assign
      BY <1>1, <3>1, <3>2 DEF FieldRequest
    <3> HIDE DEF q
    <3>5. FieldHolds(q)
      BY <1>3, <3>2, <3>4 DEF FieldHolds
    <3> QED BY <1>2, <3>3, <3>4, <3>5, FieldRequestMoves
  <2> QED BY <2>1, <2>2
<1> QED BY <1>2, <1>4 DEF FieldInv, FieldTypeOK, FieldTableTypes, FieldRequestTypes

LEMMA ListAssignmentsKeeps ==
  ASSUME FieldInv, NEW w \in Workers, ListAssignments(w), AllowedMoves
  PROVE  FieldInv'
<1> DEFINE r == fieldReq[w]
<1>1. r \in FieldRequest /\ FieldHolds(r) /\ r.step = "list" /\ r # Nil
  BY FieldRequestNow DEF ListAssignments
<1>2. FieldTableTypes' /\ FieldsStay
  BY FieldTablesStay DEF ListAssignments
<1>3. FieldRequestTypes'
  <2>1. CASE r.form = <<>>
    <3>1. "shown" \in FieldSteps /\ FieldGoes(w, "shown")
      BY <2>1 DEF FieldSteps, ListAssignments
    <3> QED BY <1>1, <1>2, <3>1, FieldGoesKeeps
  <2>2. CASE r.form # <<>>
    <3> DEFINE more == r.answer \cup Listed(Head(r.form))
               q == [r EXCEPT !.form = Tail(r.form), !.answer = more]
    <3>1. r.form \in Seq(Scopes) /\ r.answer \in SUBSET (Assigns \X Fields)
      BY <1>1 DEF FieldRequest
    <3>2. Listed(Head(r.form)) \in SUBSET (Assigns \X Fields)
      BY DEF Listed, Assign, FieldInv, FieldTypeOK
    <3>3. Tail(r.form) \in Seq(Scopes) /\ more \in SUBSET (Assigns \X Fields)
      BY <2>2, <3>1, <3>2
    <3>4. fieldReq' = [fieldReq EXCEPT ![w] = q]
      BY <2>2 DEF ListAssignments
    <3> HIDE DEF more
    <3>5. q \in FieldRequest /\ q.step = "list"
      BY <1>1, <3>3 DEF FieldRequest
    <3> HIDE DEF q
    <3>6. FieldHolds(q)
      BY <3>5 DEF FieldHolds
    <3> QED BY <1>2, <3>4, <3>5, <3>6, FieldRequestMoves
  <2> QED BY <2>1, <2>2
<1> QED BY <1>2, <1>3 DEF FieldInv, FieldTypeOK, FieldTableTypes, FieldRequestTypes

LEMMA FieldAnswersKeep ==
  ASSUME FieldInv, NEW w \in Workers, ValuesStored(w) \/ FormShown(w), AllowedMoves
  PROVE  FieldInv'
<1>1. FieldTableTypes' /\ FieldsStay
  BY FieldTablesStay DEF ValuesStored, FormShown
<1>2. FieldRequestTypes'
  BY <1>1, FieldEndsKeeps DEF ValuesStored, FormShown
<1> QED BY <1>1, <1>2 DEF FieldInv, FieldTypeOK, FieldTableTypes, FieldRequestTypes

LEMMA FieldInitial ==
  ASSUME FieldInit
  PROVE  FieldInv
  BY FieldAssumption DEF FieldInit, FieldInv, FieldTypeOK, FieldWorkerOK, SelectHasOptions

LEMMA FieldPauses ==
  ASSUME FieldInv, UNCHANGED <<fieldTables, fieldReq, fieldCount>>, AllowedMoves
  PROVE  FieldInv'
<1>1. FieldTableTypes' /\ FieldsStay /\ field' = field /\ fieldReq' = fieldReq
  BY FieldTablesStay DEF fieldTables
<1>2. allowed' \in [Workers -> SUBSET (Fields \X Values)]
  BY AllowedTypes
<1>3. ASSUME NEW w \in Workers PROVE FieldWorkerOK(w)'
  <2>1. FieldWorkerOK(w)
    BY DEF FieldInv
  <2>2. fieldReq[w] # Nil /\ fieldReq[w].body # Nil => allowed[w] \subseteq allowed'[w]
    BY <1>1 DEF AllowedMoves, Allowing
  <2>3. fieldReq[w] # Nil /\ fieldReq[w].step = "store" => fieldReq[w].body # Nil
    BY <2>1, BodyFacts DEF FieldWorkerOK, FieldHolds
  <2> QED BY <1>1, <2>1, <2>2, <2>3 DEF FieldWorkerOK
<1> QED BY <1>1, <1>2, <1>3 DEF FieldInv, FieldTypeOK, FieldTableTypes

LEMMA FieldStatementsKeep ==
  ASSUME FieldInv, NEW w \in Workers, FieldStatement(w), AllowedMoves
  PROVE  FieldInv'
  BY SetNextValueKeeps, ReadFieldDefKeeps, StoreValueKeeps, FieldAnswersKeep, WriteFieldDefKeeps,
     GetFieldDefKeeps, WriteAssignmentKeeps, GetAssignmentKeeps, ListAssignmentsKeeps DEF FieldStatement

LEMMA FieldInductive ==
  ASSUME FieldInv, [FieldNext]_fieldVars
  PROVE  FieldInv'
<1>1. CASE UNCHANGED fieldVars
  BY <1>1 DEF fieldVars, FieldInv, FieldTypeOK, FieldWorkerOK, SelectHasOptions
<1>2. CASE FieldNext
  <2>1. AllowedMoves
    BY <1>2 DEF FieldNext, AllowedMoves
  <2>2. CASE FieldExhausted
    BY <2>1, <2>2, FieldPauses DEF FieldExhausted
  <2> QED BY <1>2, <2>1, <2>2, FieldArrivalsKeep, FieldStatementsKeep DEF FieldNext
<1> QED BY <1>1, <1>2

\* In every behaviour FieldInv holds: each request carries what its next statement needs.
LEMMA FieldInvariant == FieldSpec => []FieldInv
  BY FieldInitial, FieldInductive, PTL DEF FieldSpec

\* The tables of custom fields and the requests on them have their types.
THEOREM FieldTypes == FieldSpec => []FieldTypeOK
  BY FieldInvariant, PTL DEF FieldInv

\* A select field has options, whatever edits of its definition overlap: each writes a
\* whole definition that it has validated.  (CreateFieldDef, UpdateFieldDef)
THEOREM SelectFieldsHaveOptions == FieldSpec => []SelectHasOptions
  BY FieldInvariant, PTL DEF FieldInv

\* Only StoreValue changes a value, and to one its request found allowed.
LEMMA ValuesComeFromStores ==
  ASSUME FieldInv, [FieldNext]_fieldVars, NEW t \in FieldTickets, NEW f \in Fields,
         fieldValue'[t][f] \notin {fieldValue[t][f], Nil}
  PROVE  \E w \in Workers : fieldReq'[w] # fieldReq[w] /\ <<f, fieldValue'[t][f]>> \in allowed[w]
<1>1. PICK w \in Workers : StoreValue(w)
  BY DEF FieldNext, FieldArrive, FieldStatement, FieldExhausted, fieldVars, fieldTables, FieldBegins,
     HandlePutTicketCustomFields, HandleCreateFieldDef, HandleUpdateFieldDef, HandleCreateAssignment,
     HandleUpdateAssignment, HandleDeleteAssignment, HandleResolveFieldsForCTI, SetNextValue,
     ReadFieldDef, ValuesStored, InsertFieldDef, GetFieldDef, PutFieldDef, InsertAssignment,
     GetAssignment, PutAssignment, DeleteAssignment, ListAssignments, FormShown
<1> DEFINE r == fieldReq[w]
<1>2. r # Nil /\ r.step = "store" /\ FieldHolds(r)
  BY <1>1, FieldRequestNow DEF StoreValue
<1>3. r.ticket \in FieldTickets /\ r.body \in Bodies /\ r.field \in DOMAIN r.body
  BY <1>2 DEF FieldHolds
<1>4. /\ t = r.ticket /\ f = r.field
      /\ fieldValue'[t][f] = StoredValue(fieldValue[t][f], r.body[r.field])
  BY <1>1, <1>3, BodyFacts DEF StoreValue, FieldInv, FieldTypeOK
<1>5. r.body[r.field] # Empty /\ fieldValue'[t][f] = r.body[r.field]
  BY <1>4 DEF StoredValue
<1>6. fieldReq'[w] # r
  <2>1. fieldReq' = [fieldReq EXCEPT ![w] = [r EXCEPT !.step = "next"]] /\ r \in FieldRequest
    BY <1>1, <1>2 DEF StoreValue, FieldGoes, GoesTo, FieldInv, FieldTypeOK
  <2>2. fieldReq'[w] = [r EXCEPT !.step = "next"]
    BY <2>1 DEF FieldInv, FieldTypeOK
  <2> HIDE DEF r
  <2>3. [r EXCEPT !.step = "next"].step = "next"
    BY <2>1 DEF FieldRequest
  <2> QED BY <1>2, <2>2, <2>3
<1> QED BY <1>2, <1>4, <1>5, <1>6 DEF FieldInv, FieldWorkerOK

\* A value is stored only by a request in whose time, at some moment, its field was in use
\* and admitted it.  (SetValue)
THEOREM ValuesWereAllowed == FieldSpec => ValueWasAllowed
<1>1. ASSUME FieldInv, [FieldNext]_fieldVars
      PROVE  [\A t \in FieldTickets, f \in Fields :
                fieldValue'[t][f] \notin {fieldValue[t][f], Nil} =>
                  \E w \in Workers : /\ fieldReq'[w] # fieldReq[w]
                                     /\ <<f, fieldValue'[t][f]>> \in allowed[w]]_fieldVars
  BY <1>1, ValuesComeFromStores
<1> QED BY <1>1, FieldInvariant, PTL DEF FieldSpec, ValueWasAllowed

-----------------------------------------------------------------------------
(* Uploads.                                                                *)

\* What an upload of an attachment has established when it reaches a step.
AttachHolds(w) ==
  LET r == uploadReq[w] IN
  r # Nil =>
    /\ r.step \in {"ticket", "scan", "store", "insert", "remove"} =>
         r.ticket \in Tickets /\ r.file \in Files
    /\ r.step \in {"scan", "store", "insert", "remove"} => r.file \notin Mistyped
    /\ r.step \in {"store", "insert", "remove"} => r.file \notin Broken
    /\ r.step \in {"insert", "remove"} =>
         r.id \in Attachments /\ disk[r.id] = r.file /\ attached[r.id] = Nil

\* No two uploads have a file of one name.
OwnFiles ==
  \A v, w \in Workers :
    /\ v # w /\ uploadReq[v] # Nil /\ uploadReq[w] # Nil
    /\ uploadReq[v].step \in {"insert", "remove"} /\ uploadReq[w].step \in {"insert", "remove"}
    => uploadReq[v].id # uploadReq[w].id

LogoSteps == {"removepng", "removesvg", "write", "record", "done"}

\* A request for the logo carries a file with a place of its own, or none.
LogoHolds(r) ==
  r.step \in LogoSteps =>
    \/ r.op = "logo" /\ r.file \in Files /\ FormatOf[r.file] \in Formats
    \/ r.op = "unlogo" /\ r.file = Nil /\ r.step # "write"

\* What it has established, where requests come one at a time and none failed.
LogoDone(r) ==
  /\ r.step = "removesvg" => logoFile["png"] = Nil
  /\ r.step = "write" => logoFile["png"] = Nil /\ logoFile["svg"] = Nil
  /\ r.step \in {"record", "done"} => Served = r.file

Taking ==
  /\ \A w \in Workers : uploadReq[w] # Nil => LogoHolds(uploadReq[w])
  /\ queued => \A v, w \in Workers : v # w /\ uploadReq[v] # Nil => uploadReq[w] = Nil
  /\ queued /\ uploadFaults = 0 => \A w \in Workers : uploadReq[w] # Nil => LogoDone(uploadReq[w])

Recorded ==
  \A a \in Attachments : attached[a] # Nil =>
    disk[a] = attached[a].file /\ attached[a].file \notin Mistyped \cup Broken

Storing == (\A w \in Workers : AttachHolds(w)) /\ OwnFiles /\ Recorded

UploadInv == UploadTypeOK /\ Storing /\ Taking

LEMMA UploadInitial ==
  ASSUME UploadInit
  PROVE  UploadInv
<1>1. UploadTypeOK
  <2>1. uploads \in 0..MaxUploads /\ uploadFaults \in 0..MaxUploadFaults /\ stops \in 0..MaxStops
    BY UploadAssumption DEF UploadInit
  <2>2. disk \in [Attachments -> OnDisk] /\ logoFile \in [Formats -> OnDisk]
    BY DEF UploadInit, OnDisk
  <2>3. attached \in [Attachments -> AttachmentRow \cup {Nil}] /\ uploadReq \in [Workers -> UploadRequest \cup {Nil}]
    BY DEF UploadInit
  <2>4. logoSet \in BOOLEAN /\ queued \in BOOLEAN
    BY DEF UploadInit
  <2> QED BY <2>1, <2>2, <2>3, <2>4 DEF UploadTypeOK
<1>2. \A w \in Workers : uploadReq[w] = Nil
  BY DEF UploadInit
<1>3. \A a \in Attachments : attached[a] = Nil
  BY DEF UploadInit
<1> QED BY <1>1, <1>2, <1>3 DEF UploadInv, Storing, Taking, AttachHolds, OwnFiles, Recorded

\* A request moves to q, or ends, and touches neither attachments nor their files.
LEMMA StoringKeptBy ==
  ASSUME UploadInv, NEW w \in Workers, NEW q \in UploadRequest \cup {Nil},
         uploadReq' = [uploadReq EXCEPT ![w] = q], UNCHANGED <<attached, disk>>,
         q # Nil =>
           \/ q.step \in LogoSteps
           \/ q.step = "ticket" /\ q.ticket \in Tickets /\ q.file \in Files
           \/ /\ uploadReq[w] # Nil /\ q.ticket = uploadReq[w].ticket
              /\ q.file = uploadReq[w].file /\ q.id = uploadReq[w].id
              /\ \/ uploadReq[w].step = "ticket" /\ q.step = "scan" /\ q.file \notin Mistyped
                 \/ uploadReq[w].step = "scan" /\ q.step = "store" /\ q.file \notin Broken
                 \/ uploadReq[w].step = "insert" /\ q.step = "remove"
  PROVE  Storing'
<1>1. uploadReq'[w] = q /\ \A v \in Workers \ {w} : uploadReq'[v] = uploadReq[v]
  BY DEF UploadInv, UploadTypeOK
<1>2. AttachHolds(w)'
  BY <1>1 DEF AttachHolds, LogoSteps, UploadInv, Storing
<1>3. ASSUME NEW v \in Workers \ {w} PROVE AttachHolds(v)'
  BY <1>1 DEF AttachHolds, UploadInv, Storing
<1>4. OwnFiles'
  BY <1>1 DEF OwnFiles, LogoSteps, UploadInv, Storing
<1>5. Recorded'
  BY DEF Recorded, UploadInv, Storing
<1> QED BY <1>2, <1>3, <1>4, <1>5 DEF Storing

\* The same of the logo: the request is for it, or leaves it alone.
LEMMA TakingKeptBy ==
  ASSUME UploadInv, NEW w \in Workers, NEW q \in UploadRequest \cup {Nil},
         uploadReq' = [uploadReq EXCEPT ![w] = q], queued' = queued,
         uploadFaults' \in Nat, uploadFaults =< uploadFaults',
         uploadReq[w] = Nil /\ queued => \A v \in Workers : uploadReq[v] = Nil,
         q # Nil => LogoHolds(q),
         q # Nil /\ queued /\ uploadFaults' = 0 => LogoDone(q)'
  PROVE  Taking'
<1>1. uploadReq'[w] = q /\ \A v \in Workers \ {w} : uploadReq'[v] = uploadReq[v]
  BY DEF UploadInv, UploadTypeOK
<1>2. \A v \in Workers : uploadReq'[v] # Nil => LogoHolds(uploadReq'[v])
  BY <1>1 DEF UploadInv, Taking
<1>3. queued => \A v \in Workers \ {w} : uploadReq[v] = Nil
  BY DEF UploadInv, Taking
<1>4. queued => \A u, v \in Workers : u # v /\ uploadReq'[u] # Nil => uploadReq'[v] = Nil
  BY <1>1, <1>3
<1>5. queued /\ uploadFaults' = 0 => \A v \in Workers : uploadReq'[v] # Nil => LogoDone(uploadReq[v])'
  BY <1>1, <1>3 DEF LogoDone
<1> QED BY <1>2, <1>4, <1>5 DEF Taking, LogoHolds

LEMMA TakingEnds ==
  ASSUME UploadInv, NEW w \in Workers, uploadReq[w] # Nil, UploadEnds(w), queued' = queued,
         uploadFaults' \in Nat, uploadFaults =< uploadFaults'
  PROVE  Taking'
<1>1. uploadReq' = [uploadReq EXCEPT ![w] = Nil]
  BY DEF UploadEnds, Ended
<1>2. PICK q \in UploadRequest \cup {Nil} : q = Nil
  OBVIOUS
<1> QED BY <1>1, <1>2, TakingKeptBy

UploadTables == <<attached, disk, logoFile, logoSet, queued, uploads, uploadFaults, stops>>

LEMMA UploadFaultsGrow ==
  ASSUME UploadInv, UploadFails
  PROVE  uploadFaults' \in 0..MaxUploadFaults /\ uploadFaults < uploadFaults'
  BY UploadAssumption DEF UploadFails, UploadInv, UploadTypeOK

LEMMA UploadRequestNow ==
  ASSUME UploadInv, NEW w \in Workers, uploadReq[w] # Nil
  PROVE  /\ uploadReq[w] \in UploadRequest /\ AttachHolds(w) /\ LogoHolds(uploadReq[w])
         /\ queued /\ uploadFaults = 0 => LogoDone(uploadReq[w])
         /\ queued => \A v \in Workers \ {w} : uploadReq[v] = Nil
  BY DEF UploadInv, UploadTypeOK, Storing, Taking

LEMMA UploadBeginsKeeps ==
  ASSUME UploadInv, NEW w \in Workers, NEW q \in UploadRequest, UploadBegins(w, q),
         \/ q.step = "removepng" /\ LogoHolds(q)
         \/ q.step = "ticket" /\ q.ticket \in Tickets /\ q.file \in Files
  PROVE  UploadInv'
<1>1. UploadTypeOK'
  BY UploadAssumption DEF UploadBegins, UploadInv, UploadTypeOK
<1>2. Storing'
  BY StoringKeptBy DEF UploadBegins, LogoSteps
<1>3. uploadFaults' \in Nat /\ uploadFaults =< uploadFaults' /\ queued' = queued
  BY UploadAssumption DEF UploadBegins, UploadInv, UploadTypeOK
<1>4. LogoHolds(q) /\ LogoDone(q)'
  BY DEF LogoHolds, LogoDone, LogoSteps
<1>5. Taking'
  BY <1>3, <1>4, TakingKeptBy DEF UploadBegins
<1> QED BY <1>1, <1>2, <1>5 DEF UploadInv

LEMMA UploadArrivalsKeep ==
  ASSUME UploadInv, NEW w \in Workers,
         HandleUploadAttachment(w) \/ HandleUploadLogo(w) \/ HandleDeleteLogo(w)
  PROVE  UploadInv'
<1>1. CASE HandleUploadAttachment(w)
  <2>1. PICK t \in Tickets, f \in Files :
          UploadBegins(w, [op |-> "attach", step |-> "ticket", file |-> f, ticket |-> t, id |-> Nil])
    BY <1>1 DEF HandleUploadAttachment
  <2> DEFINE q == [op |-> "attach", step |-> "ticket", file |-> f, ticket |-> t, id |-> Nil]
  <2>2. q \in UploadRequest /\ q.step = "ticket" /\ q.ticket = t /\ q.file = f /\ UploadBegins(w, q)
    BY <2>1 DEF UploadRequest
  <2> HIDE DEF q
  <2> QED BY <2>2, UploadBeginsKeeps
<1>2. CASE HandleUploadLogo(w)
  <2>1. PICK f \in Files \ Broken :
          /\ FormatOf[f] # Nil
          /\ UploadBegins(w, [op |-> "logo", step |-> "removepng", file |-> f, ticket |-> Nil, id |-> Nil])
    BY <1>2 DEF HandleUploadLogo
  <2> DEFINE q == [op |-> "logo", step |-> "removepng", file |-> f, ticket |-> Nil, id |-> Nil]
  <2>2. q \in UploadRequest /\ q.step = "removepng" /\ q.op = "logo" /\ q.file = f /\ UploadBegins(w, q)
    BY <2>1 DEF UploadRequest
  <2> HIDE DEF q
  <2>3. LogoHolds(q)
    BY <2>1, <2>2, UploadAssumption DEF LogoHolds
  <2> QED BY <2>2, <2>3, UploadBeginsKeeps
<1>3. CASE HandleDeleteLogo(w)
  <2> DEFINE q == [op |-> "unlogo", step |-> "removepng", file |-> Nil, ticket |-> Nil, id |-> Nil]
  <2>1. q \in UploadRequest /\ q.step = "removepng" /\ q.op = "unlogo" /\ q.file = Nil /\ UploadBegins(w, q)
    BY <1>3 DEF UploadRequest, HandleDeleteLogo
  <2> HIDE DEF q
  <2>2. LogoHolds(q)
    BY <2>1 DEF LogoHolds
  <2> QED BY <2>1, <2>2, UploadBeginsKeeps
<1> QED BY <1>1, <1>2, <1>3

\* A request for an attachment goes on or ends.
LEMMA ExaminingKeeps ==
  ASSUME UploadInv, NEW w \in Workers, GetTicket(w) \/ ScanClamAV(w)
  PROVE  UploadInv'
<1> DEFINE r == uploadReq[w]
<1>1. r # Nil /\ r.step \in {"ticket", "scan"} /\ UNCHANGED UploadTables
  BY DEF GetTicket, ScanClamAV, UploadTables
<1>2. r \in UploadRequest /\ AttachHolds(w)
  BY <1>1, UploadRequestNow
<1>3. PICK q \in UploadRequest \cup {Nil} :
        /\ uploadReq' = [uploadReq EXCEPT ![w] = q]
        /\ q # Nil => /\ q.ticket = r.ticket /\ q.file = r.file /\ q.id = r.id
                      /\ \/ r.step = "ticket" /\ q.step = "scan" /\ q.file \notin Mistyped
                         \/ r.step = "scan" /\ q.step = "store" /\ q.file \notin Broken
  <2>1. CASE UploadEnds(w)
    BY <2>1 DEF UploadEnds, Ended
  <2>2. CASE r.step = "ticket" /\ MagicOK(r.file) /\ UploadGoes(w, "scan")
    <3> DEFINE q == [r EXCEPT !.step = "scan"]
    <3>1. q \in UploadRequest /\ q.step = "scan" /\ q.ticket = r.ticket /\ q.file = r.file /\ q.id = r.id
      BY <1>2 DEF UploadRequest
    <3>2. uploadReq' = [uploadReq EXCEPT ![w] = q]
      BY <2>2 DEF UploadGoes, GoesTo
    <3> HIDE DEF q
    <3> QED BY <2>2, <3>1, <3>2 DEF MagicOK
  <2>3. CASE r.step = "scan" /\ Decoded(r.file) /\ UploadGoes(w, "store")
    <3> DEFINE q == [r EXCEPT !.step = "store"]
    <3>1. q \in UploadRequest /\ q.step = "store" /\ q.ticket = r.ticket /\ q.file = r.file /\ q.id = r.id
      BY <1>2 DEF UploadRequest
    <3>2. uploadReq' = [uploadReq EXCEPT ![w] = q]
      BY <2>3 DEF UploadGoes, GoesTo
    <3> HIDE DEF q
    <3> QED BY <2>3, <3>1, <3>2 DEF Decoded
  <2> QED BY <2>1, <2>2, <2>3 DEF GetTicket, ScanClamAV
<1>4. UploadTypeOK'
  BY <1>1, <1>3 DEF UploadTables, UploadInv, UploadTypeOK
<1>5. Storing'
  BY <1>1, <1>3, StoringKeptBy DEF UploadTables
<1>6. uploadFaults' \in Nat /\ uploadFaults =< uploadFaults' /\ queued' = queued
  BY <1>1, UploadAssumption DEF UploadTables, UploadInv, UploadTypeOK
<1>7. q # Nil => LogoHolds(q) /\ LogoDone(q)'
  BY <1>3 DEF LogoHolds, LogoDone, LogoSteps
<1>8. Taking'
  BY <1>1, <1>3, <1>6, <1>7, TakingKeptBy
<1> QED BY <1>4, <1>5, <1>8 DEF UploadInv

\* An attachment is written, recorded or removed again.
LEMMA WriteAttachmentKeeps ==
  ASSUME UploadInv, NEW w \in Workers, WriteAttachment(w)
  PROVE  UploadInv'
<1> DEFINE r == uploadReq[w]
<1>1. r # Nil /\ r.step = "store" /\ r \in UploadRequest /\ r.file \in Files
      /\ r.ticket \in Tickets /\ r.file \notin Mistyped \cup Broken
      /\ UNCHANGED <<attached, logoFile, logoSet, queued, uploads, stops>>
  BY UploadRequestNow DEF WriteAttachment, AttachHolds
<1>2. PICK a \in Attachments :
        /\ disk[a] = Nil /\ attached[a] = Nil
        /\ \/ /\ disk' = [disk EXCEPT ![a] = r.file] /\ UNCHANGED uploadFaults
              /\ uploadReq' = [uploadReq EXCEPT ![w].step = "insert", ![w].id = a]
           \/ /\ UploadFails /\ AfterFailure(w, a)
              /\ \E left \in {Nil, Half} : disk' = [disk EXCEPT ![a] = left]
  BY DEF WriteAttachment
<1>3. disk' \in [Attachments -> OnDisk] /\ \A b \in Attachments \ {a} : disk'[b] = disk[b]
  BY <1>1, <1>2 DEF UploadInv, UploadTypeOK, OnDisk
<1>4. Recorded'
  BY <1>1, <1>2, <1>3 DEF Recorded, UploadInv, Storing
<1>5. PICK q \in UploadRequest \cup {Nil} :
        /\ uploadReq' = [uploadReq EXCEPT ![w] = q]
        /\ q # Nil => /\ q.step = "insert" /\ q.id = a /\ q.ticket = r.ticket /\ q.file = r.file
                      /\ disk'[a] = r.file /\ uploadFaults' = uploadFaults
        /\ uploadFaults' \in 0..MaxUploadFaults /\ uploadFaults =< uploadFaults'
  <2>1. uploadFaults \in 0..MaxUploadFaults /\ disk \in [Attachments -> OnDisk]
    BY DEF UploadInv, UploadTypeOK
  <2>2. CASE /\ disk' = [disk EXCEPT ![a] = r.file] /\ UNCHANGED uploadFaults
             /\ uploadReq' = [uploadReq EXCEPT ![w].step = "insert", ![w].id = a]
    <3> DEFINE q == [r EXCEPT !.step = "insert", !.id = a]
    <3>1. q \in UploadRequest /\ q.step = "insert" /\ q.id = a /\ q.ticket = r.ticket /\ q.file = r.file
      BY <1>1 DEF UploadRequest
    <3>2. uploadReq' = [uploadReq EXCEPT ![w] = q]
      BY <2>2
    <3>3. disk'[a] = r.file /\ uploadFaults' = uploadFaults /\ uploadFaults =< uploadFaults'
      BY <2>1, <2>2, UploadAssumption
    <3> HIDE DEF q
    <3> QED BY <2>1, <3>1, <3>2, <3>3
  <2>3. CASE UploadFails /\ AfterFailure(w, a)
    <3>1. uploadFaults' \in 0..MaxUploadFaults /\ uploadFaults =< uploadFaults'
      BY <2>1, <2>3, UploadFaultsGrow, UploadAssumption
    <3>2. uploadReq' = [uploadReq EXCEPT ![w] = Nil]
      BY <2>3 DEF AfterFailure, UploadEnds, Ended
    <3> QED BY <3>1, <3>2
  <2> QED BY <1>2, <2>2, <2>3
<1>6. uploadReq'[w] = q /\ \A v \in Workers \ {w} : uploadReq'[v] = uploadReq[v]
  BY <1>5 DEF UploadInv, UploadTypeOK
<1>7. UploadTypeOK'
  BY <1>1, <1>3, <1>5 DEF UploadInv, UploadTypeOK
<1>8. ASSUME NEW v \in Workers \ {w}, uploadReq[v] # Nil, uploadReq[v].step \in {"insert", "remove"}
      PROVE  uploadReq[v].id # a /\ uploadReq[v].id \in Attachments
  BY <1>2, <1>8, UploadNilAssumption DEF UploadInv, Storing, AttachHolds
<1>9. Storing'
  <2>1. AttachHolds(w)'
    BY <1>1, <1>2, <1>5, <1>6 DEF AttachHolds
  <2>2. ASSUME NEW v \in Workers \ {w} PROVE AttachHolds(v)'
    BY <1>1, <1>3, <1>6, <1>8 DEF AttachHolds, UploadInv, Storing
  <2>3. OwnFiles'
    BY <1>5, <1>6, <1>8 DEF OwnFiles, UploadInv, Storing
  <2> QED BY <1>4, <2>1, <2>2, <2>3 DEF Storing
<1>10. q # Nil => LogoHolds(q) /\ LogoDone(q)'
  BY <1>5 DEF LogoHolds, LogoDone, LogoSteps
<1>11. uploadFaults' \in Nat /\ queued' = queued
  BY <1>1, <1>5, UploadAssumption
<1>12. Taking'
  BY <1>1, <1>5, <1>10, <1>11, TakingKeptBy
<1> QED BY <1>7, <1>9, <1>12 DEF UploadInv

\* The request at its next step.
LEMMA UploadMoves ==
  ASSUME UploadInv, NEW w \in Workers, uploadReq[w] # Nil, NEW step,
         step \in {"remove", "removesvg", "write", "record", "done"}, UploadGoes(w, step)
  PROVE  \E q \in UploadRequest :
           /\ uploadReq' = [uploadReq EXCEPT ![w] = q] /\ q.step = step /\ q.op = uploadReq[w].op
           /\ q.ticket = uploadReq[w].ticket /\ q.file = uploadReq[w].file /\ q.id = uploadReq[w].id
<1> DEFINE r == uploadReq[w]
           p == [r EXCEPT !.step = step]
<1>1. r \in UploadRequest
  BY UploadRequestNow
<1>2. /\ p \in UploadRequest /\ p.step = step /\ p.op = r.op
      /\ p.ticket = r.ticket /\ p.file = r.file /\ p.id = r.id
  BY <1>1 DEF UploadRequest
<1>3. uploadReq' = [uploadReq EXCEPT ![w] = p]
  BY DEF UploadGoes, GoesTo
<1> HIDE DEF p
<1> QED BY <1>2, <1>3

LEMMA CreateAttachmentKeeps ==
  ASSUME UploadInv, NEW w \in Workers, CreateAttachment(w)
  PROVE  UploadInv'
<1> DEFINE r == uploadReq[w]
<1>1. /\ r # Nil /\ r.step = "insert" /\ r \in UploadRequest /\ r.file \in Files /\ r.ticket \in Tickets
      /\ r.file \notin Mistyped \cup Broken
      /\ r.id \in Attachments /\ disk[r.id] = r.file /\ attached[r.id] = Nil
      /\ UNCHANGED <<disk, logoFile, logoSet, queued, uploads, stops>>
  BY UploadRequestNow DEF CreateAttachment, AttachHolds
<1>2. uploadFaults \in 0..MaxUploadFaults /\ uploadFaults \in Nat
  BY UploadAssumption DEF UploadInv, UploadTypeOK
<1>3. CASE /\ attached' = [attached EXCEPT ![r.id] = [ticket |-> r.ticket, file |-> r.file]]
           /\ UploadEnds(w) /\ UNCHANGED uploadFaults
  <2>1. [ticket |-> r.ticket, file |-> r.file] \in AttachmentRow
    BY <1>1 DEF AttachmentRow
  <2>2. /\ attached' \in [Attachments -> AttachmentRow \cup {Nil}] /\ attached'[r.id].file = r.file
        /\ \A b \in Attachments \ {r.id} : attached'[b] = attached[b]
    BY <1>1, <1>3, <2>1 DEF UploadInv, UploadTypeOK
  <2>3. /\ uploadReq' = [uploadReq EXCEPT ![w] = Nil] /\ uploadReq'[w] = Nil
        /\ \A v \in Workers \ {w} : uploadReq'[v] = uploadReq[v]
    BY <1>3 DEF UploadEnds, Ended, UploadInv, UploadTypeOK
  <2>4. UploadTypeOK'
    BY <1>1, <1>3, <2>2, <2>3 DEF UploadInv, UploadTypeOK
  <2>5. Recorded'
    BY <1>1, <2>2 DEF Recorded, UploadInv, Storing
  <2>6. ASSUME NEW v \in Workers \ {w} PROVE AttachHolds(v)'
    BY <1>1, <2>2, <2>3 DEF AttachHolds, OwnFiles, UploadInv, Storing
  <2>7. OwnFiles'
    BY <2>3 DEF OwnFiles, UploadInv, Storing
  <2>8. Storing'
    BY <2>3, <2>5, <2>6, <2>7 DEF Storing, AttachHolds
  <2>9. Taking'
    BY <1>1, <1>2, <1>3, TakingEnds
  <2> QED BY <2>4, <2>8, <2>9 DEF UploadInv
<1>4. CASE UploadFails /\ UploadGoes(w, "remove") /\ UNCHANGED attached
  <2>1. PICK q \in UploadRequest :
          /\ uploadReq' = [uploadReq EXCEPT ![w] = q] /\ q.step = "remove"
          /\ q.ticket = r.ticket /\ q.file = r.file /\ q.id = r.id
    BY <1>1, <1>4, UploadMoves
  <2>2. UploadTypeOK'
    BY <1>1, <1>4, <2>1, UploadFaultsGrow DEF UploadInv, UploadTypeOK
  <2>3. Storing'
    BY <1>1, <1>4, <2>1, StoringKeptBy
  <2>4. uploadFaults' \in Nat /\ uploadFaults =< uploadFaults'
    BY <1>2, <1>4, UploadFaultsGrow, UploadAssumption
  <2>5. LogoHolds(q) /\ LogoDone(q)'
    BY <2>1 DEF LogoHolds, LogoDone, LogoSteps
  <2>6. Taking'
    BY <1>1, <2>1, <2>4, <2>5, TakingKeptBy
  <2> QED BY <2>2, <2>3, <2>6 DEF UploadInv
<1> QED BY <1>3, <1>4 DEF CreateAttachment

LEMMA RemoveAttachmentKeeps ==
  ASSUME UploadInv, NEW w \in Workers, RemoveAttachment(w)
  PROVE  UploadInv'
<1> DEFINE r == uploadReq[w]
<1>1. /\ r # Nil /\ r.step = "remove" /\ r.id \in Attachments /\ attached[r.id] = Nil
      /\ UNCHANGED <<attached, logoFile, logoSet, queued, uploads, stops>>
  BY UploadRequestNow DEF RemoveAttachment, AttachHolds
<1>2. /\ uploadReq' = [uploadReq EXCEPT ![w] = Nil] /\ uploadReq'[w] = Nil
      /\ \A v \in Workers \ {w} : uploadReq'[v] = uploadReq[v]
  BY DEF RemoveAttachment, UploadEnds, Ended, UploadInv, UploadTypeOK
<1>3. /\ disk' \in [Attachments -> OnDisk]
      /\ \A b \in Attachments \ {r.id} : disk'[b] = disk[b]
  BY <1>1 DEF RemoveAttachment, UploadInv, UploadTypeOK, OnDisk
<1>4. uploadFaults' \in 0..MaxUploadFaults /\ uploadFaults' \in Nat /\ uploadFaults =< uploadFaults'
  <2>1. uploadFaults \in 0..MaxUploadFaults
    BY DEF UploadInv, UploadTypeOK
  <2> QED BY <2>1, UploadFaultsGrow, UploadAssumption DEF RemoveAttachment
<1>5. UploadTypeOK'
  BY <1>1, <1>2, <1>3, <1>4 DEF UploadInv, UploadTypeOK
<1>6. Recorded'
  BY <1>1, <1>3 DEF Recorded, UploadInv, Storing
<1>7. ASSUME NEW v \in Workers \ {w} PROVE AttachHolds(v)'
  BY <1>1, <1>2, <1>3 DEF AttachHolds, OwnFiles, UploadInv, Storing
<1>8. OwnFiles'
  BY <1>2 DEF OwnFiles, UploadInv, Storing
<1>9. Storing'
  BY <1>2, <1>6, <1>7, <1>8 DEF Storing, AttachHolds
<1>10. Taking'
  BY <1>1, <1>4, TakingEnds DEF RemoveAttachment
<1> QED BY <1>5, <1>9, <1>10 DEF UploadInv

-----------------------------------------------------------------------------

\* A step on the logo: attachments and their files stay.
LEMMA LogoStepKeeps ==
  ASSUME UploadInv, NEW w \in Workers, NEW step \in {"removesvg", "write", "record", "done"},
         uploadReq[w] # Nil, UploadGoes(w, step),
         uploadReq[w].step \in LogoSteps, step = "write" => uploadReq[w].op = "logo",
         UNCHANGED <<attached, disk, queued, uploads, stops>>,
         logoFile' \in [Formats -> OnDisk], logoSet' \in BOOLEAN,
         uploadFaults' \in 0..MaxUploadFaults, uploadFaults =< uploadFaults',
         queued /\ uploadFaults' = 0 =>
           /\ step = "removesvg" => logoFile'["png"] = Nil
           /\ step = "write" => logoFile'["png"] = Nil /\ logoFile'["svg"] = Nil
           /\ step \in {"record", "done"} => Served' = uploadReq[w].file
  PROVE  UploadInv'
<1> DEFINE r == uploadReq[w]
<1>1. LogoHolds(r)
  BY UploadRequestNow
<1>2. PICK q \in UploadRequest :
        /\ uploadReq' = [uploadReq EXCEPT ![w] = q] /\ q.step = step /\ q.op = r.op /\ q.file = r.file
  BY UploadMoves
<1>3. UploadTypeOK'
  BY <1>2 DEF UploadInv, UploadTypeOK
<1>4. Storing'
  BY <1>2, StoringKeptBy DEF LogoSteps
<1>5. uploadFaults' \in Nat
  BY UploadAssumption
<1>6. LogoHolds(q)
  BY <1>1, <1>2, UploadNilAssumption DEF LogoHolds, LogoSteps
<1>7. queued /\ uploadFaults' = 0 => LogoDone(q)'
  BY <1>2 DEF LogoDone
<1>8. Taking'
  BY <1>2, <1>5, <1>6, <1>7, TakingKeptBy
<1> QED BY <1>3, <1>4, <1>8 DEF UploadInv

\* A request for the logo ends.
LEMMA LogoEndKeeps ==
  ASSUME UploadInv, NEW w \in Workers, uploadReq[w] # Nil, UploadEnds(w),
         UNCHANGED <<attached, disk, queued, uploads, stops>>,
         logoFile' \in [Formats -> OnDisk], logoSet' \in BOOLEAN,
         uploadFaults' \in 0..MaxUploadFaults, uploadFaults =< uploadFaults'
  PROVE  UploadInv'
<1>1. uploadReq' = [uploadReq EXCEPT ![w] = Nil]
  BY DEF UploadEnds, Ended
<1>2. UploadTypeOK'
  BY <1>1 DEF UploadInv, UploadTypeOK
<1>3. PICK q \in UploadRequest \cup {Nil} : q = Nil
  OBVIOUS
<1>4. Storing'
  BY <1>1, <1>3, StoringKeptBy
<1>5. Taking'
  BY UploadAssumption, TakingEnds
<1> QED BY <1>2, <1>4, <1>5 DEF UploadInv

LEMMA DeleteLogoFileKeeps ==
  ASSUME UploadInv, NEW w \in Workers, NEW x \in Formats, DeleteLogoFile(w, x)
  PROVE  UploadInv'
<1> DEFINE r == uploadReq[w]
           step == IF x = "png" THEN "removesvg" ELSE IF r.op = "logo" THEN "write" ELSE "record"
<1>1. /\ r # Nil /\ r.step = (IF x = "png" THEN "removepng" ELSE "removesvg") /\ UploadGoes(w, step)
      /\ UNCHANGED <<attached, disk, logoSet, queued, uploads, stops>>
      /\ \/ logoFile' = [logoFile EXCEPT ![x] = Nil] /\ UNCHANGED uploadFaults
         \/ UploadFails /\ UNCHANGED logoFile
  BY DEF DeleteLogoFile
<1>2. LogoHolds(r) /\ (queued /\ uploadFaults = 0 => LogoDone(r))
  BY <1>1, UploadRequestNow
<1>3. /\ uploadFaults \in 0..MaxUploadFaults /\ uploadFaults \in Nat
      /\ logoFile \in [Formats -> OnDisk] /\ logoSet' \in BOOLEAN
  BY <1>1, UploadAssumption DEF UploadInv, UploadTypeOK
<1>4. logoFile' \in [Formats -> OnDisk]
  BY <1>1, <1>3 DEF OnDisk
<1>5. uploadFaults' \in 0..MaxUploadFaults /\ uploadFaults =< uploadFaults'
  BY <1>1, <1>3, UploadFaultsGrow
<1>6. ASSUME queued, uploadFaults' = 0
      PROVE  /\ logoFile' = [logoFile EXCEPT ![x] = Nil]
             /\ r.step = "removesvg" => logoFile["png"] = Nil
  BY <1>1, <1>2, <1>3, <1>6, UploadFaultsGrow DEF LogoDone
<1>7. x \in {"png", "svg"}
  BY DEF Formats
<1>8. step \in {"removesvg", "write", "record"} /\ (step = "write" => r.op = "logo")
  OBVIOUS
<1>9. ASSUME queued, uploadFaults' = 0
      PROVE  /\ step = "removesvg" => logoFile'["png"] = Nil
             /\ step = "write" => logoFile'["png"] = Nil /\ logoFile'["svg"] = Nil
             /\ step = "record" => Served' = r.file
  <2>1. CASE x = "png"
    BY <1>3, <1>6, <1>9, <2>1 DEF Formats
  <2>2. CASE x = "svg"
    <3>1. logoFile'["png"] = Nil /\ logoFile'["svg"] = Nil
      BY <1>1, <1>3, <1>6, <1>9, <2>2 DEF Formats
    <3>2. step = "record" => r.file = Nil
      BY <1>1, <1>2, <2>2 DEF LogoHolds, LogoSteps
    <3> QED BY <2>2, <3>1, <3>2 DEF Served
  <2> QED BY <1>7, <2>1, <2>2
<1>10. r.step \in LogoSteps
  BY <1>1, <1>7 DEF LogoSteps
<1> HIDE DEF step
<1> QED BY <1>1, <1>3, <1>4, <1>5, <1>8, <1>9, <1>10, LogoStepKeeps

LEMMA WriteLogoKeeps ==
  ASSUME UploadInv, NEW w \in Workers, WriteLogo(w)
  PROVE  UploadInv'
<1> DEFINE r == uploadReq[w]
           x == FormatOf[r.file]
<1>1. /\ r # Nil /\ r.step = "write" /\ UNCHANGED <<attached, disk, logoSet, queued, uploads, stops>>
      /\ \/ logoFile' = [logoFile EXCEPT ![x] = r.file] /\ UploadGoes(w, "record") /\ UNCHANGED uploadFaults
         \/ /\ UploadFails /\ UploadEnds(w)
            /\ \E left \in {logoFile[x], Half} : logoFile' = [logoFile EXCEPT ![x] = left]
  BY DEF WriteLogo
<1>2. /\ r.file \in Files /\ x \in Formats /\ r.file # Nil
      /\ queued /\ uploadFaults = 0 => logoFile["png"] = Nil /\ logoFile["svg"] = Nil
  BY <1>1, UploadRequestNow, UploadNilAssumption DEF LogoHolds, LogoDone, LogoSteps
<1>3. /\ uploadFaults \in 0..MaxUploadFaults /\ uploadFaults \in Nat
      /\ logoFile \in [Formats -> OnDisk] /\ logoSet' \in BOOLEAN
  BY <1>1, UploadAssumption DEF UploadInv, UploadTypeOK
<1>4. logoFile' \in [Formats -> OnDisk]
  BY <1>1, <1>2, <1>3 DEF OnDisk
<1>5. CASE /\ logoFile' = [logoFile EXCEPT ![x] = r.file]
           /\ UploadGoes(w, "record") /\ UNCHANGED uploadFaults
  <2>1. queued /\ uploadFaults' = 0 => Served' = r.file
    BY <1>2, <1>3, <1>5 DEF Served, Formats
  <2>2. r.step \in LogoSteps
    BY <1>1 DEF LogoSteps
  <2> QED BY <1>1, <1>3, <1>4, <1>5, <2>1, <2>2, LogoStepKeeps
<1>6. CASE UploadFails /\ UploadEnds(w)
  BY <1>1, <1>3, <1>4, <1>6, UploadFaultsGrow, LogoEndKeeps
<1> QED BY <1>1, <1>5, <1>6

LEMMA SetLogoURLKeeps ==
  ASSUME UploadInv, NEW w \in Workers, SetLogoURL(w) \/ LogoAnswered(w)
  PROVE  UploadInv'
<1> DEFINE r == uploadReq[w]
<1>1. /\ r # Nil /\ r.step \in {"record", "done"}
      /\ UNCHANGED <<attached, disk, logoFile, queued, uploads, stops>>
  BY DEF SetLogoURL, LogoAnswered
<1>2. queued /\ uploadFaults = 0 => Served = r.file
  BY <1>1, UploadRequestNow DEF LogoDone
<1>3. /\ uploadFaults \in 0..MaxUploadFaults /\ uploadFaults \in Nat
      /\ logoFile' \in [Formats -> OnDisk] /\ logoSet \in BOOLEAN
  BY <1>1, UploadAssumption DEF UploadInv, UploadTypeOK
<1>4. logoSet' \in BOOLEAN
  BY <1>3 DEF SetLogoURL, LogoAnswered
<1>5. uploadFaults' \in 0..MaxUploadFaults /\ uploadFaults =< uploadFaults'
  BY <1>3, UploadFaultsGrow DEF SetLogoURL, LogoAnswered
<1>6. CASE UploadGoes(w, "done") /\ UNCHANGED uploadFaults
  <2>1. queued /\ uploadFaults' = 0 => Served' = r.file
    BY <1>1, <1>2, <1>6 DEF Served
  <2>2. r.step \in LogoSteps
    BY <1>1 DEF LogoSteps
  <2> QED BY <1>1, <1>3, <1>4, <1>5, <1>6, <2>1, <2>2, LogoStepKeeps
<1>7. CASE UploadEnds(w)
  BY <1>1, <1>3, <1>4, <1>5, <1>7, LogoEndKeeps
<1> QED BY <1>6, <1>7 DEF SetLogoURL, LogoAnswered

LEMMA StopKeeps ==
  ASSUME UploadInv, Stop
  PROVE  UploadInv'
<1>1. UploadTypeOK'
  BY UploadAssumption DEF Stop, UploadInv, UploadTypeOK
<1>2. \A w \in Workers : uploadReq'[w] = Nil
  BY DEF Stop
<1>3. Recorded'
  BY DEF Stop, UploadInv, Storing, Recorded
<1> QED BY <1>1, <1>2, <1>3 DEF UploadInv, Storing, Taking, AttachHolds, OwnFiles

LEMMA UploadInductive ==
  ASSUME UploadInv, [UploadNext]_uploadVars
  PROVE  UploadInv'
<1>1. CASE UNCHANGED uploadVars
  BY <1>1 DEF uploadVars, UploadInv, UploadTypeOK, Storing, Taking, AttachHolds, OwnFiles, Recorded,
     LogoDone, Served
<1>2. CASE UploadNext
  BY <1>1, <1>2, UploadArrivalsKeep, ExaminingKeeps, WriteAttachmentKeeps, CreateAttachmentKeeps,
     RemoveAttachmentKeeps, DeleteLogoFileKeeps, WriteLogoKeeps, SetLogoURLKeeps, StopKeeps
     DEF UploadNext, UploadExhausted
<1> QED BY <1>1, <1>2

LEMMA UploadInvariant == UploadSpec => []UploadInv
  BY UploadInitial, UploadInductive, PTL DEF UploadSpec

\* The files, the rows and the requests that are under way have their types.
THEOREM UploadTypes == UploadSpec => []UploadTypeOK
  BY UploadInvariant, PTL DEF UploadInv

\* What the database says was uploaded is on disk, for any number of uploads, failures
\* and stops.  (handleUploadAttachment, handleUploadLogo, handleDeleteLogo)
THEOREM RecordsAreOnDisk == UploadSpec => []RecordedIsOnDisk
<1>1. ASSUME UploadInv PROVE RecordedIsOnDisk
  <2>1. ASSUME NEW a \in Attachments, attached[a] # Nil
        PROVE  /\ Downloaded(attached[a].ticket, a) = attached[a].file
               /\ attached[a].file \notin Mistyped \cup Broken
    BY <1>1, <2>1 DEF UploadInv, Storing, Recorded, Downloaded
  <2>2. ASSUME queued, uploadFaults = 0, NEW w \in Workers, uploadReq[w] # Nil, uploadReq[w].step = "done"
        PROVE  Served = uploadReq[w].file
    BY <1>1, <2>2, UploadRequestNow DEF LogoDone
  <2> QED BY <2>1, <2>2 DEF RecordedIsOnDisk
<1> QED BY <1>1, UploadInvariant, PTL

-----------------------------------------------------------------------------
(* Identity providers.                                                     *)

\* The sequence of keys a request is going through.
KeysFor(r) == IF r.step = "fill" THEN KeptOf[r.provider] ELSE KeysOf[r.provider]

\* What a request has met and holds as blank keeps its provider from being in place.
Needed(p) == IF p = "saml" THEN Elements(KeysOf.saml) ELSE {"enabled"}

IdPHolds(w) ==
  LET r == idpReq[w] IN
  r # Nil =>
    /\ r.step = "raw" => r.raw \in RawSettings /\ r.left \subseteq DOMAIN r.raw /\ r.provider = Nil
    /\ r.step # "raw" => r.provider \in Providers
    /\ r.step \in {"fill", "save", "reload"} => r.at =< Len(KeysFor(r))
    /\ r.step = "reload" => \A i \in 1..r.at - 1 :
         KeysOf[r.provider][i] \in Needed(r.provider) /\ r.held[KeysOf[r.provider][i]] = Blank => gap[w]
    /\ r.step = "load" => (Unloads(r.provider, r.held) => gap[w])

IdPInv == IdPTypeOK /\ \A w \in Workers : IdPHolds(w)

LEMMA IdPKeys ==
  /\ Keys = {"url", "cert", "privateKey", "enabled", "issuer", "client", "secret"}
  /\ \A p \in Providers :
       /\ Len(KeysOf[p]) \in 1..4 /\ Len(KeptOf[p]) \in 1..4
       /\ Elements(KeysOf[p]) \subseteq Keys /\ Elements(KeptOf[p]) \subseteq Elements(KeysOf[p])
       /\ \A i \in 1..Len(KeysOf[p]) : KeysOf[p][i] \in Elements(KeysOf[p])
       /\ \A i \in 1..Len(KeptOf[p]) : KeptOf[p][i] \in Keys
       /\ \A k \in Elements(KeysOf[p]) : \E i \in 1..Len(KeysOf[p]) : k = KeysOf[p][i]
       /\ \A i, j \in 1..Len(KeysOf[p]) : KeysOf[p][i] = KeysOf[p][j] => i = j
       /\ Needed(p) \subseteq Elements(KeysOf[p])
<1>1. /\ Elements(KeysOf.saml) = {"url", "cert", "privateKey"}
      /\ Elements(KeysOf.oidc) = {"enabled", "issuer", "client", "secret"}
      /\ Elements(KeptOf.saml) = {"url", "cert", "privateKey"}
      /\ Elements(KeptOf.oidc) = {"secret"}
  <2>1. 1..3 = {1, 2, 3} /\ 1..4 = {1, 2, 3, 4} /\ 1..1 = {1}
    OBVIOUS
  <2> QED BY <2>1 DEF Elements, KeysOf, KeptOf
<1>2. Keys = {"url", "cert", "privateKey", "enabled", "issuer", "client", "secret"}
  BY <1>1 DEF Keys
<1>3. ASSUME NEW p \in Providers
      PROVE  /\ Len(KeysOf[p]) \in 1..4 /\ Len(KeptOf[p]) \in 1..4
             /\ \A i, j \in 1..Len(KeysOf[p]) : KeysOf[p][i] = KeysOf[p][j] => i = j
  <2>1. CASE p = "saml"
    BY <2>1 DEF KeysOf, KeptOf
  <2>2. CASE p = "oidc"
    BY <2>2 DEF KeysOf, KeptOf
  <2> QED BY <2>1, <2>2 DEF Providers
<1>4. ASSUME NEW p \in Providers
      PROVE  /\ Elements(KeysOf[p]) \subseteq Keys /\ Elements(KeptOf[p]) \subseteq Elements(KeysOf[p])
             /\ Needed(p) \subseteq Elements(KeysOf[p])
  <2>1. CASE p = "saml"
    BY <1>1, <1>2, <2>1 DEF Needed
  <2>2. CASE p = "oidc"
    BY <1>1, <1>2, <2>2 DEF Needed
  <2> QED BY <2>1, <2>2 DEF Providers
<1>5. ASSUME NEW s
      PROVE  /\ \A i \in 1..Len(s) : s[i] \in Elements(s)
             /\ \A k \in Elements(s) : \E i \in 1..Len(s) : k = s[i]
  BY DEF Elements
<1> QED BY <1>2, <1>3, <1>4, <1>5

\* How the observer moves with every step.
GapMoves == gap' = [w \in Workers |-> Lacking(w)]

LEMMA GapStays ==
  ASSUME IdPInv, GapMoves, NEW w \in Workers, idpReq'[w] # Nil, idpReq'[w].provider # Nil, gap[w]
  PROVE  gap'[w]
BY DEF GapMoves, Lacking

\* A step that touches the request of one worker.
LEMMA OneRequestMoves ==
  ASSUME IdPInv, GapMoves, NEW w \in Workers, NEW q \in IdPRequest \cup {Nil},
         idpReq' = [idpReq EXCEPT ![w] = q],
         setting' \in Config, loaded' \in [Providers -> Config \cup {Nil}], inTurn' = inTurn,
         idpCount' \in 0..MaxIdPRequests, idpFaults' \in 0..MaxIdPFaults, idpRestarts' = idpRestarts,
         IdPHolds(w)'
  PROVE  IdPInv'
<1>1. \A v \in Workers : idpReq'[v] = IF v = w THEN q ELSE idpReq[v]
  BY DEF IdPInv, IdPTypeOK
<1>2. gap' \in [Workers -> BOOLEAN]
  BY DEF GapMoves, Lacking
<1>3. IdPTypeOK'
  BY <1>2 DEF IdPInv, IdPTypeOK
<1>4. ASSUME NEW v \in Workers, v # w PROVE IdPHolds(v)'
  <2>1. idpReq'[v] = idpReq[v] /\ IdPHolds(v)
    BY <1>1, <1>4 DEF IdPInv
  <2>2. idpReq[v] # Nil /\ idpReq[v].provider # Nil /\ gap[v] => gap'[v]
    BY <2>1, GapStays
  <2>3. idpReq[v] # Nil /\ idpReq[v].step # "raw" => idpReq[v].provider \in Providers /\ Nil \notin Providers
    BY <2>1, IdPNilAssumption DEF IdPHolds
  <2> QED BY <2>1, <2>2, <2>3 DEF IdPHolds, KeysFor
<1> QED BY <1>3, <1>4 DEF IdPInv

LEMMA IdPNext1 ==
  ASSUME IdPInv, GapMoves, NEW w \in Workers, NEW q \in IdPRequest, idpReq'[w] = q,
         q.step # "raw" => q.provider \in Providers,
         q.step = "raw" => q.raw \in RawSettings /\ q.left \subseteq DOMAIN q.raw /\ q.provider = Nil,
         q.step \in {"fill", "save", "reload"} => q.at =< Len(KeysFor(q)),
         q.step = "reload" => \A i \in 1..q.at - 1 :
           KeysOf[q.provider][i] \in Needed(q.provider) /\ q.held[KeysOf[q.provider][i]] = Blank => gap'[w],
         q.step = "load" => (Unloads(q.provider, q.held) => gap'[w])
  PROVE  IdPHolds(w)'
BY DEF IdPHolds, KeysFor

LEMMA Indices ==
  ASSUME NEW m \in 1..4, NEW n \in 1..4
  PROVE  /\ 1 \in 1..4 /\ 1 =< n
         /\ (m =< n /\ m # n) \/ m < n => m + 1 \in 1..4 /\ m + 1 =< n
OBVIOUS

LEMMA IdPArrives ==
  ASSUME IdPInv, GapMoves, NEW w \in Workers, HandleSaveConfig(w) \/ HandleUpdateSettings(w)
  PROVE  IdPInv'
<1>0. /\ IdPTypeOK /\ Unset \in Config /\ idpCount' \in 0..MaxIdPRequests
      /\ 1 \in 1..4 /\ {} \in SUBSET Keys
  <2>1. IdPTypeOK /\ idpCount < MaxIdPRequests /\ idpCount' = idpCount + 1
    BY DEF IdPInv, HandleSaveConfig, HandleUpdateSettings, IdPBegins
  <2>2. Unset \in Config
    BY DEF Config, Unset
  <2> QED BY <2>1, <2>2, IdPAssumption DEF IdPTypeOK
<1>1. CASE HandleSaveConfig(w)
  <2>0. PICK p \in Providers : \E c \in Sent[p] :
          IdPBegins(w, [IdPBlank EXCEPT !.provider = p, !.step = "fill", !.sent = c])
    BY <1>1 DEF HandleSaveConfig
  <2>1. PICK c \in Sent[p] : IdPBegins(w, [IdPBlank EXCEPT !.provider = p, !.step = "fill", !.sent = c])
    BY <2>0
  <2> DEFINE q == [IdPBlank EXCEPT !.provider = p, !.step = "fill", !.sent = c]
  <2>2. /\ q \in IdPRequest /\ q.step = "fill" /\ q.provider = p /\ q.at = 1
    <3>1. c \in Config
      BY IdPAssumption
    <3>2. IdPBlank \in IdPRequest /\ IdPBlank.at = 1
      BY <1>0 DEF IdPRequest, IdPBlank
    <3> QED BY <3>1, <3>2 DEF IdPRequest
  <2> HIDE DEF q
  <2>3. q.at =< Len(KeysFor(q))
    <3>1. KeysFor(q) = KeptOf[p] /\ Len(KeptOf[p]) \in 1..4
      BY <2>2, IdPKeys DEF KeysFor
    <3> QED BY <2>2, <3>1, Indices, Zenon
  <2>4. idpReq' = [idpReq EXCEPT ![w] = q] /\ UNCHANGED <<setting, loaded, inTurn, idpFaults, idpRestarts>>
    BY <2>1 DEF IdPBegins, q
  <2>5. idpReq'[w] = q
    BY <1>0, <2>4 DEF IdPTypeOK
  <2>6. IdPHolds(w)'
    BY <2>2, <2>3, <2>5, IdPNext1
  <2> QED BY <1>0, <2>2, <2>4, <2>6, OneRequestMoves DEF IdPTypeOK
<1>2. CASE HandleUpdateSettings(w)
  <2>1. PICK b \in RawSettings : IdPBegins(w, [IdPBlank EXCEPT !.raw = b, !.left = DOMAIN b])
    BY <1>2 DEF HandleUpdateSettings
  <2> DEFINE q == [IdPBlank EXCEPT !.raw = b, !.left = DOMAIN b]
  <2>2. /\ q \in IdPRequest /\ q.step = "raw" /\ q.provider = Nil /\ q.raw = b /\ q.left = DOMAIN b
    <3>1. DOMAIN b \subseteq Keys
      BY IdPAssumption
    <3>2. IdPBlank \in IdPRequest /\ IdPBlank.step = "raw" /\ IdPBlank.provider = Nil
      BY <1>0 DEF IdPRequest, IdPBlank
    <3> QED BY <3>1, <3>2 DEF IdPRequest
  <2> HIDE DEF q
  <2>4. idpReq' = [idpReq EXCEPT ![w] = q] /\ UNCHANGED <<setting, loaded, inTurn, idpFaults, idpRestarts>>
    BY <2>1 DEF IdPBegins, q
  <2>5. idpReq'[w] = q
    BY <1>0, <2>4 DEF IdPTypeOK
  <2>6. IdPHolds(w)'
    BY <2>2, <2>5, IdPNext1
  <2> QED BY <1>0, <2>2, <2>4, <2>6, OneRequestMoves DEF IdPTypeOK
<1> QED BY <1>1, <1>2

\* A request that ends, with an answer or with an error.
LEMMA IdPEnds ==
  ASSUME IdPInv, GapMoves, NEW w \in Workers, Ends(w),
         setting' = setting, loaded' = loaded, inTurn' = inTurn, idpCount' = idpCount,
         idpFaults' \in 0..MaxIdPFaults, idpRestarts' = idpRestarts
  PROVE  IdPInv'
<1>1. IdPTypeOK /\ idpReq' = [idpReq EXCEPT ![w] = Nil]
  BY DEF IdPInv, Ends, Ended
<1>2. IdPHolds(w)'
  BY <1>1 DEF IdPTypeOK, IdPHolds
<1> QED BY <1>1, <1>2, OneRequestMoves DEF IdPTypeOK

LEMMA FaultCount ==
  ASSUME IdPTypeOK, Fails
  PROVE  idpFaults' \in 0..MaxIdPFaults /\ idpFaults' # idpFaults
BY IdPAssumption DEF IdPTypeOK, Fails

\* What is read when a needed key is blank, or its read fails, shows in the observer.
LEMMA BlankIsSeen ==
  ASSUME IdPInv, GapMoves, NEW w \in Workers, idpReq'[w] # Nil, NEW p \in Providers,
         idpReq'[w].provider = p, setting' = setting,
         NEW k \in Needed(p), setting[k] = Blank \/ idpFaults' # idpFaults
  PROVE  gap'[w]
<1>1. p # Nil
  BY IdPNilAssumption
<1>2. CASE idpFaults' # idpFaults
  BY <1>1, <1>2 DEF GapMoves, Lacking
<1>3. CASE setting[k] = Blank
  <2>1. CASE p = "saml"
    BY <1>1, <1>3, <2>1 DEF GapMoves, Lacking, Complete, Needed
  <2>2. CASE p = "oidc"
    BY <1>1, <1>3, <2>2 DEF GapMoves, Lacking, Needed
  <2> QED BY <2>1, <2>2 DEF Providers
<1> QED BY <1>2, <1>3

LEMMA NextKey ==
  ASSUME NEW r, r.provider \in Providers, r.at \in 1..4, r.at =< Len(KeysFor(r))
  PROVE  KeysFor(r)[r.at] \in Keys
<1>1. CASE r.step = "fill"
  <2>1. KeysFor(r) = KeptOf[r.provider] /\ Len(KeptOf[r.provider]) \in 1..4
    BY <1>1, IdPKeys DEF KeysFor
  <2>2. r.at \in 1..Len(KeptOf[r.provider])
    BY <2>1
  <2> QED BY <2>1, <2>2, IdPKeys
<1>2. CASE r.step # "fill"
  <2>1. KeysFor(r) = KeysOf[r.provider] /\ Len(KeysOf[r.provider]) \in 1..4
    BY <1>2, IdPKeys DEF KeysFor
  <2>2. r.at \in 1..Len(KeysOf[r.provider])
    BY <2>1
  <2> QED BY <2>1, <2>2, IdPKeys
<1> QED BY <1>1, <1>2

LEMMA ReadSettingKeeps ==
  ASSUME IdPInv, GapMoves, NEW w \in Workers, ReadSetting(w)
  PROVE  IdPInv'
<1> DEFINE r == idpReq[w]
           key == KeysFor(r)[r.at]
<1>1. /\ IdPTypeOK /\ r \in IdPRequest /\ r # Nil /\ r.step \in {"fill", "reload"} /\ IdPHolds(w)
      /\ UNCHANGED <<setting, loaded, inTurn, idpCount, idpRestarts>>
  BY DEF IdPInv, IdPTypeOK, ReadSetting
<1>2. r.provider \in Providers /\ r.at \in 1..4 /\ r.at =< Len(KeysFor(r))
  BY <1>1 DEF IdPHolds, IdPRequest
<1>3. PICK v \in {setting[key], Blank} :
        /\ v = setting[key] \/ idpFaults' # idpFaults
        /\ idpFaults' \in 0..MaxIdPFaults
        /\ LET c == [r.held EXCEPT ![key] = v]
               new == Filled(r.provider, r.sent, c)
           IN IF r.at # Len(KeysFor(r)) THEN idpReq' = [idpReq EXCEPT ![w].held = c, ![w].at = @ + 1]
              ELSE IF r.step = "reload" THEN idpReq' = [idpReq EXCEPT ![w].held = c, ![w].step = "load"]
              ELSE IF Savable(r.provider, new)
                   THEN idpReq' = [idpReq EXCEPT ![w].held = new, ![w].step = "save", ![w].at = 1]
                   ELSE Ends(w)
  BY <1>1, FaultCount DEF ReadSetting, KeysFor, IdPTypeOK
<1> DEFINE c == [r.held EXCEPT ![key] = v]
           new == Filled(r.provider, r.sent, c)
<1>4. key \in Keys /\ v \in Configs \cup {Blank}
  <2>1. key \in Keys
    BY <1>2, NextKey
  <2> QED BY <1>1, <2>1 DEF IdPTypeOK, Config
<1>5. c \in Config
  BY <1>1, <1>4 DEF IdPRequest, Config
<1>6. new \in Config
  BY <1>1, <1>5 DEF Filled, IdPRequest, Config
<1>7. ASSUME r.step = "reload"
      PROVE  \A i \in 1..r.at : KeysOf[r.provider][i] \in Needed(r.provider)
               /\ c[KeysOf[r.provider][i]] = Blank /\ idpReq'[w] # Nil
               /\ idpReq'[w].provider = r.provider => gap'[w]
  <2> SUFFICES ASSUME NEW i \in 1..r.at, KeysOf[r.provider][i] \in Needed(r.provider),
                      c[KeysOf[r.provider][i]] = Blank, idpReq'[w] # Nil,
                      idpReq'[w].provider = r.provider
               PROVE  gap'[w]
    OBVIOUS
  <2>1. CASE i = r.at
    <3>1. key = KeysOf[r.provider][i] /\ key \in Needed(r.provider)
      BY <1>7, <2>1 DEF KeysFor
    <3>2. v = Blank
      BY <1>1, <1>4, <3>1 DEF IdPRequest, Config
    <3> QED BY <1>1, <1>2, <1>3, <3>1, <3>2, BlankIsSeen
  <2>2. CASE i # r.at
    <3>1. i \in 1..r.at - 1 /\ i \in 1..Len(KeysOf[r.provider]) /\ r.at \in 1..Len(KeysOf[r.provider])
      BY <1>2, <1>7, <2>2, IdPKeys DEF KeysFor
    <3>2. KeysOf[r.provider][i] # key
      BY <1>2, <1>7, <2>2, <3>1, IdPKeys DEF KeysFor
    <3>3. r.held[KeysOf[r.provider][i]] = Blank
      <4>1. KeysOf[r.provider][i] \in Keys
        BY <1>2, <3>1, IdPKeys
      <4> HIDE DEF key
      <4> QED BY <1>1, <3>2, <4>1 DEF IdPRequest, Config
    <3>4. gap[w]
      BY <1>1, <1>7, <3>1, <3>3 DEF IdPHolds
    <3> QED BY <1>2, <3>4, GapStays, IdPNilAssumption
  <2> QED BY <2>1, <2>2
<1> HIDE DEF key, c, new
<1>8. CASE r.at # Len(KeysFor(r))
  <2> DEFINE q == [r EXCEPT !.held = c, !.at = @ + 1]
  <2>1. idpReq' = [idpReq EXCEPT ![w] = q] /\ idpReq'[w] = q
    BY <1>1, <1>3, <1>8 DEF IdPTypeOK, c, key
  <2>2. Len(KeysFor(r)) \in 1..4
    BY <1>2, IdPKeys DEF KeysFor
  <2>3. /\ q \in IdPRequest /\ q.provider = r.provider /\ q.step = r.step /\ q.held = c
        /\ q.at = r.at + 1 /\ q.at =< Len(KeysFor(r))
    <3>1. r.at + 1 \in 1..4 /\ r.at + 1 =< Len(KeysFor(r))
      <4> HIDE DEF r
      <4> QED BY <1>2, <1>8, <2>2, Indices, Zenon
    <3> QED BY <1>1, <1>5, <3>1 DEF IdPRequest
  <2> HIDE DEF q
  <2>4. KeysFor(q) = KeysFor(r) /\ q # Nil
    BY <2>3, IdPNilAssumption DEF KeysFor
  <2>5. q.step = "reload" => \A i \in 1..q.at - 1 :
          KeysOf[q.provider][i] \in Needed(q.provider) /\ q.held[KeysOf[q.provider][i]] = Blank => gap'[w]
    BY <1>2, <1>7, <2>1, <2>3, <2>4
  <2>6. IdPHolds(w)'
    BY <1>1, <1>2, <2>1, <2>3, <2>4, <2>5, IdPNext1
  <2> QED BY <1>1, <1>3, <2>1, <2>3, <2>6, OneRequestMoves DEF IdPTypeOK
<1>9. CASE r.at = Len(KeysFor(r)) /\ r.step = "reload"
  <2> DEFINE q == [r EXCEPT !.held = c, !.step = "load"]
  <2>1. idpReq' = [idpReq EXCEPT ![w] = q] /\ idpReq'[w] = q
    BY <1>1, <1>3, <1>9 DEF IdPTypeOK, c, key
  <2>2. /\ q \in IdPRequest /\ q.provider = r.provider /\ q.step = "load" /\ q.held = c
    BY <1>1, <1>5 DEF IdPRequest
  <2> HIDE DEF q
  <2>3. q # Nil
    BY <2>2, IdPNilAssumption
  <2>4. ASSUME Unloads(r.provider, c) PROVE gap'[w]
    <3>1. PICK x \in Needed(r.provider) : c[x] = Blank
      <4>1. CASE r.provider = "saml"
        BY <2>4, <4>1 DEF Unloads, Complete, Needed
      <4>2. CASE r.provider = "oidc"
        BY <2>4, <4>2 DEF Unloads, Needed
      <4> QED BY <1>2, <4>1, <4>2 DEF Providers
    <3>2. PICK i \in 1..Len(KeysOf[r.provider]) : x = KeysOf[r.provider][i]
      BY <1>2, IdPKeys
    <3>3. i \in 1..r.at
      BY <1>2, <1>9, <3>2 DEF KeysFor
    <3> QED BY <1>7, <1>9, <2>1, <2>2, <2>3, <3>1, <3>2, <3>3
  <2>5. IdPHolds(w)'
    BY <1>1, <1>2, <2>1, <2>2, <2>4, IdPNext1
  <2> QED BY <1>1, <1>3, <2>1, <2>2, <2>5, OneRequestMoves DEF IdPTypeOK
<1>10. CASE r.at = Len(KeysFor(r)) /\ r.step = "fill" /\ Savable(r.provider, new)
  <2> DEFINE q == [r EXCEPT !.held = new, !.step = "save", !.at = 1]
  <2>1. idpReq' = [idpReq EXCEPT ![w] = q] /\ idpReq'[w] = q
    BY <1>1, <1>3, <1>10 DEF IdPTypeOK, c, key, new
  <2>2. /\ q \in IdPRequest /\ q.provider = r.provider /\ q.step = "save" /\ q.at = 1
    <3>1. 1 \in 1..4
      OBVIOUS
    <3> QED BY <1>1, <1>6, <3>1 DEF IdPRequest
  <2> HIDE DEF q
  <2>3. q.at =< Len(KeysFor(q))
    <3>1. KeysFor(q) = KeysOf[r.provider] /\ Len(KeysOf[r.provider]) \in 1..4
      BY <1>2, <2>2, IdPKeys DEF KeysFor
    <3> QED BY <2>2, <3>1, Indices, Zenon
  <2>4. IdPHolds(w)'
    BY <1>1, <1>2, <2>1, <2>2, <2>3, IdPNext1
  <2> QED BY <1>1, <1>3, <2>1, <2>2, <2>4, OneRequestMoves DEF IdPTypeOK
<1>11. CASE r.at = Len(KeysFor(r)) /\ r.step = "fill" /\ ~Savable(r.provider, new)
  <2>1. Ends(w)
    BY <1>3, <1>11 DEF c, key, new
  <2> QED BY <1>1, <1>3, <2>1, IdPEnds
<1> QED BY <1>1, <1>8, <1>9, <1>10, <1>11

LEMMA SaveSettingKeeps ==
  ASSUME IdPInv, GapMoves, NEW w \in Workers, SaveSetting(w)
  PROVE  IdPInv'
<1> DEFINE r == idpReq[w]
           keys == KeysOf[r.provider]
           key == keys[r.at]
<1>1. /\ IdPTypeOK /\ r \in IdPRequest /\ r # Nil /\ r.step = "save" /\ IdPHolds(w)
      /\ UNCHANGED <<loaded, inTurn, idpCount, idpRestarts>>
  BY DEF IdPInv, IdPTypeOK, SaveSetting
<1>2. /\ r.provider \in Providers /\ r.at \in 1..4 /\ Len(keys) \in 1..4 /\ r.at =< Len(keys)
  BY <1>1, IdPKeys DEF IdPHolds, IdPRequest, KeysFor
<1>3. key \in Keys
  <2>1. r.at \in 1..Len(keys)
    BY <1>2
  <2> QED BY <1>2, <2>1, IdPKeys
<1>4. CASE /\ setting' = [setting EXCEPT ![key] = r.held[key]] /\ UNCHANGED idpFaults
           /\ idpReq' = IF r.at < Len(keys) THEN [idpReq EXCEPT ![w].at = @ + 1]
                        ELSE [idpReq EXCEPT ![w].step = "reload", ![w].at = 1, ![w].held = Unset]
  <2>1. setting' \in Config
    BY <1>1, <1>3, <1>4 DEF IdPTypeOK, IdPRequest, Config
  <2>2. CASE r.at < Len(keys)
    <3> DEFINE q == [r EXCEPT !.at = @ + 1]
    <3>1. idpReq' = [idpReq EXCEPT ![w] = q] /\ idpReq'[w] = q
      BY <1>1, <1>4, <2>2 DEF IdPTypeOK
    <3>2. r.at + 1 \in 1..4 /\ r.at + 1 =< Len(keys)
      <4> HIDE DEF r, keys
      <4> QED BY <1>2, <2>2, Indices, Zenon
    <3>3. q \in IdPRequest /\ q.step = "save" /\ q.provider = r.provider /\ q.at = r.at + 1
      BY <1>1, <3>2 DEF IdPRequest
    <3> HIDE DEF q
    <3>4. q.at =< Len(KeysFor(q))
      BY <3>2, <3>3 DEF KeysFor
    <3>5. IdPHolds(w)'
      BY <1>1, <1>2, <3>1, <3>3, <3>4, IdPNext1
    <3> QED BY <1>1, <1>4, <2>1, <3>1, <3>3, <3>5, OneRequestMoves DEF IdPTypeOK
  <2>3. CASE ~(r.at < Len(keys))
    <3> DEFINE q == [r EXCEPT !.step = "reload", !.at = 1, !.held = Unset]
    <3>1. idpReq' = [idpReq EXCEPT ![w] = q] /\ idpReq'[w] = q
      BY <1>1, <1>4, <2>3 DEF IdPTypeOK
    <3>2. Unset \in Config /\ 1 \in 1..4
      BY DEF Unset, Config
    <3>3. q \in IdPRequest /\ q.step = "reload" /\ q.provider = r.provider /\ q.at = 1
      BY <1>1, <3>2 DEF IdPRequest
    <3> HIDE DEF q
    <3>4. q.at =< Len(KeysFor(q)) /\ 1..q.at - 1 = {}
      <4>1. KeysFor(q) = keys
        BY <3>3 DEF KeysFor
      <4>2. 1 =< Len(keys) /\ 1..1 - 1 = {}
        BY <1>2
      <4> QED BY <3>3, <4>1, <4>2
    <3>5. IdPHolds(w)'
      BY <1>1, <1>2, <3>1, <3>3, <3>4, IdPNext1
    <3> QED BY <1>1, <1>4, <2>1, <3>1, <3>3, <3>5, OneRequestMoves DEF IdPTypeOK
  <2> QED BY <2>2, <2>3
<1>5. CASE Fails /\ Ends(w) /\ UNCHANGED setting
  BY <1>1, <1>5, FaultCount, IdPEnds
<1> QED BY <1>4, <1>5 DEF SaveSetting

LEMMA SetRawKeeps ==
  ASSUME IdPInv, GapMoves, NEW w \in Workers, SetRaw(w)
  PROVE  IdPInv'
<1> DEFINE r == idpReq[w]
<1>1. /\ IdPTypeOK /\ r \in IdPRequest /\ r # Nil /\ r.step = "raw" /\ IdPHolds(w)
      /\ UNCHANGED <<loaded, inTurn, idpCount, idpRestarts>>
  BY DEF IdPInv, IdPTypeOK, SetRaw
<1>2. r.raw \in RawSettings /\ r.left \subseteq DOMAIN r.raw /\ r.provider = Nil /\ DOMAIN r.raw \subseteq Keys
  BY <1>1, IdPAssumption DEF IdPHolds
<1>3. ASSUME NEW k \in r.left, setting' = [setting EXCEPT ![k] = r.raw[k]], UNCHANGED idpFaults,
             idpReq' = [idpReq EXCEPT ![w].left = @ \ {k}]
      PROVE  IdPInv'
  <2> DEFINE q == [r EXCEPT !.left = @ \ {k}]
  <2>1. idpReq' = [idpReq EXCEPT ![w] = q] /\ idpReq'[w] = q
    BY <1>1, <1>3 DEF IdPTypeOK
  <2>2. r.raw[k] \in Configs \cup {Blank} /\ k \in Keys
    BY <1>2, IdPAssumption
  <2>3. setting' \in Config
    BY <1>1, <1>3, <2>2 DEF IdPTypeOK, Config
  <2>4. /\ q \in IdPRequest /\ q.step = "raw" /\ q.raw = r.raw /\ q.left \subseteq DOMAIN r.raw
        /\ q.provider = Nil
    BY <1>1, <1>2 DEF IdPRequest
  <2> HIDE DEF q
  <2>5. IdPHolds(w)'
    BY <1>1, <1>2, <2>1, <2>4, IdPNext1
  <2> QED BY <1>1, <1>3, <2>1, <2>3, <2>4, <2>5, OneRequestMoves DEF IdPTypeOK
<1>4. CASE Fails /\ Ends(w) /\ UNCHANGED setting
  BY <1>1, <1>4, FaultCount, IdPEnds
<1>5. CASE Ends(w) /\ UNCHANGED <<setting, idpFaults>>
  <2>1. idpFaults' \in 0..MaxIdPFaults
    BY <1>1, <1>5 DEF IdPTypeOK
  <2> QED BY <1>1, <1>5, <2>1, IdPEnds
<1> QED BY <1>3, <1>4, <1>5 DEF SetRaw

LEMMA LoadProviderKeeps ==
  ASSUME IdPInv, GapMoves, NEW w \in Workers, LoadProvider(w)
  PROVE  IdPInv'
<1> DEFINE r == idpReq[w]
           p == r.provider
<1>1. /\ IdPTypeOK /\ r \in IdPRequest /\ r # Nil /\ r.step = "load" /\ p \in Providers
      /\ UNCHANGED <<setting, inTurn, idpCount, idpFaults, idpRestarts>>
  BY DEF IdPInv, IdPTypeOK, LoadProvider, IdPHolds
<1>2. Part(p, r.held) \in Config
  BY <1>1 DEF Part, Config, IdPRequest
<1>3. ASSUME NEW new \in Config \cup {Nil}, loaded' = [loaded EXCEPT ![p] = new],
             idpReq' = GoesTo(idpReq, w, "done")
      PROVE  IdPInv'
  <2> DEFINE q == [r EXCEPT !.step = "done"]
  <2>1. idpReq' = [idpReq EXCEPT ![w] = q] /\ idpReq'[w] = q
    BY <1>1, <1>3 DEF IdPTypeOK, GoesTo
  <2>2. q \in IdPRequest /\ q.step = "done" /\ q.provider = p
    BY <1>1 DEF IdPRequest
  <2> HIDE DEF q
  <2>3. loaded' \in [Providers -> Config \cup {Nil}]
    BY <1>1, <1>3 DEF IdPTypeOK
  <2>4. IdPHolds(w)'
    BY <1>1, <2>1, <2>2, IdPNext1
  <2> QED BY <1>1, <2>1, <2>2, <2>3, <2>4, OneRequestMoves DEF IdPTypeOK
<1>4. CASE loaded' = Failed(p) /\ Ends(w)
  <2>1. loaded' = loaded /\ idpFaults' \in 0..MaxIdPFaults
    BY <1>1, <1>4 DEF Failed, IdPTypeOK
  <2> QED BY <1>1, <1>4, <2>1, IdPEnds
<1> QED BY <1>2, <1>3, <1>4 DEF LoadProvider

LEMMA RebootKeeps ==
  ASSUME IdPInv, GapMoves, Reboot
  PROVE  IdPInv'
<1>1. /\ IdPTypeOK /\ UNCHANGED <<setting, inTurn, idpCount, idpFaults>>
      /\ idpReq' = [w \in Workers |-> Nil] /\ idpRestarts' \in 0..MaxIdPRestarts
  BY IdPAssumption DEF IdPInv, IdPTypeOK, Reboot
<1>2. gap' \in [Workers -> BOOLEAN]
  BY DEF GapMoves, Lacking
<1>3. loaded' \in [Providers -> Config \cup {Nil}]
  <2>1. \A p \in Providers : Part(p, setting) \in Config
    BY <1>1 DEF IdPTypeOK, Part, Config
  <2> QED BY <2>1 DEF Reboot
<1> QED BY <1>1, <1>2, <1>3 DEF IdPInv, IdPTypeOK, IdPHolds

LEMMA IdPInductive ==
  ASSUME IdPInv, [IdPNext]_idpVars
  PROVE  IdPInv'
<1>1. CASE UNCHANGED idpVars
  BY <1>1 DEF idpVars, IdPInv, IdPTypeOK, IdPHolds, KeysFor
<1>2. CASE IdPNext
  <2>1. GapMoves
    BY <1>2 DEF IdPNext, GapMoves
  <2>2. ASSUME NEW w \in Workers, ConfigSaved(w) PROVE IdPInv'
    <3>1. idpFaults' \in 0..MaxIdPFaults
      BY <2>2 DEF ConfigSaved, IdPInv, IdPTypeOK
    <3> QED BY <2>1, <2>2, <3>1, IdPEnds DEF ConfigSaved
  <2>3. CASE IdPExhausted
    <3>1. UNCHANGED <<setting, loaded, idpReq, inTurn, idpCount, idpFaults, idpRestarts>>
      BY <2>3 DEF IdPExhausted
    <3>2. gap' \in [Workers -> BOOLEAN]
      BY <2>1 DEF GapMoves, Lacking
    <3>3. \A w \in Workers : idpReq'[w] = Nil
      BY <2>3 DEF IdPExhausted
    <3> QED BY <3>1, <3>2, <3>3 DEF IdPInv, IdPTypeOK, IdPHolds
  <2>4. ASSUME NEW w \in Workers,
               \/ HandleSaveConfig(w) \/ HandleUpdateSettings(w)
               \/ ReadSetting(w) \/ SaveSetting(w) \/ SetRaw(w) \/ LoadProvider(w)
        PROVE  IdPInv'
    BY <2>1, <2>4, IdPArrives, ReadSettingKeeps, SaveSettingKeeps, SetRawKeeps, LoadProviderKeeps
  <2> QED BY <1>2, <2>1, <2>2, <2>3, <2>4, RebootKeeps DEF IdPNext, IdPStep
<1> QED BY <1>1, <1>2

LEMMA IdPInvariant == IdPSpec => []IdPInv
<1>1. IdPInit => IdPInv
  BY IdPAssumption DEF IdPInit, IdPInv, IdPTypeOK, IdPHolds, Config, Unset
<1>2. IdPInv /\ [IdPNext]_idpVars => IdPInv'
  BY IdPInductive
<1> QED BY <1>1, <1>2, PTL DEF IdPSpec

\* Every state of the settings and the providers has its types.
THEOREM IdPTypes == IdPSpec => []IdPTypeOK
<1>1. IdPInv => IdPTypeOK
  BY DEF IdPInv
<1> QED BY <1>1, IdPInvariant, PTL

\* A provider goes out of use only by a request that met it switched off or incomplete,
\* or whose read failed, or by a restart, however many saves overlap (InitOIDC, reloadSAML).
THEOREM OnlineProvidersStay == IdPSpec => OnlineStaysOnline
<1> DEFINE Kept(p) ==
      loaded[p] # Nil /\ loaded'[p] = Nil =>
        \/ idpRestarts' # idpRestarts
        \/ \E w \in Workers : idpReq[w] # Nil /\ idpReq[w].provider = p /\ gap[w]
<1>1. ASSUME IdPInv, [IdPNext]_idpVars, NEW p \in Providers, loaded[p] # Nil, loaded'[p] = Nil,
             idpRestarts' = idpRestarts
      PROVE  \E w \in Workers : idpReq[w] # Nil /\ idpReq[w].provider = p /\ gap[w]
  <2>1. loaded' # loaded
    BY <1>1
  <2>2. PICK w \in Workers : LoadProvider(w)
    <3>1. IdPStep
      BY <1>1, <2>1 DEF idpVars, IdPNext
    <3>2. ~Reboot
      BY <1>1, IdPAssumption DEF Reboot, IdPInv, IdPTypeOK
    <3> QED BY <2>1, <3>1, <3>2 DEF IdPStep, HandleSaveConfig, HandleUpdateSettings, IdPBegins,
          ReadSetting, SaveSetting, SetRaw, ConfigSaved, IdPExhausted
  <2>3. /\ idpReq[w] # Nil /\ idpReq[w].step = "load" /\ idpReq[w].provider \in Providers
        /\ Unloads(idpReq[w].provider, idpReq[w].held) => gap[w]
    BY <1>1, <2>2 DEF LoadProvider, IdPInv, IdPHolds
  <2>4. Part(idpReq[w].provider, idpReq[w].held) # Nil
    <3>1. idpReq[w] \in IdPRequest
      BY <1>1, <2>3 DEF IdPInv, IdPTypeOK
    <3>2. Part(idpReq[w].provider, idpReq[w].held) \in Config
      BY <3>1 DEF IdPRequest, Part, Config
    <3> QED BY <3>2, IdPNilAssumption
  <2>5. idpReq[w].provider = p /\ Unloads(p, idpReq[w].held)
    BY <1>1, <2>1, <2>2, <2>3, <2>4 DEF LoadProvider, Failed, IdPInv, IdPTypeOK
  <2> QED BY <2>3, <2>5
<1>2. ASSUME IdPInv, [IdPNext]_idpVars PROVE [\A p \in Providers : Kept(p)]_idpVars
  BY <1>1, <1>2
<1> QED BY <1>2, IdPInvariant, PTL DEF IdPSpec, OnlineStaysOnline

\* What a save is to leave in the table.
ToBeSaved(r, c) ==
  /\ Savable(r.provider, c)
  /\ \A k \in Elements(KeysOf[r.provider]) : r.sent[k] # Blank => c[k] = r.sent[k]

\* How far the request of w has come, when it is alone and nothing fails.
SaveGoesWell(w) ==
  LET r == idpReq[w]
      key(i) == KeysOf[r.provider][i]
  IN
  /\ r.step = "save" => /\ ToBeSaved(r, r.held)
                        /\ \A i \in 1..r.at - 1 : setting[key(i)] = r.held[key(i)]
  /\ r.step = "reload" => /\ ToBeSaved(r, setting)
                          /\ \A i \in 1..r.at - 1 : r.held[key(i)] = setting[key(i)]
  /\ r.step = "load" => /\ ToBeSaved(r, setting)
                        /\ \A k \in Elements(KeysOf[r.provider]) : r.held[k] = setting[k]
  /\ r.step = "done" =>
       /\ ToBeSaved(r, setting)
       /\ loaded[r.provider] = IF Unloads(r.provider, setting) THEN Nil ELSE Part(r.provider, setting)

IdPAlone(w) == \A v \in Workers : v # w => idpReq[v] = Nil

TurnInv ==
  inTurn => \A w \in Workers : idpReq[w] # Nil =>
    IdPAlone(w) /\ (idpFaults = 0 => SaveGoesWell(w))

\* Only the keys of a provider matter to it.
LEMMA OnlyItsKeys ==
  ASSUME NEW p \in Providers, NEW c, NEW d, \A k \in Elements(KeysOf[p]) : c[k] = d[k]
  PROVE  /\ Savable(p, c) <=> Savable(p, d)
         /\ Unloads(p, c) <=> Unloads(p, d)
         /\ Complete(p, c) <=> Complete(p, d)
         /\ Part(p, c) = Part(p, d)
<1>1. Complete(p, c) <=> Complete(p, d)
  BY DEF Complete
<1>2. Part(p, c) = Part(p, d)
  BY DEF Part
<1>3. p = "saml" => c["cert"] = d["cert"] /\ c["privateKey"] = d["privateKey"]
  <2>1. p = "saml" => KeysOf[p] = <<"url", "cert", "privateKey">>
    BY DEF KeysOf
  <2>2. 2 \in 1..3 /\ 3 \in 1..3
    OBVIOUS
  <2>3. p = "saml" => {"cert", "privateKey"} \subseteq Elements(KeysOf[p])
    BY <2>1, <2>2 DEF Elements
  <2> QED BY <2>3
<1>4. p = "oidc" => c["enabled"] = d["enabled"]
  <2>1. p = "oidc" => "enabled" \in Elements(KeysOf[p])
    BY IdPKeys DEF Needed, Providers
  <2> QED BY <2>1
<1> QED BY <1>1, <1>2, <1>3, <1>4 DEF Savable, Pair, Unloads, Providers

LEMMA IdPArrivesAlone ==
  ASSUME IdPInv, TurnInv, NEW w \in Workers, HandleSaveConfig(w) \/ HandleUpdateSettings(w)
  PROVE  TurnInv'
<1>1. ASSUME NEW q, IdPBegins(w, q), q.step \in {"fill", "raw"} PROVE TurnInv'
  <2>1. inTurn => \A v \in Workers : idpReq[v] = Nil
    BY <1>1 DEF IdPBegins
  <2>2. idpReq'[w] = q /\ inTurn' = inTurn /\ \A v \in Workers : v # w => idpReq'[v] = idpReq[v]
    BY <1>1 DEF IdPBegins, IdPInv, IdPTypeOK
  <2> QED BY <1>1, <2>1, <2>2 DEF TurnInv, IdPAlone, SaveGoesWell
<1>2. ASSUME NEW p, NEW c PROVE [IdPBlank EXCEPT !.provider = p, !.step = "fill", !.sent = c].step = "fill"
  BY DEF IdPBlank
<1>3. ASSUME NEW b PROVE [IdPBlank EXCEPT !.raw = b, !.left = DOMAIN b].step = "raw"
  BY DEF IdPBlank
<1> HIDE DEF IdPBlank
<1>4. CASE HandleSaveConfig(w)
  <2>1. PICK p \in Providers : \E c \in Sent[p] :
          IdPBegins(w, [IdPBlank EXCEPT !.provider = p, !.step = "fill", !.sent = c])
    BY <1>4 DEF HandleSaveConfig
  <2>2. PICK c \in Sent[p] : IdPBegins(w, [IdPBlank EXCEPT !.provider = p, !.step = "fill", !.sent = c])
    BY <2>1
  <2> QED BY <1>1, <1>2, <2>2
<1>5. CASE HandleUpdateSettings(w)
  <2>1. PICK b \in RawSettings : IdPBegins(w, [IdPBlank EXCEPT !.raw = b, !.left = DOMAIN b])
    BY <1>5 DEF HandleUpdateSettings
  <2> QED BY <1>1, <1>3, <2>1
<1> QED BY <1>4, <1>5

\* The request in progress goes on.
LEMMA AloneGoesOn ==
  ASSUME IdPInv, TurnInv, NEW w \in Workers, idpReq[w] # Nil, NEW q,
         idpReq' = [idpReq EXCEPT ![w] = q], inTurn' = inTurn,
         inTurn /\ idpFaults' = 0 /\ q # Nil => SaveGoesWell(w)'
  PROVE  TurnInv'
<1>1. idpReq'[w] = q /\ \A v \in Workers : v # w => idpReq'[v] = idpReq[v]
  BY DEF IdPInv, IdPTypeOK
<1>2. inTurn => IdPAlone(w)
  BY DEF TurnInv
<1> QED BY <1>1, <1>2 DEF TurnInv, IdPAlone

LEMMA AloneEnds ==
  ASSUME IdPInv, TurnInv, NEW w \in Workers, idpReq[w] # Nil, Ends(w), inTurn' = inTurn
  PROVE  TurnInv'
<1>1. idpReq' = [idpReq EXCEPT ![w] = Nil]
  BY DEF Ends, Ended
<1> QED BY <1>1, AloneGoesOn

LEMMA ReadSettingAlone ==
  ASSUME IdPInv, TurnInv, NEW w \in Workers, ReadSetting(w)
  PROVE  TurnInv'
<1> DEFINE r == idpReq[w]
           key == KeysFor(r)[r.at]
<1>1. /\ IdPTypeOK /\ r \in IdPRequest /\ r # Nil /\ r.step \in {"fill", "reload"} /\ IdPHolds(w)
      /\ UNCHANGED <<setting, loaded, inTurn, idpCount, idpRestarts>>
  BY DEF IdPInv, IdPTypeOK, ReadSetting
<1>2. r.provider \in Providers /\ r.at \in 1..4 /\ r.at =< Len(KeysFor(r)) /\ Len(KeysFor(r)) \in 1..4
  BY <1>1, IdPKeys DEF IdPHolds, IdPRequest, KeysFor
<1>f. (Fails => idpFaults' # 0) /\ (idpFaults' = 0 => idpFaults = 0)
  <2>1. Fails => idpFaults' # 0
    BY <1>1 DEF Fails, IdPTypeOK
  <2>2. idpFaults' = idpFaults \/ Fails
    BY DEF ReadSetting
  <2> QED BY <2>1, <2>2
<1>3. PICK v \in {setting[key], Blank} :
        /\ v = setting[key] \/ idpFaults' # 0
        /\ LET c == [r.held EXCEPT ![key] = v]
               new == Filled(r.provider, r.sent, c)
           IN IF r.at # Len(KeysFor(r)) THEN idpReq' = [idpReq EXCEPT ![w].held = c, ![w].at = @ + 1]
              ELSE IF r.step = "reload" THEN idpReq' = [idpReq EXCEPT ![w].held = c, ![w].step = "load"]
              ELSE IF Savable(r.provider, new)
                   THEN idpReq' = [idpReq EXCEPT ![w].held = new, ![w].step = "save", ![w].at = 1]
                   ELSE Ends(w)
  BY <1>1, <1>f DEF ReadSetting, KeysFor
<1> DEFINE c == [r.held EXCEPT ![key] = v]
           new == Filled(r.provider, r.sent, c)
<1>4. ASSUME r.step = "reload", inTurn, idpFaults' = 0
      PROVE  /\ ToBeSaved(r, setting)
             /\ \A i \in 1..r.at : c[KeysOf[r.provider][i]] = setting[KeysOf[r.provider][i]]
  <2>1. SaveGoesWell(w)
    BY <1>1, <1>4, <1>f DEF TurnInv
  <2>2. v = setting[key]
    BY <1>3, <1>4
  <2>3. ASSUME NEW i \in 1..r.at PROVE c[KeysOf[r.provider][i]] = setting[KeysOf[r.provider][i]]
    <3>1. i \in 1..Len(KeysOf[r.provider]) /\ r.at \in 1..Len(KeysOf[r.provider])
      BY <1>2, <1>4, <2>3 DEF KeysFor
    <3>2. KeysOf[r.provider][i] \in Keys
      BY <1>2, <3>1, IdPKeys
    <3>3. r.held \in Config
      BY <1>1 DEF IdPRequest
    <3>4. CASE i = r.at
      BY <1>4, <2>2, <3>2, <3>3, <3>4 DEF KeysFor, Config
    <3>5. CASE i # r.at
      <4>1. i \in 1..r.at - 1
        BY <1>2, <3>5
      <4>2. r.held[KeysOf[r.provider][i]] = setting[KeysOf[r.provider][i]]
        BY <1>4, <2>1, <4>1 DEF SaveGoesWell
      <4>3. KeysOf[r.provider][i] # key
        BY <1>2, <1>4, <3>1, <3>5, IdPKeys DEF KeysFor
      <4> HIDE DEF key
      <4> QED BY <3>2, <3>3, <4>2, <4>3 DEF Config
    <3> QED BY <3>4, <3>5
  <2> QED BY <1>4, <2>1, <2>3 DEF SaveGoesWell
<1>5. new \in Config /\ c \in Config
  <2>1. key \in Keys
    BY <1>2, NextKey
  <2>2. v \in Configs \cup {Blank}
    BY <1>1, <2>1 DEF IdPTypeOK, Config
  <2>3. c \in Config
    BY <1>1, <2>1, <2>2 DEF IdPRequest, Config
  <2> HIDE DEF c
  <2>4. new \in Config
    BY <1>1, <2>3 DEF Filled, IdPRequest, Config
  <2> QED BY <2>3, <2>4
<1>6. \A k \in Elements(KeysOf[r.provider]) : r.sent[k] # Blank => new[k] = r.sent[k]
  BY <1>2, IdPKeys DEF Filled
<1> HIDE DEF key, c, new
<1>7. CASE r.at # Len(KeysFor(r))
  <2> DEFINE q == [r EXCEPT !.held = c, !.at = @ + 1]
  <2>1. idpReq' = [idpReq EXCEPT ![w] = q] /\ idpReq'[w] = q
    BY <1>1, <1>3, <1>7 DEF IdPTypeOK, c, key
  <2>2. /\ q.provider = r.provider /\ q.step = r.step /\ q.held = c /\ q.sent = r.sent /\ q.at = r.at + 1
    BY <1>1 DEF IdPRequest
  <2> HIDE DEF q
  <2>3. q.at - 1 = r.at
    BY <1>2, <2>2
  <2>4. inTurn /\ idpFaults' = 0 => SaveGoesWell(w)'
    BY <1>1, <1>4, <2>1, <2>2, <2>3 DEF SaveGoesWell, ToBeSaved
  <2> QED BY <1>1, <2>1, <2>4, AloneGoesOn
<1>8. CASE r.at = Len(KeysFor(r)) /\ r.step = "reload"
  <2> DEFINE q == [r EXCEPT !.held = c, !.step = "load"]
  <2>1. idpReq' = [idpReq EXCEPT ![w] = q] /\ idpReq'[w] = q
    BY <1>1, <1>3, <1>8 DEF IdPTypeOK, c, key
  <2>2. /\ q.provider = r.provider /\ q.step = "load" /\ q.held = c /\ q.sent = r.sent
    BY <1>1 DEF IdPRequest
  <2> HIDE DEF q
  <2>3. \A k \in Elements(KeysOf[r.provider]) : \E i \in 1..r.at : k = KeysOf[r.provider][i]
    <3>1. /\ r.at = Len(KeysOf[r.provider])
          /\ \A k \in Elements(KeysOf[r.provider]) :
               \E i \in 1..Len(KeysOf[r.provider]) : k = KeysOf[r.provider][i]
      BY <1>2, <1>8, IdPKeys DEF KeysFor
    <3> HIDE DEF r
    <3> QED BY <3>1
  <2>4. inTurn /\ idpFaults' = 0 => SaveGoesWell(w)'
    BY <1>1, <1>4, <1>8, <2>1, <2>2, <2>3 DEF SaveGoesWell, ToBeSaved
  <2> QED BY <1>1, <2>1, <2>4, AloneGoesOn
<1>9. CASE r.at = Len(KeysFor(r)) /\ r.step = "fill" /\ Savable(r.provider, new)
  <2> DEFINE q == [r EXCEPT !.held = new, !.step = "save", !.at = 1]
  <2>1. idpReq' = [idpReq EXCEPT ![w] = q] /\ idpReq'[w] = q
    BY <1>1, <1>3, <1>9 DEF IdPTypeOK, c, key, new
  <2>2. /\ q.provider = r.provider /\ q.step = "save" /\ q.held = new /\ q.sent = r.sent /\ q.at = 1
    BY <1>1 DEF IdPRequest
  <2> HIDE DEF q
  <2>3. 1..q.at - 1 = {}
    BY <2>2
  <2>4. SaveGoesWell(w)'
    BY <1>6, <1>9, <2>1, <2>2, <2>3 DEF SaveGoesWell, ToBeSaved
  <2> QED BY <1>1, <2>1, <2>4, AloneGoesOn
<1>10. CASE r.at = Len(KeysFor(r)) /\ r.step = "fill" /\ ~Savable(r.provider, new)
  <2>1. Ends(w)
    BY <1>3, <1>10 DEF c, key, new
  <2> QED BY <1>1, <2>1, AloneEnds
<1> QED BY <1>1, <1>7, <1>8, <1>9, <1>10

LEMMA SaveSettingAlone ==
  ASSUME IdPInv, TurnInv, NEW w \in Workers, SaveSetting(w)
  PROVE  TurnInv'
<1> DEFINE r == idpReq[w]
           keys == KeysOf[r.provider]
           key == keys[r.at]
<1>1. /\ IdPTypeOK /\ r \in IdPRequest /\ r # Nil /\ r.step = "save" /\ IdPHolds(w)
      /\ UNCHANGED <<loaded, inTurn, idpCount, idpRestarts>>
  BY DEF IdPInv, IdPTypeOK, SaveSetting
<1>2. /\ r.provider \in Providers /\ r.at \in 1..4 /\ Len(keys) \in 1..4 /\ r.at =< Len(keys)
  BY <1>1, IdPKeys DEF IdPHolds, IdPRequest, KeysFor
<1>3. CASE Fails /\ Ends(w) /\ UNCHANGED setting
  BY <1>1, <1>3, AloneEnds
<1>4. CASE /\ setting' = [setting EXCEPT ![key] = r.held[key]] /\ UNCHANGED idpFaults
           /\ idpReq' = IF r.at < Len(keys) THEN [idpReq EXCEPT ![w].at = @ + 1]
                        ELSE [idpReq EXCEPT ![w].step = "reload", ![w].at = 1, ![w].held = Unset]
  <2>1. ASSUME inTurn, idpFaults' = 0
        PROVE  ToBeSaved(r, r.held) /\ \A i \in 1..r.at : setting'[keys[i]] = r.held[keys[i]]
    <3>1. SaveGoesWell(w)
      BY <1>1, <1>4, <2>1 DEF TurnInv
    <3>2. ASSUME NEW i \in 1..r.at PROVE setting'[keys[i]] = r.held[keys[i]]
      <4>1. i \in 1..Len(keys) /\ r.at \in 1..Len(keys)
        BY <1>2, <3>2
      <4>2. keys[i] \in Keys /\ (keys[i] = key => i = r.at)
        BY <1>2, <4>1, IdPKeys
      <4>3. i # r.at => i \in 1..r.at - 1
        BY <1>2, <3>2
      <4>4. i # r.at => setting[keys[i]] = r.held[keys[i]]
        BY <1>1, <3>1, <4>3 DEF SaveGoesWell
      <4>5. setting \in Config
        BY <1>1 DEF IdPTypeOK
      <4> HIDE DEF r, keys
      <4> QED BY <1>4, <4>2, <4>4, <4>5 DEF Config
    <3> QED BY <1>1, <3>1, <3>2 DEF SaveGoesWell
  <2>2. CASE r.at < Len(keys)
    <3> DEFINE q == [r EXCEPT !.at = @ + 1]
    <3>1. idpReq' = [idpReq EXCEPT ![w] = q] /\ idpReq'[w] = q
      BY <1>1, <1>4, <2>2 DEF IdPTypeOK
    <3>2. q.step = "save" /\ q.provider = r.provider /\ q.held = r.held /\ q.sent = r.sent /\ q.at = r.at + 1
      BY <1>1 DEF IdPRequest
    <3> HIDE DEF q
    <3>3. q.at - 1 = r.at
      BY <1>2, <3>2
    <3>4. inTurn /\ idpFaults' = 0 => SaveGoesWell(w)'
      BY <2>1, <3>1, <3>2, <3>3 DEF SaveGoesWell, ToBeSaved
    <3> QED BY <1>1, <3>1, <3>4, AloneGoesOn
  <2>3. CASE ~(r.at < Len(keys))
    <3> DEFINE q == [r EXCEPT !.step = "reload", !.at = 1, !.held = Unset]
    <3>1. idpReq' = [idpReq EXCEPT ![w] = q] /\ idpReq'[w] = q
      BY <1>1, <1>4, <2>3 DEF IdPTypeOK
    <3>2. q.step = "reload" /\ q.provider = r.provider /\ q.sent = r.sent /\ q.at = 1
      BY <1>1 DEF IdPRequest
    <3> HIDE DEF q
    <3>3. 1..q.at - 1 = {}
      BY <3>2
    <3>4. ASSUME inTurn, idpFaults' = 0 PROVE ToBeSaved(r, setting')
      <4>1. r.at = Len(keys)
        <5> HIDE DEF r, keys
        <5> QED BY <1>2, <2>3
      <4>2. \A k \in Elements(keys) : \E i \in 1..r.at : k = keys[i]
        <5>1. \A k \in Elements(keys) : \E i \in 1..Len(keys) : k = keys[i]
          BY <1>2, IdPKeys
        <5> HIDE DEF r, keys
        <5> QED BY <4>1, <5>1
      <4>3. \A k \in Elements(keys) : setting'[k] = r.held[k]
        BY <2>1, <3>4, <4>2
      <4>4. Savable(r.provider, setting') <=> Savable(r.provider, r.held)
        BY <1>2, <4>3, OnlyItsKeys
      <4> QED BY <2>1, <3>4, <4>3, <4>4 DEF ToBeSaved
    <3>5. inTurn /\ idpFaults' = 0 => SaveGoesWell(w)'
      BY <3>1, <3>2, <3>3, <3>4 DEF SaveGoesWell, ToBeSaved
    <3> QED BY <1>1, <3>1, <3>5, AloneGoesOn
  <2> QED BY <2>2, <2>3
<1> QED BY <1>3, <1>4 DEF SaveSetting

LEMMA LoadProviderAlone ==
  ASSUME IdPInv, TurnInv, NEW w \in Workers, LoadProvider(w)
  PROVE  TurnInv'
<1> DEFINE r == idpReq[w]
           p == r.provider
<1>1. /\ IdPTypeOK /\ r \in IdPRequest /\ r # Nil /\ r.step = "load" /\ p \in Providers
      /\ UNCHANGED <<setting, inTurn, idpCount, idpFaults, idpRestarts>>
  BY DEF IdPInv, IdPTypeOK, LoadProvider, IdPHolds
<1>2. CASE loaded' = Failed(p) /\ Ends(w)
  BY <1>1, <1>2, AloneEnds
<1>3. ASSUME NEW new, loaded' = [loaded EXCEPT ![p] = new], idpReq' = GoesTo(idpReq, w, "done"),
             new = IF Unloads(p, r.held) THEN Nil ELSE Part(p, r.held)
      PROVE  TurnInv'
  <2> DEFINE q == [r EXCEPT !.step = "done"]
  <2>1. idpReq' = [idpReq EXCEPT ![w] = q] /\ idpReq'[w] = q
    BY <1>1, <1>3 DEF IdPTypeOK, GoesTo
  <2>2. q.step = "done" /\ q.provider = p /\ q.sent = r.sent
    BY <1>1 DEF IdPRequest
  <2> HIDE DEF q
  <2>3. loaded'[p] = new
    BY <1>1, <1>3 DEF IdPTypeOK
  <2>4. ASSUME inTurn, idpFaults' = 0 PROVE SaveGoesWell(w)'
    <3>1. SaveGoesWell(w)
      BY <1>1, <2>4 DEF TurnInv
    <3>2. ToBeSaved(r, setting) /\ \A k \in Elements(KeysOf[p]) : r.held[k] = setting[k]
      BY <1>1, <3>1 DEF SaveGoesWell
    <3>3. loaded'[p] = IF Unloads(p, setting) THEN Nil ELSE Part(p, setting)
      BY <1>1, <1>3, <2>3, <3>2, OnlyItsKeys
    <3>4. ToBeSaved(q, setting') /\ loaded'[p] = IF Unloads(p, setting') THEN Nil ELSE Part(p, setting')
      BY <1>1, <2>2, <3>2, <3>3 DEF ToBeSaved
    <3> QED BY <2>1, <2>2, <3>4 DEF SaveGoesWell, ToBeSaved, Savable, Unloads, Complete, Part
  <2> QED BY <1>1, <2>1, <2>4, AloneGoesOn
<1> QED BY <1>2, <1>3 DEF LoadProvider

LEMMA TurnInductive ==
  ASSUME IdPInv, TurnInv, [IdPNext]_idpVars
  PROVE  TurnInv'
<1>1. CASE UNCHANGED idpVars
  BY <1>1 DEF idpVars, TurnInv, IdPAlone, SaveGoesWell, ToBeSaved
<1>2. ASSUME NEW w \in Workers, SetRaw(w) PROVE TurnInv'
  <2>1. idpReq[w] # Nil /\ idpReq[w].step = "raw" /\ inTurn' = inTurn /\ idpReq[w] \in IdPRequest
    BY <1>2 DEF SetRaw, IdPInv, IdPTypeOK
  <2>2. CASE Ends(w)
    BY <2>1, <2>2, AloneEnds
  <2>3. ASSUME NEW k, idpReq' = [idpReq EXCEPT ![w].left = @ \ {k}] PROVE TurnInv'
    <3> DEFINE q == [idpReq[w] EXCEPT !.left = @ \ {k}]
    <3>1. idpReq' = [idpReq EXCEPT ![w] = q] /\ idpReq'[w] = q /\ q.step = "raw"
      BY <2>1, <2>3 DEF IdPInv, IdPTypeOK, IdPRequest
    <3>2. SaveGoesWell(w)'
      BY <3>1 DEF SaveGoesWell
    <3> QED BY <2>1, <3>1, <3>2, AloneGoesOn
  <2> QED BY <1>2, <2>2, <2>3 DEF SetRaw
<1>3. ASSUME NEW w \in Workers, ConfigSaved(w) PROVE TurnInv'
  BY <1>3, AloneEnds DEF ConfigSaved
<1>4. CASE Reboot \/ IdPExhausted
  <2>1. \A w \in Workers : idpReq'[w] = Nil
    BY <1>4 DEF Reboot, IdPExhausted
  <2> QED BY <2>1 DEF TurnInv
<1> QED BY <1>1, <1>2, <1>3, <1>4, IdPArrivesAlone, ReadSettingAlone, SaveSettingAlone, LoadProviderAlone
        DEF IdPNext, IdPStep

\* An administrator who is answered that a configuration was saved finds it in place, while
\* requests come one at a time and nothing fails (handleSaveSAMLConfig, handleSaveOIDCConfig).
THEOREM SavedProvidersAreInPlace == IdPSpec => []SavedIsInPlace
<1>1. IdPInit => TurnInv
  BY DEF IdPInit, TurnInv
<1>2. IdPInv /\ TurnInv /\ [IdPNext]_idpVars => TurnInv'
  BY TurnInductive
<1>3. IdPInv /\ TurnInv => SavedIsInPlace
  <2> SUFFICES ASSUME IdPInv, TurnInv, inTurn, idpFaults = 0, NEW w \in Workers,
                      idpReq[w] # Nil, idpReq[w].step = "done"
               PROVE  LET r == idpReq[w]
                          off == IF r.provider = "saml" THEN ~Complete("saml", setting)
                                 ELSE setting["enabled"] = Blank
                      IN /\ loaded[r.provider] = IF off THEN Nil ELSE Part(r.provider, setting)
                         /\ r.provider = "saml" /\ ~off => setting["cert"] = setting["privateKey"]
                         /\ \A k \in Elements(KeysOf[r.provider]) :
                              r.sent[k] # Blank => setting[k] = r.sent[k]
    BY DEF SavedIsInPlace
  <2> DEFINE r == idpReq[w]
  <2>1. /\ ToBeSaved(r, setting)
        /\ loaded[r.provider] = IF Unloads(r.provider, setting) THEN Nil ELSE Part(r.provider, setting)
    BY DEF TurnInv, SaveGoesWell
  <2>2. Complete("saml", setting) => setting["cert"] # Blank
    <3>1. "cert" \in Elements(KeysOf.saml)
      <4>1. KeysOf.saml = <<"url", "cert", "privateKey">> /\ 2 \in 1..3
        BY DEF KeysOf
      <4> QED BY <4>1 DEF Elements
    <3> QED BY <3>1 DEF Complete
  <2> QED BY <2>1, <2>2 DEF ToBeSaved, Savable, Pair, Unloads
<1> QED BY <1>1, <1>2, <1>3, IdPInvariant, PTL DEF IdPSpec

-----------------------------------------------------------------------------
(* The desk.                                                               *)

\* The requests of all parts interleaved are, for each part, requests of that part: what is
\* proved of SLAClock, TagCatalog, CustomFields, TicketLists, IdentityProviders and Uploads
\* alone holds of the server that runs them together.
THEOREM DeskImplementsParts ==
  DeskSpec => SLASpec /\ TagSpec /\ FieldSpec /\ ListSpec /\ IdPSpec /\ UploadSpec
<1>1. DeskInit => SLAInit /\ TagInit /\ FieldInit /\ ListInit /\ IdPInit /\ UploadInit
  BY DEF DeskInit
<1>2. [DeskNext]_deskVars =>
        /\ [SLANext]_slaVars /\ [TagNext]_tagVars /\ [FieldNext]_fieldVars
        /\ [ListNext]_listVars /\ [IdPNext]_idpVars /\ [UploadNext]_uploadVars
  BY DEF DeskNext, deskVars
<1> QED BY <1>1, <1>2, PTL
        DEF DeskSpec, SLASpec, TagSpec, FieldSpec, ListSpec, IdPSpec, UploadSpec

\* Every table and every request of the desk has its type, whatever its parts do meanwhile.
THEOREM DeskIsTyped == DeskSpec => []DeskTypes
<1>1. SLATypeOK /\ TagTypeOK /\ FieldTypeOK /\ ListTypeOK /\ IdPTypeOK /\ UploadTypeOK => DeskTypes
  BY DEF DeskTypes
<1> QED BY <1>1, DeskImplementsParts, SLATypes, TagTypes, FieldTypes, ListTypes, IdPTypes,
           UploadTypes, PTL
=============================================================================
