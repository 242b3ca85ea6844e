---------------------------- MODULE Classification ----------------------------
(***************************************************************************)
(* The tree of categories, types and items, and what refers to it: the     *)
(* classification of tickets, the groups that cover a part of the tree and *)
(* get the tickets filed there, the canned responses written for a part.   *)
(*                                                                         *)
(* A ticket is filed from a form whose three lists are read one after      *)
(* another.  A ticket's row is read, changed in memory and written back    *)
(* with its type and item, but without its category, which reclassifying   *)
(* sets together with the two.  Foreign keys keep what is deleted between  *)
(* the statements from being referred to.  Statements may fail: most end   *)
(* their request, those that route a new ticket let it go on.              *)
(***************************************************************************)
EXTENDS DeskBase, Integers

CONSTANTS
  Nodes,           \* ids of rows of categories, types and items, present and future
  Level,           \* Level[n]: the table of node n
  Groups,          \* ids of rows of groups
  Canned,          \* ids of rows of canned_responses
  SeededNodes, SeededFiled, SeededScope, SeededCanned,   \* the rows there were before
  MaxCTIRequests,  \* bound on the number of requests
  MaxCTIFaults     \* bound on the number of statements that fail

ASSUME LevelAssumption == Level \in [Nodes -> {"category", "type", "item"}]

Of(level) == {n \in Nodes : Level[n] = level}

NodeRow   == [parent : Nodes \cup {Nil}, active : BOOLEAN]
\* What a ticket's row says here: its classification, and the group it is assigned to.
Filed     == [category : Of("category"), type : Of("type") \cup {Nil},
              item : Of("item") \cup {Nil}, group : Groups \cup {Nil}]
CannedRow == [category : Of("category") \cup {Nil}, type : Of("type") \cup {Nil}]

\* What it means for tables to refer to rows that are there: `nodes` to parents ...
TypeIn(nodes, y, c) == y # Nil => nodes[y] # Nil /\ nodes[y].parent = c

NodesIn(nodes) ==
  \A n \in Nodes : nodes[n] # Nil =>
    IF Level[n] = "category" THEN nodes[n].parent = Nil
    ELSE /\ nodes[n].parent \in Of(IF Level[n] = "type" THEN "category" ELSE "type")
         /\ nodes[nodes[n].parent] # Nil

\* ... a ticket's row to its classification and to one of `groups` ...
RowIn(row, nodes, groups) ==
  /\ nodes[row.category] # Nil /\ TypeIn(nodes, row.type, row.category)
  /\ row.item # Nil => nodes[row.item] # Nil
  /\ row.group # Nil => row.group \in groups

RowsIn(rows, nodes, groups) == \A t \in Tickets : rows[t] # Nil => RowIn(rows[t], nodes, groups)

\* ... scopes and canned responses to groups, categories and types.
ScopesIn(scopes, nodes, groups) ==
  \A s \in scopes : s[1] \in groups /\ nodes[s[2]] # Nil /\ TypeIn(nodes, s[3], s[2])

CannedIn(texts, nodes) ==
  \A k \in Canned : texts[k] # Nil =>
    /\ texts[k].category # Nil => nodes[texts[k].category] # Nil
    /\ TypeIn(nodes, texts[k].type, texts[k].category)

\* An item is of the type that is named with it.
ItemsMatch(rows, nodes) ==
  \A t \in Tickets : rows[t] # Nil /\ rows[t].item # Nil => nodes[rows[t].item].parent = rows[t].type

ASSUME CTIAssumption ==
  /\ SeededNodes \in [Nodes -> NodeRow \cup {Nil}]
  /\ SeededFiled \in [Tickets -> Filed \cup {Nil}]
  /\ SeededScope \subseteq Groups \X Of("category") \X (Of("type") \cup {Nil})
  /\ SeededCanned \in [Canned -> CannedRow \cup {Nil}]
  /\ NodesIn(SeededNodes) /\ RowsIn(SeededFiled, SeededNodes, Groups)
  /\ ScopesIn(SeededScope, SeededNodes, Groups) /\ CannedIn(SeededCanned, SeededNodes)
  /\ ItemsMatch(SeededFiled, SeededNodes)
  /\ MaxCTIRequests \in Nat /\ MaxCTIFaults \in Nat

CTIOps == {"file", "update", "pick", "node", "patch", "scope", "canned"}
CTISteps ==
  {"categories", "types", "items", "insertTicket", "route", "fallback", "getTicket", "putTicket", "putCTI",
   "getClassified", "listCanned", "picked",
   "getParent", "insertNode", "getNode", "putNode", "deleteNode",
   "addScope", "removeScope", "deleteGroup", "setFallback", "insertCanned", "updateCanned", "deleteCanned"}

\* A request: its parameters, and the values it holds between its statements.
CTIRequest ==
  [op       : CTIOps,
   step     : CTISteps,
   ticket   : Tickets \cup {Nil},
   role     : {"guest", "user", "staff"},
   assigns  : BOOLEAN,                       \* a PATCH names an assignee ...
   classifies : BOOLEAN,                     \* ... and a classification
   category : Of("category") \cup {Nil},     \* the classification sent or read
   type     : Of("type") \cup {Nil},
   item     : Of("item") \cup {Nil},
   group    : Groups \cup {Nil},
   held     : Filed \cup {Nil},              \* the ticket's row in memory
   node     : Nodes \cup {Nil},
   parent   : Nodes \cup {Nil},
   active   : BOOLEAN \cup {Nil},            \* Nil: not sent
   canned   : Canned \cup {Nil},
   answer   : SUBSET CannedRow]

ASSUME CTINilAssumption ==
  Nil \notin Nodes \cup Groups \cup Canned \cup Tickets \cup NodeRow \cup Filed
             \cup CannedRow \cup CTIRequest \cup BOOLEAN

VARIABLES
  node,      \* tables categories, types, items
  filed,     \* table tickets
  group,     \* table groups
  scope,     \* table group_scopes
  canned,    \* table canned_responses
  fallback,  \* the setting auto_assign_group_id
  ctiReq,    \* the requests in progress
  seen,      \* what was so at some moment since a request began (observer)
  alone,     \* whether the requests of this behaviour come one at a time
  ctiFaults, \* number of statements that failed
  ctiCount   \* number of requests so far

ctiTables == <<node, filed, group, scope, canned>>
ctiVars   == <<node, filed, group, scope, canned, fallback, ctiReq, seen, alone, ctiFaults, ctiCount>>

Seen == [groups : SUBSET Groups, classes : SUBSET (Of("category") \X (Of("type") \cup {Nil})), failed : BOOLEAN]
Nothing == [groups |-> {}, classes |-> {}, failed |-> FALSE]

\* Every table and request has its type: a row is of the table its id is of, a flag is one
\* of the two although a PATCH may leave it out, a canned response for a type has a category.
CTITypeOK ==
  /\ node \in [Nodes -> NodeRow \cup {Nil}]
  /\ filed \in [Tickets -> Filed \cup {Nil}]
  /\ group \subseteq Groups
  /\ scope \subseteq Groups \X Of("category") \X (Of("type") \cup {Nil})
  /\ canned \in [Canned -> CannedRow \cup {Nil}]
  /\ \A k \in Canned : canned[k] # Nil /\ canned[k].category = Nil => canned[k].type = Nil
  /\ fallback \in Groups \cup {Nil}
  /\ ctiReq \in [Workers -> CTIRequest \cup {Nil}]
  /\ seen \in [Workers -> Seen]
  /\ alone \in BOOLEAN
  /\ ctiFaults \in 0..MaxCTIFaults
  /\ ctiCount \in 0..MaxCTIRequests

CTIInit ==
  /\ node = SeededNodes
  /\ filed = SeededFiled
  /\ group = Groups
  /\ scope = SeededScope
  /\ canned = SeededCanned
  /\ fallback \in Groups \cup {Nil}
  /\ ctiReq = [w \in Workers |-> Nil]
  /\ seen = [w \in Workers |-> Nothing]
  /\ alone \in BOOLEAN
  /\ ctiFaults = 0
  /\ ctiCount = 0

-----------------------------------------------------------------------------
(* The constraints of the tables.                                          *)

There(n) == node[n] # Nil
NullOrThere(n) == n = Nil \/ There(n)

\* Mutant of TypeOfCategory: the composite foreign key of migration 13 is missing.
TypeOfAny(c, y) == TRUE

\* FOREIGN KEY (category_id, type_id) REFERENCES types (category_id, id), MATCH SIMPLE.
TypeOfCategory(c, y) == c = Nil \/ y = Nil \/ (There(y) /\ node[y].parent = c)

Scopable(c, y) == NullOrThere(c) /\ NullOrThere(y) /\ TypeOfCategory(c, y)

Children(n) == {m \in Nodes : There(m) /\ node[m].parent = n}

\* ON DELETE CASCADE from categories to types and from types to items.
Below(n) == {n} \cup Children(n) \cup UNION {Children(m) : m \in Children(n)}

\* tickets REFERENCES categories, types and items ON DELETE RESTRICT.
HeldByTicket(n) ==
  \E t \in Tickets : filed[t] # Nil /\ n \in {filed[t].category, filed[t].type, filed[t].item}

-----------------------------------------------------------------------------
(* Requests arrive.                                                        *)

CTIBlank ==
  [op |-> "file", step |-> "categories", ticket |-> Nil, role |-> "staff", assigns |-> FALSE,
   classifies |-> FALSE, category |-> Nil, type |-> Nil, item |-> Nil, group |-> Nil,
   held |-> Nil, node |-> Nil, parent |-> Nil, active |-> Nil, canned |-> Nil, answer |-> {}]

CTIBegins(w, r) ==
  /\ ctiReq[w] = Nil
  /\ alone => \A v \in Workers : ctiReq[v] = Nil
  /\ ctiCount < MaxCTIRequests /\ ctiCount' = ctiCount + 1
  /\ ctiReq' = [ctiReq EXCEPT ![w] = r]
  /\ UNCHANGED <<ctiTables, fallback, alone, ctiFaults>>

\* An id that neither a table nor a request remembers is as good as a new one.
Fresh(id) ==
  \A v \in Workers : LET r == ctiReq[v] IN r # Nil =>
    /\ id \notin {r.ticket, r.node, r.parent, r.category, r.type, r.item, r.canned}
    /\ r.held # Nil => id \notin {r.held.type, r.held.item}

\* Somebody opens the form for a new ticket.
HandleCreateTicket(w) ==
  \E t \in {u \in Tickets : filed[u] = Nil /\ Fresh(u)}, x \in {"guest", "user", "staff"} :
    CTIBegins(w, [CTIBlank EXCEPT !.ticket = t, !.role = x])

\* Staff edit a ticket: its assignee, its classification, which they pick from the form, or both.
HandleUpdateTicketCTI(w) ==
  \E t \in Tickets, g \in Groups \cup {Nil}, a, c \in BOOLEAN :
    /\ filed[t] # Nil /\ (a \/ c) /\ (g # Nil => a)
    /\ CTIBegins(w, [CTIBlank EXCEPT !.op = "update", !.step = IF c THEN "categories" ELSE "getTicket",
                       !.ticket = t, !.assigns = a, !.classifies = c, !.group = g])

HandleListTicketCannedResponses(w) ==
  \E t \in Tickets : filed[t] # Nil /\
    CTIBegins(w, [CTIBlank EXCEPT !.op = "pick", !.step = "getClassified", !.ticket = t])

HandleCreateNode(w) ==
  \E n \in {m \in Nodes : ~There(m) /\ Fresh(m)},
     p \in Of("category") \cup Of("type") \cup {Nil} :
    /\ CASE Level[n] = "category" -> p = Nil
         [] Level[n] = "type"     -> p \in Of("category")
         [] Level[n] = "item"     -> p \in Of("type")
    /\ CTIBegins(w, [CTIBlank EXCEPT !.op = "node", !.node = n, !.parent = p,
                       !.step = IF p = Nil THEN "insertNode" ELSE "getParent"])

\* A PATCH of a node sends its active flag or only a name.
HandleUpdateNode(w) ==
  \E n \in Nodes, a \in BOOLEAN \cup {Nil} : There(n) /\
    CTIBegins(w, [CTIBlank EXCEPT !.op = "patch", !.step = "getNode", !.node = n, !.active = a])

HandleDeleteNode(w) ==
  \E n \in Nodes : There(n) /\
    CTIBegins(w, [CTIBlank EXCEPT !.op = "node", !.step = "deleteNode", !.node = n])

HandleGroupScope(w) ==
  \E g \in Groups, c \in Of("category"), y \in Of("type") \cup {Nil}, s \in {"addScope", "removeScope"} :
    /\ s = "removeScope" => <<g, c, y>> \in scope
    /\ CTIBegins(w, [CTIBlank EXCEPT !.op = "scope", !.step = s, !.group = g, !.category = c, !.type = y])

HandleDeleteGroup(w) ==
  \E g \in Groups :
    CTIBegins(w, [CTIBlank EXCEPT !.op = "scope", !.step = "deleteGroup", !.group = g])

\* The settings are saved as they are sent: the group need not be one.
HandleUpdateSettings(w) ==
  \E g \in Groups \cup {Nil} :
    CTIBegins(w, [CTIBlank EXCEPT !.op = "scope", !.step = "setFallback", !.group = g])

\* validateScope refuses a type without a category.
HandleCannedResponse(w) ==
  \E k \in Canned, c \in Of("category") \cup {Nil}, y \in Of("type") \cup {Nil} :
    /\ y # Nil => c # Nil
    /\ \E s \in {"insertCanned", "updateCanned", "deleteCanned"} :
         /\ IF s = "insertCanned" THEN canned[k] = Nil /\ Fresh(k) ELSE canned[k] # Nil
         /\ s = "deleteCanned" => c = Nil
         /\ CTIBegins(w, [CTIBlank EXCEPT !.op = "canned", !.step = s, !.canned = k,
                            !.category = c, !.type = y])

-----------------------------------------------------------------------------
(* The form: each list is a statement; its reader picks one row or none.   *)

CTIEnds(w) == ctiReq' = Ended(ctiReq, w)
CTIGoes(w, step) == ctiReq' = GoesTo(ctiReq, w, step)

\* WHERE parent = $1, and active unless staff ask.
Offered(role, level, p) ==
  {n \in Of(level) : There(n) /\ node[n].parent = p /\ (node[n].active \/ role = "staff")}

\* What is done with a form: a new ticket, or an update, whose assignee comes first.
Submitted(r) ==
  IF r.op = "file" THEN "insertTicket" ELSE IF r.assigns THEN "getTicket" ELSE "putCTI"

ListCategories(w) ==
  LET r == ctiReq[w] IN
  /\ r # Nil /\ r.step = "categories"
  /\ \/ \E c \in Offered(r.role, "category", Nil) :
          ctiReq' = [ctiReq EXCEPT ![w].category = c,
                       ![w].step = IF r.role = "guest" THEN Submitted(r) ELSE "types"]
     \/ CTIEnds(w)                       \* nothing to pick, nothing picked
  /\ UNCHANGED <<ctiTables, fallback, alone, ctiFaults, ctiCount>>

ListTypes(w) ==
  LET r == ctiReq[w] IN
  /\ r # Nil /\ r.step = "types"
  /\ \/ \E y \in Offered(r.role, "type", r.category) :
          ctiReq' = [ctiReq EXCEPT ![w].type = y,
                       ![w].step = IF r.role = "user" THEN Submitted(r) ELSE "items"]
     \/ CTIGoes(w, Submitted(r))
  /\ UNCHANGED <<ctiTables, fallback, alone, ctiFaults, ctiCount>>

ListItems(w) ==
  LET r == ctiReq[w] IN
  /\ r # Nil /\ r.step = "items"
  /\ \/ \E i \in Offered(r.role, "item", r.type) :
          ctiReq' = [ctiReq EXCEPT ![w].item = i, ![w].step = Submitted(r)]
     \/ CTIGoes(w, Submitted(r))
  /\ UNCHANGED <<ctiTables, fallback, alone, ctiFaults, ctiCount>>

-----------------------------------------------------------------------------
(* Tickets are filed, routed, assigned and reclassified.                   *)

Classifiable(c, y, i) == There(c) /\ NullOrThere(y) /\ NullOrThere(i) /\ TypeOfCategory(c, y)

InsertFiled(w) ==
  LET r == ctiReq[w] IN
  /\ r # Nil /\ r.step = "insertTicket"
  /\ IF Classifiable(r.category, r.type, r.item)
     THEN /\ filed' = [filed EXCEPT ![r.ticket] =
               [category |-> r.category, type |-> r.type, item |-> r.item, group |-> Nil]]
          /\ CTIGoes(w, "route")
     ELSE CTIEnds(w) /\ UNCHANGED filed
  /\ UNCHANGED <<node, group, scope, canned, fallback, alone, ctiFaults, ctiCount>>

\* Mutant of InScope: a group that covers one type gets every ticket of the category.
InScopeAnyType(c, y) == {g \in Groups : \E z \in Nodes \cup {Nil} : <<g, c, z>> \in scope}

\* gs.category_id = $1 AND (gs.type_id IS NULL OR gs.type_id = $2).
InScope(c, y) == {g \in Groups : \E z \in {Nil, y} : <<g, c, z>> \in scope}

AssignTo(w, g) == ctiReq' = [ctiReq EXCEPT ![w].group = g, ![w].step = "getTicket"]

\* The first group in scope by name; if there is none ...
RouteTicket(w) ==
  LET r == ctiReq[w]
      fits == InScope(r.category, r.type)
  IN
  /\ r # Nil /\ r.step = "route"
  /\ (\E g \in fits : AssignTo(w, g)) \/ (fits = {} /\ CTIGoes(w, "fallback"))
  /\ UNCHANGED <<ctiTables, fallback, alone, ctiFaults, ctiCount>>

\* ... the group that the settings name, or else the next of a list of users, or nobody.
RouteToFallback(w) ==
  /\ ctiReq[w] # Nil /\ ctiReq[w].step = "fallback"
  /\ AssignTo(w, fallback) \/ (fallback = Nil /\ CTIEnds(w))
  /\ UNCHANGED <<ctiTables, fallback, alone, ctiFaults, ctiCount>>

\* Assign: the row is read ...
AssignReads(w) ==
  LET r == ctiReq[w] IN
  /\ r # Nil /\ r.step = "getTicket"
  /\ ctiReq' = [ctiReq EXCEPT ![w].held = filed[r.ticket], ![w].step = "putTicket"]
  /\ UNCHANGED <<ctiTables, fallback, alone, ctiFaults, ctiCount>>

\* Mutant of Rewritten: the statement leaves the item alone.
RewrittenButItem(row, held, g) == [row EXCEPT !.type = held.type, !.group = g]

\* UPDATE tickets SET ... type_id, item_id, ... assignee_group_id: not the category.
Rewritten(row, held, g) == [row EXCEPT !.type = held.type, !.item = held.item, !.group = g]

\* ... and written, unless a constraint refuses it; filing a ticket drops the error.
AssignWrites(w) ==
  LET r   == ctiReq[w]
      new == Rewritten(filed[r.ticket], r.held, r.group)
      ok  == Classifiable(new.category, new.type, new.item) /\ (r.group # Nil => r.group \in group)
  IN
  /\ r # Nil /\ r.step = "putTicket"
  /\ filed' = IF ok THEN [filed EXCEPT ![r.ticket] = new] ELSE filed
  /\ IF ok /\ r.classifies THEN CTIGoes(w, "putCTI") ELSE CTIEnds(w)
  /\ UNCHANGED <<node, group, scope, canned, fallback, alone, ctiFaults, ctiCount>>

UpdateCTI(w) ==
  LET r == ctiReq[w] IN
  /\ r # Nil /\ r.step = "putCTI"
  /\ CTIEnds(w)
  /\ filed' = IF Classifiable(r.category, r.type, r.item)
              THEN [filed EXCEPT ![r.ticket].category = r.category, ![r.ticket].type = r.type,
                                 ![r.ticket].item = r.item]
              ELSE filed
  /\ UNCHANGED <<node, group, scope, canned, fallback, alone, ctiFaults, ctiCount>>

-----------------------------------------------------------------------------
(* Administrators edit the tree.                                           *)

\* CreateType and CreateItem look for the parent first.
GetParent(w) ==
  LET r == ctiReq[w] IN
  /\ r # Nil /\ r.step = "getParent"
  /\ IF There(r.parent) THEN CTIGoes(w, "insertNode") ELSE CTIEnds(w)
  /\ UNCHANGED <<ctiTables, fallback, alone, ctiFaults, ctiCount>>

InsertNode(w) ==
  LET r == ctiReq[w] IN
  /\ r # Nil /\ r.step = "insertNode"
  /\ CTIEnds(w)
  /\ node' = IF NullOrThere(r.parent)
             THEN [node EXCEPT ![r.node] = [parent |-> r.parent, active |-> TRUE]] ELSE node
  /\ UNCHANGED <<filed, group, scope, canned, fallback, alone, ctiFaults, ctiCount>>

\* Mutant of ActiveSent: a flag that is not sent is written as it is.
ActiveUnchecked(sent, old) == sent

ActiveSent(sent, old) == IF sent = Nil THEN old ELSE sent

\* PATCH reads the row; the flag it will write is decided here.
GetNode(w) ==
  LET r == ctiReq[w] IN
  /\ r # Nil /\ r.step = "getNode"
  /\ IF There(r.node)
     THEN ctiReq' = [ctiReq EXCEPT ![w].step = "putNode",
                       ![w].active = ActiveSent(r.active, node[r.node].active)]
     ELSE CTIEnds(w)
  /\ UNCHANGED <<ctiTables, fallback, alone, ctiFaults, ctiCount>>

PutNode(w) ==
  LET r == ctiReq[w] IN
  /\ r # Nil /\ r.step = "putNode"
  /\ CTIEnds(w)
  /\ node' = IF There(r.node) THEN [node EXCEPT ![r.node].active = r.active] ELSE node
  /\ UNCHANGED <<filed, group, scope, canned, fallback, alone, ctiFaults, ctiCount>>

\* What is below goes with a node, and the scopes and canned responses that name it.
DeleteNode(w) ==
  LET r == ctiReq[w]
      gone == Below(r.node)
  IN
  /\ r # Nil /\ r.step = "deleteNode"
  /\ CTIEnds(w)
  /\ IF \E n \in gone : HeldByTicket(n)
     THEN UNCHANGED <<node, scope, canned>>
     ELSE /\ node' = [n \in Nodes |-> IF n \in gone THEN Nil ELSE node[n]]
          /\ scope' = {s \in scope : s[2] \notin gone /\ s[3] \notin gone}
          /\ canned' = [k \in Canned |->
               IF canned[k] # Nil /\ {canned[k].category, canned[k].type} \cap gone # {}
               THEN Nil ELSE canned[k]]
  /\ UNCHANGED <<filed, group, fallback, alone, ctiFaults, ctiCount>>

-----------------------------------------------------------------------------
(* Groups and their scopes.                                                *)

AddGroupScope(w) ==
  LET r == ctiReq[w] IN
  /\ r # Nil /\ r.step = "addScope"
  /\ CTIEnds(w)
  /\ scope' = IF r.group \in group /\ Scopable(r.category, r.type)
              THEN scope \cup {<<r.group, r.category, r.type>>} ELSE scope
  /\ UNCHANGED <<node, filed, group, canned, fallback, alone, ctiFaults, ctiCount>>

RemoveGroupScope(w) ==
  LET r == ctiReq[w] IN
  /\ r # Nil /\ r.step = "removeScope"
  /\ CTIEnds(w)
  /\ scope' = scope \ {<<r.group, r.category, r.type>>}
  /\ UNCHANGED <<node, filed, group, canned, fallback, alone, ctiFaults, ctiCount>>

\* tickets(assignee_group_id) ... ON DELETE SET NULL.
WithoutGroup(row, g) == IF row # Nil /\ row.group = g THEN [row EXCEPT !.group = Nil] ELSE row

\* Its scopes go with a group; the setting that names it stays.
DeleteGroup(w) ==
  LET r == ctiReq[w] IN
  /\ r # Nil /\ r.step = "deleteGroup"
  /\ CTIEnds(w)
  /\ group' = group \ {r.group}
  /\ scope' = {s \in scope : s[1] # r.group}
  /\ filed' = [t \in Tickets |-> WithoutGroup(filed[t], r.group)]
  /\ UNCHANGED <<node, canned, fallback, alone, ctiFaults, ctiCount>>

SetFallback(w) ==
  LET r == ctiReq[w] IN
  /\ r # Nil /\ r.step = "setFallback"
  /\ CTIEnds(w)
  /\ fallback' = r.group
  /\ UNCHANGED <<ctiTables, alone, ctiFaults, ctiCount>>

-----------------------------------------------------------------------------
(* Canned responses.                                                       *)

\* A response is inserted or updated; the update of one that is gone changes nothing, and
\* the row that is read again afterwards is not found.
PutCanned(w) ==
  LET r == ctiReq[w] IN
  /\ r # Nil /\ r.step \in {"insertCanned", "updateCanned"}
  /\ CTIEnds(w)
  /\ canned' = IF Scopable(r.category, r.type) /\ (r.step = "updateCanned" => canned[r.canned] # Nil)
               THEN [canned EXCEPT ![r.canned] = [category |-> r.category, type |-> r.type]]
               ELSE canned
  /\ UNCHANGED <<node, filed, group, scope, fallback, alone, ctiFaults, ctiCount>>

DeleteCanned(w) ==
  LET r == ctiReq[w] IN
  /\ r # Nil /\ r.step = "deleteCanned"
  /\ CTIEnds(w)
  /\ canned' = [canned EXCEPT ![r.canned] = Nil]
  /\ UNCHANGED <<node, filed, group, scope, fallback, alone, ctiFaults, ctiCount>>

GetClassified(w) ==
  LET r == ctiReq[w] IN
  /\ r # Nil /\ r.step = "getClassified"
  /\ ctiReq' = [ctiReq EXCEPT ![w].step = "listCanned", ![w].category = filed[r.ticket].category,
                  ![w].type = filed[r.ticket].type]
  /\ UNCHANGED <<ctiTables, fallback, alone, ctiFaults, ctiCount>>

\* Mutant of Available: a response for a type is shown on the whole category.
AvailableByCategory(k, c, y) == k.category \in {Nil, c}

Available(k, c, y) == k.category = Nil \/ (k.category = c /\ k.type \in {Nil, y})

ListCanned(w) ==
  LET r == ctiReq[w]
      rows == {canned[k] : k \in Canned} \ {Nil}
  IN
  /\ r # Nil /\ r.step = "listCanned"
  /\ ctiReq' = [ctiReq EXCEPT ![w].step = "picked",
                  ![w].answer = {k \in rows : Available(k, r.category, r.type)}]
  /\ UNCHANGED <<ctiTables, fallback, alone, ctiFaults, ctiCount>>

\* The picker shows the answer.
CannedPicked(w) ==
  /\ ctiReq[w] # Nil /\ ctiReq[w].step = "picked"
  /\ CTIEnds(w)
  /\ UNCHANGED <<ctiTables, fallback, alone, ctiFaults, ctiCount>>

-----------------------------------------------------------------------------

\* A statement fails, and its request with it.  While a new ticket is routed no error is
\* returned: after the search for its groups comes the setting, after the setting the list
\* of users.
CTIFails(w) ==
  LET r == ctiReq[w] IN
  /\ r # Nil /\ r.step # "picked"
  /\ ctiFaults < MaxCTIFaults /\ ctiFaults' = ctiFaults + 1
  /\ \/ r.step = "route" /\ CTIGoes(w, "fallback")
     \/ r.step = "fallback" /\ AssignTo(w, Nil)
     \/ r.step # "route" /\ CTIEnds(w)
  /\ UNCHANGED <<ctiTables, fallback, alone, ctiCount>>

-----------------------------------------------------------------------------

CTIArrive(w) ==
  HandleCreateTicket(w) \/ HandleUpdateTicketCTI(w) \/ HandleListTicketCannedResponses(w)
  \/ HandleCreateNode(w) \/ HandleUpdateNode(w) \/ HandleDeleteNode(w)
  \/ HandleGroupScope(w) \/ HandleDeleteGroup(w) \/ HandleUpdateSettings(w) \/ HandleCannedResponse(w)

CTIStatement(w) ==
  ListCategories(w) \/ ListTypes(w) \/ ListItems(w)
  \/ InsertFiled(w) \/ RouteTicket(w) \/ RouteToFallback(w) \/ AssignReads(w) \/ AssignWrites(w) \/ UpdateCTI(w)
  \/ GetParent(w) \/ InsertNode(w) \/ GetNode(w) \/ PutNode(w) \/ DeleteNode(w)
  \/ AddGroupScope(w) \/ RemoveGroupScope(w) \/ DeleteGroup(w) \/ SetFallback(w)
  \/ PutCanned(w) \/ DeleteCanned(w) \/ GetClassified(w) \/ ListCanned(w) \/ CannedPicked(w)
  \/ CTIFails(w)

CTIExhausted ==
  /\ ctiCount = MaxCTIRequests /\ \A w \in Workers : ctiReq[w] = Nil
  /\ UNCHANGED <<ctiTables, fallback, ctiReq, alone, ctiFaults, ctiCount>>

\* What DESIGN.md means by the groups of a category and type.
Covering(c, y, s) == {x[1] : x \in {z \in s : z[2] = c /\ (z[3] = Nil \/ z[3] = y)}}

\* What a request has met: the groups that covered the ticket it files since it was
\* inserted, the fallback, whether a statement failed; the classifications of the ticket it picks a response for.
Seeing(w) ==
  LET r == ctiReq'[w]
      t == r.ticket
  IN
  IF r # Nil /\ r.op = "file" /\ filed'[t] # Nil
    THEN [seen[w] EXCEPT !.groups = @ \cup Covering(r.category, r.type, scope') \cup ({fallback'} \ {Nil}),
                         !.failed = @ \/ ctiFaults' # ctiFaults]
  ELSE IF r # Nil /\ r.op = "pick"
    THEN [seen[w] EXCEPT !.classes = @ \cup {<<filed'[t].category, filed'[t].type>>}]
  ELSE Nothing

CTINext ==
  /\ (\E w \in Workers : CTIArrive(w) \/ CTIStatement(w)) \/ CTIExhausted
  /\ seen' = [w \in Workers |-> Seeing(w)]

CTISpec == CTIInit /\ [][CTINext]_ctiVars

-----------------------------------------------------------------------------
(* What must hold.                                                         *)

\* Nothing refers to what is not there, and a type is named with the category it is of,
\* whatever administrators delete between the statements of a request: the rows of the
\* tree to their parents, tickets, scopes and canned responses to nodes and groups.
TreeClosed ==
  NodesIn(node) /\ RowsIn(filed, node, group) /\ ScopesIn(scope, node, group) /\ CannedIn(canned, node)

\* While clients send what the form offers, the item of a ticket is one of its type: no
\* constraint says so, and an assignment may write both back over a reclassification.
ItemOfType == ItemsMatch(filed, node)

\* A new ticket goes to a group that covered it, or was the fallback, at some moment since it
\* was filed, or to no group.  While requests come one at a time and no statement fails, it
\* goes to a group that covers it if there is one, and else to the fallback, unless that
\* names a group that is gone.  (handleCreateTicket)
RoutedInScope ==
  [][\A w \in Workers :
       LET r == ctiReq[w]
           g == filed'[r.ticket].group
           fits == Covering(r.category, r.type, scope)
           wanted == IF fits # {} THEN fits ELSE {fallback} \cap group
       IN
       r # Nil /\ r.op = "file" /\ filed[r.ticket] # Nil /\ ctiReq'[w] = Nil =>
         /\ g # filed[r.ticket].group => g \in seen[w].groups \cup {Nil}
         /\ alone /\ ~seen[w].failed /\ ctiFaults' = ctiFaults /\ wanted # {} => g \in wanted]_ctiVars

\* The picker shows responses for a classification that the ticket had while it was asked;
\* while requests come one at a time, all that are for its own.  (Available)
OfferedFits ==
  \A w \in Workers :
    LET r == ctiReq[w]
        for(k, c, y) == k.category = Nil \/ (k.category = c /\ (k.type = Nil \/ k.type = y))
    IN
    r # Nil /\ r.step = "picked" =>
      /\ \A k \in r.answer : \E x \in seen[w].classes : for(k, x[1], x[2])
      /\ alone => \A k \in Canned : canned[k] # Nil /\ for(canned[k], r.category, r.type)
                                   => canned[k] \in r.answer
=============================================================================
