------------------------ MODULE Classification_proofs ------------------------
(***************************************************************************)
(* The tree of categories, types and items, and what refers to it, for any *)
(* number of nodes, tickets, groups, canned responses and requests.        *)
(*                                                                         *)
(* Foreign keys look at one row at a time; that an item stays with its     *)
(* type rests on what a request holds between its statements, and on no id *)
(* being given to a second node while somebody remembers the first.        *)
(***************************************************************************)
EXTENDS Classification, TLAPS

Above(n) == IF Level[n] = "type" THEN "category" ELSE "type"

\* Item i is of type y, if it is there at all.
Pair(nodes, i, y) == i # Nil /\ nodes[i] # Nil => nodes[i].parent = y

\* The request is about to create a node.
Creates(r) == r.step \in {"getParent", "insertNode"}

\* What a request holds at each statement, the tables being `nodes` and `rows`.
Holds(r, nodes, rows) ==
  /\ r.op \in {"file", "update", "pick"} => r.ticket \in Tickets
  /\ r.op \in {"update", "pick"} \/ r.step \in {"route", "fallback", "getTicket", "putTicket"} => rows[r.ticket] # Nil
  /\ r.step \in {"categories", "types", "items", "getTicket", "putTicket"} => r.op \in {"file", "update"}
  /\ r.op = "file" =>
       r.step \in {"categories", "types", "items", "insertTicket", "route", "fallback", "getTicket", "putTicket"}
  /\ r.step \in {"insertTicket", "route", "fallback"} => r.op = "file"
  /\ r.step = "putCTI" \/ r.classifies => r.op = "update"
  /\ r.step \in {"getClassified", "listCanned", "picked"} => r.op = "pick"
  /\ r.step \in {"types", "items", "insertTicket", "putCTI"}
       \/ (r.step \in {"getTicket", "putTicket"} /\ r.classifies) => r.category \in Of("category")
  /\ r.step \in {"categories", "types", "items"} \/ r.op = "pick" => r.item = Nil
  /\ Pair(nodes, r.item, r.type)
  /\ r.held # Nil => Pair(nodes, r.held.item, r.held.type)
  /\ r.step = "putTicket" => r.held # Nil
  /\ Creates(r) =>
       /\ r.node \in Nodes /\ nodes[r.node] = Nil
       /\ IF Level[r.node] = "category" THEN r.parent = Nil ELSE r.parent \in Of(Above(r.node))
  /\ r.step \in {"getNode", "putNode", "deleteNode"} => r.node \in Nodes
  /\ r.step = "putNode" => r.active \in BOOLEAN
  /\ r.step \in {"addScope", "removeScope"} => r.category \in Of("category")
  /\ r.step \in {"addScope", "removeScope", "deleteGroup"} => r.group \in Groups
  /\ r.step \in {"insertCanned", "updateCanned", "deleteCanned"} =>
       r.canned \in Canned /\ (r.type # Nil => r.category # Nil)

\* The node that q creates is one that r does not remember.
Clear(q, r) ==
  Creates(q) =>
    /\ q.node # r.item
    /\ r.held # Nil => q.node # r.held.item
    /\ Creates(r) => q.node # r.node

Tables ==
  /\ node \in [Nodes -> NodeRow \cup {Nil}]
  /\ filed \in [Tickets -> Filed \cup {Nil}]
  /\ group \subseteq Groups
  /\ scope \subseteq Groups \X Of("category") \X (Of("type") \cup {Nil})
  /\ canned \in [Canned -> CannedRow \cup {Nil}]

Settled ==
  /\ fallback \in Groups \cup {Nil} /\ alone \in BOOLEAN
  /\ ctiFaults \in 0..MaxCTIFaults /\ ctiCount \in 0..MaxCTIRequests

Requests ==
  /\ ctiReq \in [Workers -> CTIRequest \cup {Nil}]
  /\ \A w \in Workers : ctiReq[w] # Nil => Holds(ctiReq[w], node, filed)
  /\ \A v, w \in Workers :
       v # w /\ ctiReq[v] # Nil /\ ctiReq[w] # Nil => Clear(ctiReq[v], ctiReq[w])

TreeInv == Tables /\ TreeClosed /\ ItemOfType
CTIInv  == TreeInv /\ Settled /\ Requests

\* Tickets stay, nodes keep their parents, and only the request of w creates one.
Grows(w) ==
  /\ \A t \in Tickets : filed[t] # Nil => filed'[t] # Nil
  /\ \A n \in Nodes : node'[n] # Nil =>
       IF node[n] # Nil THEN node'[n].parent = node[n].parent
       ELSE ctiReq[w] # Nil /\ ctiReq[w].step = "insertNode" /\ n = ctiReq[w].node

-----------------------------------------------------------------------------
(* How requests move.                                                      *)

LEMMA RequestNow ==
  ASSUME CTIInv, NEW w \in Workers, ctiReq[w] # Nil
  PROVE  ctiReq[w] \in CTIRequest /\ Holds(ctiReq[w], node, filed)
  BY DEF CTIInv, Requests

LEMMA OthersHold ==
  ASSUME CTIInv, NEW w \in Workers, NEW v \in Workers, v # w, Grows(w), ctiReq[v] # Nil
  PROVE  Holds(ctiReq[v], node', filed')
<1> DEFINE r == ctiReq[v]
<1>1. r \in CTIRequest /\ Holds(r, node, filed) /\ (r.held # Nil => r.held \in Filed)
  BY RequestNow DEF CTIRequest
<1>2. ctiReq[w] # Nil /\ ctiReq[w].step = "insertNode" => Clear(ctiReq[w], r)
  BY DEF CTIInv, Requests
<1>3. ASSUME NEW i \in Nodes \cup {Nil}, NEW y, Pair(node, i, y),
             ctiReq[w] # Nil /\ ctiReq[w].step = "insertNode" => i # ctiReq[w].node
      PROVE  Pair(node', i, y)
  BY <1>3 DEF Pair, Grows
<1>4. Pair(node', r.item, r.type)
  BY <1>1, <1>2, <1>3 DEF Holds, Clear, Creates, CTIRequest, Of
<1>5. r.held # Nil => Pair(node', r.held.item, r.held.type)
  BY <1>1, <1>2, <1>3 DEF Holds, Clear, Creates, Filed, Of
<1>6. Creates(r) => node'[r.node] = Nil
  BY <1>1, <1>2 DEF Holds, Clear, Creates, Grows
<1>7. r.ticket \in Tickets /\ filed[r.ticket] # Nil => filed'[r.ticket] # Nil
  BY DEF Grows
<1> QED
  <2> HIDE DEF r
  <2>1. Holds(r, node', filed')
    BY <1>1, <1>4, <1>5, <1>6, <1>7 DEF Holds
  <2> QED BY <2>1 DEF r

\* The request of w moves to q, or ends.
LEMMA RequestMoves ==
  ASSUME CTIInv, NEW w \in Workers, Grows(w), NEW q \in CTIRequest \cup {Nil},
         ctiReq' = [ctiReq EXCEPT ![w] = q],
         q # Nil => Holds(q, node', filed'),
         \A v \in Workers \ {w} : q # Nil /\ ctiReq[v] # Nil => Clear(q, ctiReq[v]) /\ Clear(ctiReq[v], q)
  PROVE  Requests'
<1>1. ctiReq \in [Workers -> CTIRequest \cup {Nil}]
  BY DEF CTIInv, Requests
<1>2. ctiReq' \in [Workers -> CTIRequest \cup {Nil}] /\ ctiReq'[w] = q
      /\ \A v \in Workers \ {w} : ctiReq'[v] = ctiReq[v]
  BY <1>1
<1>3. ASSUME NEW v \in Workers, ctiReq'[v] # Nil PROVE Holds(ctiReq'[v], node', filed')
  BY <1>2, <1>3, OthersHold
<1>4. ASSUME NEW u \in Workers, NEW v \in Workers, u # v, ctiReq'[u] # Nil, ctiReq'[v] # Nil
      PROVE  Clear(ctiReq'[u], ctiReq'[v])
  <2>1. CASE u # w /\ v # w
    BY <1>2, <1>4, <2>1 DEF CTIInv, Requests
  <2>2. CASE u = w \/ v = w
    BY <1>2, <1>4, <2>2
  <2> QED BY <2>1, <2>2
<1> QED BY <1>2, <1>3, <1>4 DEF Requests

LEMMA RequestEnds ==
  ASSUME CTIInv, NEW w \in Workers, Grows(w), CTIEnds(w)
  PROVE  Requests'
<1>1. ctiReq' = [ctiReq EXCEPT ![w] = Nil]
  BY DEF CTIEnds, Ended
<1> QED BY <1>1, RequestMoves

\* It goes on, and remembers no other node than before.
LEMMA RequestGoes ==
  ASSUME CTIInv, NEW w \in Workers, Grows(w), ctiReq[w] # Nil, NEW q \in CTIRequest,
         ctiReq' = [ctiReq EXCEPT ![w] = q], Holds(q, node', filed'),
         q.item = ctiReq[w].item, q.held = ctiReq[w].held, q.node = ctiReq[w].node,
         Creates(q) => Creates(ctiReq[w])
  PROVE  Requests'
<1>1. ASSUME NEW v \in Workers \ {w}, ctiReq[v] # Nil
      PROVE  Clear(q, ctiReq[v]) /\ Clear(ctiReq[v], q)
  <2>1. Clear(ctiReq[w], ctiReq[v]) /\ Clear(ctiReq[v], ctiReq[w])
    BY <1>1 DEF CTIInv, Requests
  <2> QED BY <2>1 DEF Clear
<1> QED BY <1>1, RequestMoves

\* Statements that leave the tables alone.
Reads ==
  /\ UNCHANGED ctiTables /\ alone' = alone /\ fallback' \in Groups \cup {Nil}
  /\ ctiFaults' \in 0..MaxCTIFaults /\ ctiCount' \in 0..MaxCTIRequests

LEMMA ReadingKeeps ==
  ASSUME CTIInv, Reads
  PROVE  TreeInv' /\ Settled' /\ \A w \in Workers : Grows(w)
<1>1. node' = node /\ filed' = filed /\ group' = group /\ scope' = scope /\ canned' = canned
      /\ fallback' \in Groups \cup {Nil} /\ alone' = alone
      /\ ctiFaults' \in 0..MaxCTIFaults /\ ctiCount' \in 0..MaxCTIRequests
  BY DEF Reads, ctiTables
<1>2. Tables'
  BY <1>1 DEF CTIInv, TreeInv, Tables
<1>3. TreeClosed'
  BY <1>1 DEF CTIInv, TreeInv, TreeClosed
<1>4. ItemOfType'
  BY <1>1 DEF CTIInv, TreeInv, ItemOfType
<1>5. Settled'
  BY <1>1 DEF CTIInv, Settled
<1> QED BY <1>1, <1>2, <1>3, <1>4, <1>5 DEF TreeInv, Grows

\* A request arrives with nothing in hand, or with the id of the node it creates.
LEMMA Arrives ==
  ASSUME CTIInv, NEW w \in Workers, NEW q \in CTIRequest, CTIBegins(w, q), Holds(q, node, filed),
         q.item = Nil, q.held = Nil, Creates(q) => Fresh(q.node)
  PROVE  CTIInv' /\ Grows(w)
<1>1. ctiReq[w] = Nil /\ ctiReq' = [ctiReq EXCEPT ![w] = q] /\ UNCHANGED <<ctiTables, fallback, alone, ctiFaults>>
      /\ ctiCount < MaxCTIRequests /\ ctiCount' = ctiCount + 1
  BY DEF CTIBegins
<1>2. Reads
  BY <1>1, CTIAssumption DEF Reads, CTIInv, Settled
<1>3. TreeInv' /\ Settled' /\ Grows(w)
  BY <1>2, ReadingKeeps
<1>4. Holds(q, node', filed')
  BY <1>1 DEF ctiTables
<1>5. ASSUME NEW v \in Workers \ {w}, ctiReq[v] # Nil
      PROVE  Clear(q, ctiReq[v]) /\ Clear(ctiReq[v], q)
  <2>1. ctiReq[v] \in CTIRequest /\ Holds(ctiReq[v], node, filed)
        /\ (ctiReq[v].held # Nil => ctiReq[v].held \in Filed)
    BY <1>5, RequestNow DEF CTIRequest
  <2>2. Creates(ctiReq[v]) => ctiReq[v].node # Nil
    BY <2>1, CTINilAssumption DEF Holds
  <2>3. Creates(q) =>
          /\ q.node # ctiReq[v].item /\ q.node # ctiReq[v].node
          /\ ctiReq[v].held # Nil => q.node # ctiReq[v].held.item
    BY <1>5 DEF Fresh
  <2> QED BY <2>2, <2>3 DEF Clear
<1> QED BY <1>1, <1>3, <1>4, <1>5, RequestMoves DEF CTIInv

LEMMA BlankRequest == CTIBlank \in CTIRequest
  BY DEF CTIBlank, CTIRequest, CTIOps, CTISteps

LEMMA ArriveAtTickets ==
  ASSUME CTIInv, NEW w \in Workers,
         HandleCreateTicket(w) \/ HandleUpdateTicketCTI(w) \/ HandleListTicketCannedResponses(w)
  PROVE  CTIInv' /\ Grows(w)
<1>1. CASE HandleCreateTicket(w)
  <2>1. PICK t \in Tickets, x \in {"guest", "user", "staff"} :
          CTIBegins(w, [CTIBlank EXCEPT !.ticket = t, !.role = x])
    BY <1>1 DEF HandleCreateTicket
  <2> DEFINE q == [CTIBlank EXCEPT !.ticket = t, !.role = x]
  <2>2. q \in CTIRequest /\ q.op = "file" /\ q.step = "categories" /\ q.ticket = t /\ q.item = Nil
        /\ q.held = Nil /\ ~q.classifies
    BY DEF CTIBlank, CTIRequest, CTIOps, CTISteps
  <2>3. CTIBegins(w, q)
    BY <2>1
  <2> HIDE DEF q
  <2>4. Holds(q, node, filed) /\ ~Creates(q)
    BY <2>2 DEF Holds, Creates, Pair
  <2> QED BY <2>2, <2>3, <2>4, Arrives
<1>2. CASE HandleUpdateTicketCTI(w)
  <2>1. PICK t \in Tickets, g \in Groups \cup {Nil}, a \in BOOLEAN, c \in BOOLEAN :
          filed[t] # Nil /\
          CTIBegins(w, [CTIBlank EXCEPT !.op = "update", !.step = IF c THEN "categories" ELSE "getTicket",
                          !.ticket = t, !.assigns = a, !.classifies = c, !.group = g])
    BY <1>2 DEF HandleUpdateTicketCTI
  <2> DEFINE q == [CTIBlank EXCEPT !.op = "update", !.step = IF c THEN "categories" ELSE "getTicket",
                     !.ticket = t, !.assigns = a, !.classifies = c, !.group = g]
  <2>2. q \in CTIRequest /\ q.op = "update" /\ q.ticket = t /\ q.item = Nil
        /\ q.held = Nil /\ q.classifies = c /\ q.step = (IF c THEN "categories" ELSE "getTicket")
    BY DEF CTIBlank, CTIRequest, CTIOps, CTISteps
  <2>3. CTIBegins(w, q)
    BY <2>1
  <2> HIDE DEF q
  <2>4. Holds(q, node, filed) /\ ~Creates(q)
    BY <2>1, <2>2 DEF Holds, Creates, Pair
  <2> QED BY <2>2, <2>3, <2>4, Arrives
<1>3. CASE HandleListTicketCannedResponses(w)
  <2>1. PICK t \in Tickets :
          filed[t] # Nil /\
          CTIBegins(w, [CTIBlank EXCEPT !.op = "pick", !.step = "getClassified", !.ticket = t])
    BY <1>3 DEF HandleListTicketCannedResponses
  <2> DEFINE q == [CTIBlank EXCEPT !.op = "pick", !.step = "getClassified", !.ticket = t]
  <2>2. q \in CTIRequest /\ q.op = "pick" /\ q.step = "getClassified" /\ q.ticket = t /\ q.item = Nil
        /\ q.held = Nil /\ ~q.classifies
    BY DEF CTIBlank, CTIRequest, CTIOps, CTISteps
  <2>3. CTIBegins(w, q)
    BY <2>1
  <2> HIDE DEF q
  <2>4. Holds(q, node, filed) /\ ~Creates(q)
    BY <2>1, <2>2 DEF Holds, Creates, Pair
  <2> QED BY <2>2, <2>3, <2>4, Arrives
<1> QED BY <1>1, <1>2, <1>3

LEMMA ArriveAtTree ==
  ASSUME CTIInv, NEW w \in Workers, HandleCreateNode(w) \/ HandleUpdateNode(w) \/ HandleDeleteNode(w)
  PROVE  CTIInv' /\ Grows(w)
<1>1. CASE HandleCreateNode(w)
  <2>1. PICK n \in Nodes, p \in Of("category") \cup Of("type") \cup {Nil} :
          /\ ~There(n) /\ Fresh(n)
          /\ CASE Level[n] = "category" -> p = Nil
               [] Level[n] = "type"     -> p \in Of("category")
               [] Level[n] = "item"     -> p \in Of("type")
          /\ CTIBegins(w, [CTIBlank EXCEPT !.op = "node", !.node = n, !.parent = p,
                              !.step = IF p = Nil THEN "insertNode" ELSE "getParent"])
    BY <1>1 DEF HandleCreateNode
  <2> DEFINE q == [CTIBlank EXCEPT !.op = "node", !.node = n, !.parent = p,
                     !.step = IF p = Nil THEN "insertNode" ELSE "getParent"]
  <2>2. p \in Nodes \cup {Nil} /\ Level[n] \in {"category", "type", "item"}
    BY LevelAssumption DEF Of
  <2>3. q \in CTIRequest /\ q.op = "node" /\ q.step \in {"insertNode", "getParent"} /\ q.node = n /\ q.parent = p
        /\ q.item = Nil /\ q.held = Nil /\ ~q.classifies
    BY <2>2 DEF CTIBlank, CTIRequest, CTIOps, CTISteps
  <2>4. CTIBegins(w, q)
    BY <2>1
  <2> HIDE DEF q
  <2>5. IF Level[n] = "category" THEN p = Nil ELSE p \in Of(Above(n))
    BY <2>1, <2>2 DEF Above
  <2>6. Holds(q, node, filed)
    BY <2>1, <2>3, <2>5 DEF Holds, Creates, Pair, There
  <2>7. Fresh(q.node)
    BY <2>1, <2>3
  <2> QED BY <2>3, <2>4, <2>6, <2>7, Arrives
<1>2. CASE HandleUpdateNode(w)
  <2>1. PICK n \in Nodes, a \in BOOLEAN \cup {Nil} :
          CTIBegins(w, [CTIBlank EXCEPT !.op = "patch", !.step = "getNode", !.node = n, !.active = a])
    BY <1>2 DEF HandleUpdateNode
  <2> DEFINE q == [CTIBlank EXCEPT !.op = "patch", !.step = "getNode", !.node = n, !.active = a]
  <2>2. q \in CTIRequest /\ q.op = "patch" /\ q.step = "getNode" /\ q.node = n /\ q.item = Nil
        /\ q.held = Nil /\ ~q.classifies
    BY DEF CTIBlank, CTIRequest, CTIOps, CTISteps
  <2>3. CTIBegins(w, q)
    BY <2>1
  <2> HIDE DEF q
  <2>4. Holds(q, node, filed) /\ ~Creates(q)
    BY <2>2 DEF Holds, Creates, Pair
  <2> QED BY <2>2, <2>3, <2>4, Arrives
<1>3. CASE HandleDeleteNode(w)
  <2>1. PICK n \in Nodes :
          CTIBegins(w, [CTIBlank EXCEPT !.op = "node", !.step = "deleteNode", !.node = n])
    BY <1>3 DEF HandleDeleteNode
  <2> DEFINE q == [CTIBlank EXCEPT !.op = "node", !.step = "deleteNode", !.node = n]
  <2>2. q \in CTIRequest /\ q.op = "node" /\ q.step = "deleteNode" /\ q.node = n /\ q.item = Nil
        /\ q.held = Nil /\ ~q.classifies
    BY DEF CTIBlank, CTIRequest, CTIOps, CTISteps
  <2>3. CTIBegins(w, q)
    BY <2>1
  <2> HIDE DEF q
  <2>4. Holds(q, node, filed) /\ ~Creates(q)
    BY <2>2 DEF Holds, Creates, Pair
  <2> QED BY <2>2, <2>3, <2>4, Arrives
<1> QED BY <1>1, <1>2, <1>3

LEMMA ArriveAtScopes ==
  ASSUME CTIInv, NEW w \in Workers,
         HandleGroupScope(w) \/ HandleDeleteGroup(w) \/ HandleUpdateSettings(w) \/ HandleCannedResponse(w)
  PROVE  CTIInv' /\ Grows(w)
<1>1. CASE HandleGroupScope(w)
  <2>1. PICK g \in Groups, c \in Of("category"), y \in Of("type") \cup {Nil}, s \in {"addScope", "removeScope"} :
          CTIBegins(w, [CTIBlank EXCEPT !.op = "scope", !.step = s, !.group = g, !.category = c, !.type = y])
    BY <1>1 DEF HandleGroupScope
  <2> DEFINE q == [CTIBlank EXCEPT !.op = "scope", !.step = s, !.group = g, !.category = c, !.type = y]
  <2>2. q \in CTIRequest /\ q.op = "scope" /\ q.step \in {"addScope", "removeScope"} /\ q.group = g
        /\ q.category = c /\ q.item = Nil /\ q.held = Nil /\ ~q.classifies
    BY DEF CTIBlank, CTIRequest, CTIOps, CTISteps
  <2>3. CTIBegins(w, q)
    BY <2>1
  <2> HIDE DEF q
  <2>4. Holds(q, node, filed) /\ ~Creates(q)
    BY <2>2 DEF Holds, Creates, Pair
  <2> QED BY <2>2, <2>3, <2>4, Arrives
<1>2. CASE HandleDeleteGroup(w)
  <2>1. PICK g \in Groups : CTIBegins(w, [CTIBlank EXCEPT !.op = "scope", !.step = "deleteGroup", !.group = g])
    BY <1>2 DEF HandleDeleteGroup
  <2> DEFINE q == [CTIBlank EXCEPT !.op = "scope", !.step = "deleteGroup", !.group = g]
  <2>2. q \in CTIRequest /\ q.op = "scope" /\ q.step = "deleteGroup" /\ q.group = g
        /\ q.item = Nil /\ q.held = Nil /\ ~q.classifies
    BY DEF CTIBlank, CTIRequest, CTIOps, CTISteps
  <2>3. CTIBegins(w, q)
    BY <2>1
  <2> HIDE DEF q
  <2>4. Holds(q, node, filed) /\ ~Creates(q)
    BY <2>2 DEF Holds, Creates, Pair
  <2> QED BY <2>2, <2>3, <2>4, Arrives
<1>3. CASE HandleCannedResponse(w)
  <2>1. PICK k \in Canned, c \in Of("category") \cup {Nil}, y \in Of("type") \cup {Nil},
             s \in {"insertCanned", "updateCanned", "deleteCanned"} :
          (y # Nil => c # Nil) /\
          CTIBegins(w, [CTIBlank EXCEPT !.op = "canned", !.step = s, !.canned = k, !.category = c, !.type = y])
    BY <1>3 DEF HandleCannedResponse
  <2> DEFINE q == [CTIBlank EXCEPT !.op = "canned", !.step = s, !.canned = k, !.category = c, !.type = y]
  <2>2. q \in CTIRequest /\ q.op = "canned" /\ q.step \in {"insertCanned", "updateCanned", "deleteCanned"}
        /\ q.canned = k /\ q.category = c /\ q.type = y /\ q.item = Nil /\ q.held = Nil /\ ~q.classifies
    BY DEF CTIBlank, CTIRequest, CTIOps, CTISteps
  <2>3. CTIBegins(w, q)
    BY <2>1
  <2> HIDE DEF q
  <2>4. Holds(q, node, filed) /\ ~Creates(q)
    BY <2>1, <2>2 DEF Holds, Creates, Pair
  <2> QED BY <2>2, <2>3, <2>4, Arrives
<1>4. CASE HandleUpdateSettings(w)
  <2>1. PICK g \in Groups \cup {Nil} :
          CTIBegins(w, [CTIBlank EXCEPT !.op = "scope", !.step = "setFallback", !.group = g])
    BY <1>4 DEF HandleUpdateSettings
  <2> DEFINE q == [CTIBlank EXCEPT !.op = "scope", !.step = "setFallback", !.group = g]
  <2>2. q \in CTIRequest /\ q.op = "scope" /\ q.step = "setFallback" /\ q.item = Nil /\ q.held = Nil
        /\ ~q.classifies
    BY DEF CTIBlank, CTIRequest, CTIOps, CTISteps
  <2>3. CTIBegins(w, q)
    BY <2>1
  <2> HIDE DEF q
  <2>4. Holds(q, node, filed) /\ ~Creates(q)
    BY <2>2 DEF Holds, Creates, Pair
  <2> QED BY <2>2, <2>3, <2>4, Arrives
<1> QED BY <1>1, <1>2, <1>3, <1>4

LEMMA Arriving ==
  ASSUME CTIInv, NEW w \in Workers, CTIArrive(w)
  PROVE  CTIInv' /\ Grows(w)
  BY ArriveAtTickets, ArriveAtTree, ArriveAtScopes DEF CTIArrive

-----------------------------------------------------------------------------
(* Statements that read.                                                   *)

\* A request that goes on to a statement s is a request.
LEMMA CarriedOn ==
  ASSUME NEW r \in CTIRequest, NEW s \in CTISteps
  PROVE  /\ [r EXCEPT !.step = s] \in CTIRequest
         /\ \A c \in Of("category") \cup {Nil} : [r EXCEPT !.category = c, !.step = s] \in CTIRequest
         /\ \A y \in Of("type") \cup {Nil} : [r EXCEPT !.type = y, !.step = s] \in CTIRequest
         /\ \A i \in Of("item") \cup {Nil} : [r EXCEPT !.item = i, !.step = s] \in CTIRequest
         /\ \A g \in Groups \cup {Nil} : [r EXCEPT !.group = g, !.step = s] \in CTIRequest
         /\ \A h \in Filed : [r EXCEPT !.held = h, !.step = s] \in CTIRequest
         /\ \A a \in BOOLEAN : [r EXCEPT !.step = s, !.active = a] \in CTIRequest
         /\ \A x \in SUBSET CannedRow : [r EXCEPT !.step = s, !.answer = x] \in CTIRequest
         /\ \A c \in Of("category"), y \in Of("type") \cup {Nil} :
               [r EXCEPT !.step = s, !.category = c, !.type = y] \in CTIRequest
<1>1. [r EXCEPT !.step = s] \in CTIRequest
  BY DEF CTIRequest
<1>2. ASSUME NEW c \in Of("category") \cup {Nil} PROVE [r EXCEPT !.category = c, !.step = s] \in CTIRequest
  BY DEF CTIRequest
<1>3. ASSUME NEW y \in Of("type") \cup {Nil} PROVE [r EXCEPT !.type = y, !.step = s] \in CTIRequest
  BY DEF CTIRequest
<1>4. ASSUME NEW i \in Of("item") \cup {Nil} PROVE [r EXCEPT !.item = i, !.step = s] \in CTIRequest
  BY DEF CTIRequest
<1>5. ASSUME NEW g \in Groups \cup {Nil} PROVE [r EXCEPT !.group = g, !.step = s] \in CTIRequest
  BY DEF CTIRequest
<1>6. ASSUME NEW h \in Filed PROVE [r EXCEPT !.held = h, !.step = s] \in CTIRequest
  BY DEF CTIRequest
<1>7. ASSUME NEW a \in BOOLEAN PROVE [r EXCEPT !.step = s, !.active = a] \in CTIRequest
  BY DEF CTIRequest
<1>8. ASSUME NEW x \in SUBSET CannedRow PROVE [r EXCEPT !.step = s, !.answer = x] \in CTIRequest
  BY DEF CTIRequest
<1>9. ASSUME NEW c \in Of("category"), NEW y \in Of("type") \cup {Nil}
      PROVE  [r EXCEPT !.step = s, !.category = c, !.type = y] \in CTIRequest
  BY DEF CTIRequest
<1> QED BY <1>1, <1>2, <1>3, <1>4, <1>5, <1>6, <1>7, <1>8, <1>9

\* A request that reads ends, or goes on to q and remembers no other node than before.
LEMMA LeavesTables ==
  ASSUME CTIInv, NEW w \in Workers, ctiReq[w] # Nil, Reads,
         NEW q, ctiReq' = [ctiReq EXCEPT ![w] = q],
         q = Nil \/ (/\ q \in CTIRequest /\ Holds(q, node, filed)
                     /\ q.item = ctiReq[w].item /\ q.held = ctiReq[w].held /\ q.node = ctiReq[w].node
                     /\ Creates(q) => Creates(ctiReq[w]))
  PROVE  CTIInv' /\ Grows(w)
<1>1. node' = node /\ filed' = filed
  BY DEF Reads, ctiTables
<1>2. TreeInv' /\ Settled' /\ Grows(w)
  BY ReadingKeeps
<1>3. CASE q = Nil
  BY <1>2, <1>3, RequestEnds DEF CTIInv, CTIEnds, Ended
<1>4. CASE q # Nil
  BY <1>1, <1>2, <1>4, RequestGoes DEF CTIInv
<1> QED BY <1>3, <1>4

LEMMA ReadsOn ==
  ASSUME CTIInv, NEW w \in Workers, ctiReq[w] # Nil, UNCHANGED <<ctiTables, fallback, alone, ctiFaults, ctiCount>>,
         NEW q, ctiReq' = [ctiReq EXCEPT ![w] = q],
         q = Nil \/ (/\ q \in CTIRequest /\ Holds(q, node, filed)
                     /\ q.item = ctiReq[w].item /\ q.held = ctiReq[w].held /\ q.node = ctiReq[w].node
                     /\ Creates(q) => Creates(ctiReq[w]))
  PROVE  CTIInv' /\ Grows(w)
<1>1. Reads
  BY DEF Reads, ctiTables, CTIInv, Settled
<1> QED BY <1>1, LeavesTables

\* As above, but it now remembers item i of type y, as what is filed or as what it holds.
LEMMA ReadsNode ==
  ASSUME CTIInv, NEW w \in Workers, ctiReq[w] # Nil, UNCHANGED <<ctiTables, fallback, alone, ctiFaults, ctiCount>>,
         NEW q \in CTIRequest, ctiReq' = [ctiReq EXCEPT ![w] = q], Holds(q, node, filed), ~Creates(q),
         q.item # Nil /\ q.item # ctiReq[w].item => node[q.item] # Nil,
         q.held # Nil /\ q.held # ctiReq[w].held /\ q.held.item # Nil => node[q.held.item] # Nil
  PROVE  CTIInv' /\ Grows(w)
<1>1. Reads /\ node' = node /\ filed' = filed
  BY DEF Reads, ctiTables, CTIInv, Settled
<1>2. TreeInv' /\ Settled' /\ Grows(w)
  BY <1>1, ReadingKeeps
<1>3. ASSUME NEW v \in Workers \ {w}, ctiReq[v] # Nil
      PROVE  Clear(q, ctiReq[v]) /\ Clear(ctiReq[v], q)
  <2>1. Clear(ctiReq[v], ctiReq[w]) /\ Holds(ctiReq[v], node, filed)
    BY <1>3, RequestNow DEF CTIInv, Requests
  <2>2. Creates(ctiReq[v]) => ctiReq[v].node # Nil /\ node[ctiReq[v].node] = Nil
    BY <2>1, CTINilAssumption DEF Holds
  <2> QED BY <2>1, <2>2 DEF Clear
<1> QED BY <1>1, <1>2, <1>3, RequestMoves DEF CTIInv

LEMMA FormReads ==
  ASSUME CTIInv, NEW w \in Workers, ListCategories(w) \/ ListTypes(w)
  PROVE  CTIInv' /\ Grows(w)
<1> DEFINE r == ctiReq[w]
<1>1. r # Nil /\ r \in CTIRequest /\ Holds(r, node, filed) /\ UNCHANGED <<ctiTables, fallback, alone, ctiFaults, ctiCount>>
  BY RequestNow DEF ListCategories, ListTypes
<1>2. CASE CTIEnds(w)
  BY <1>1, <1>2, ReadsOn DEF CTIEnds, Ended
<1>3. ASSUME NEW c \in Of("category"), r.step = "categories",
             ctiReq' = [ctiReq EXCEPT ![w].category = c,
                          ![w].step = IF r.role = "guest" THEN Submitted(r) ELSE "types"]
      PROVE  CTIInv' /\ Grows(w)
  <2> DEFINE q == [r EXCEPT !.category = c, !.step = IF r.role = "guest" THEN Submitted(r) ELSE "types"]
  <2>1. ctiReq' = [ctiReq EXCEPT ![w] = q]
    BY <1>3 DEF CTIInv, Requests
  <2>2. r.op \in {"file", "update"} /\ Submitted(r) \in {"insertTicket", "getTicket", "putCTI"}
    BY <1>1, <1>3 DEF Holds, Submitted
  <2>3. q \in CTIRequest /\ q.category = c /\ q.step = (IF r.role = "guest" THEN Submitted(r) ELSE "types")
        /\ q.op = r.op /\ q.ticket = r.ticket /\ q.type = r.type /\ q.item = r.item /\ q.held = r.held
        /\ q.node = r.node /\ q.classifies = r.classifies
    <3> HIDE DEF r
    <3>1. q \in CTIRequest
      BY <1>1, <2>2, CarriedOn DEF CTISteps
    <3> QED BY <1>1, <2>2, <3>1 DEF CTIRequest
  <2> HIDE DEF q
  <2>4. Holds(q, node, filed) /\ ~Creates(q)
    <3> HIDE DEF r
    <3> QED BY <1>1, <1>3, <2>2, <2>3 DEF Holds, Creates, Submitted
  <2> QED BY <1>1, <2>1, <2>3, <2>4, ReadsOn
<1>4. ASSUME NEW y \in Of("type") \cup {Nil}, r.step = "types", NEW step \in {"items", Submitted(r)},
             ctiReq' = [ctiReq EXCEPT ![w].type = y, ![w].step = step]
      PROVE  CTIInv' /\ Grows(w)
  <2> DEFINE q == [r EXCEPT !.type = y, !.step = step]
  <2>1. ctiReq' = [ctiReq EXCEPT ![w] = q]
    BY <1>4 DEF CTIInv, Requests
  <2>2. r.op \in {"file", "update"} /\ Submitted(r) \in {"insertTicket", "getTicket", "putCTI"} /\ r.item = Nil
    BY <1>1, <1>4 DEF Holds, Submitted
  <2>3. q \in CTIRequest /\ q.category = r.category /\ q.step = step
        /\ q.op = r.op /\ q.ticket = r.ticket /\ q.type = y /\ q.item = r.item /\ q.held = r.held
        /\ q.node = r.node /\ q.classifies = r.classifies
    <3> HIDE DEF r
    <3>1. q \in CTIRequest
      BY <1>1, <1>4, <2>2, CarriedOn DEF CTISteps
    <3> QED BY <1>1, <1>4, <2>2, <3>1 DEF CTIRequest
  <2> HIDE DEF q
  <2>4. Holds(q, node, filed) /\ ~Creates(q)
    <3> HIDE DEF r
    <3> QED BY <1>1, <1>4, <2>2, <2>3 DEF Holds, Creates, Submitted, Pair
  <2> QED BY <1>1, <2>1, <2>3, <2>4, ReadsOn
<1>5. CASE ListCategories(w)
  BY <1>2, <1>3, <1>5 DEF ListCategories, Offered
<1>6. CASE ListTypes(w)
  <2>1. CASE CTIGoes(w, Submitted(r)) /\ r.step = "types"
    <3>1. r.type \in Of("type") \cup {Nil}
      BY <1>1 DEF CTIRequest
    <3>2. ctiReq' = [ctiReq EXCEPT ![w].type = r.type, ![w].step = Submitted(r)]
      BY <1>1, <2>1 DEF CTIGoes, GoesTo, CTIInv, Requests, CTIRequest
    <3> QED BY <1>4, <2>1, <3>1, <3>2
  <2> QED BY <1>4, <1>6, <2>1 DEF ListTypes, Offered
<1> QED BY <1>5, <1>6

LEMMA ItemsRead ==
  ASSUME CTIInv, NEW w \in Workers, ListItems(w)
  PROVE  CTIInv' /\ Grows(w)
<1> DEFINE r == ctiReq[w]
<1>1. r # Nil /\ r.step = "items" /\ r \in CTIRequest /\ Holds(r, node, filed)
      /\ UNCHANGED <<ctiTables, fallback, alone, ctiFaults, ctiCount>>
  BY RequestNow DEF ListItems
<1>2. r.op \in {"file", "update"} /\ Submitted(r) \in {"insertTicket", "getTicket", "putCTI"}
  BY <1>1 DEF Holds, Submitted
<1>3. PICK i \in Of("item") \cup {Nil} :
        /\ i = r.item \/ (node[i] # Nil /\ node[i].parent = r.type)
        /\ ctiReq' = [ctiReq EXCEPT ![w] = [r EXCEPT !.item = i, !.step = Submitted(r)]]
  <2>1. CASE CTIGoes(w, Submitted(r))
    <3>1. r.item \in Of("item") \cup {Nil}
      BY <1>1 DEF CTIRequest
    <3>2. ctiReq' = [ctiReq EXCEPT ![w] = [r EXCEPT !.item = r.item, !.step = Submitted(r)]]
      BY <1>1, <2>1 DEF CTIGoes, GoesTo, CTIInv, Requests, CTIRequest
    <3> QED BY <3>1, <3>2
  <2>2. ASSUME NEW i \in Offered(r.role, "item", r.type),
               ctiReq' = [ctiReq EXCEPT ![w].item = i, ![w].step = Submitted(r)]
        PROVE  /\ i \in Of("item") /\ node[i] # Nil /\ node[i].parent = r.type
               /\ ctiReq' = [ctiReq EXCEPT ![w] = [r EXCEPT !.item = i, !.step = Submitted(r)]]
    BY <2>2 DEF Offered, There, CTIInv, Requests
  <2> QED BY <2>1, <2>2 DEF ListItems
<1> DEFINE q == [r EXCEPT !.item = i, !.step = Submitted(r)]
<1>4. q \in CTIRequest /\ q.item = i /\ q.step = Submitted(r) /\ q.op = r.op /\ q.ticket = r.ticket
      /\ q.category = r.category /\ q.type = r.type /\ q.held = r.held /\ q.node = r.node
      /\ q.classifies = r.classifies
  <2> HIDE DEF r
  <2>1. q \in CTIRequest
    BY <1>1, <1>2, CarriedOn DEF CTISteps
  <2> QED BY <1>1, <1>2, <2>1 DEF CTIRequest
<1>5. ctiReq' = [ctiReq EXCEPT ![w] = q]
  BY <1>3
<1> HIDE DEF q
<1>6. Holds(q, node, filed) /\ ~Creates(q)
  <2> HIDE DEF r
  <2> QED BY <1>1, <1>2, <1>3, <1>4 DEF Holds, Creates, Submitted, Pair
<1> QED BY <1>1, <1>3, <1>4, <1>5, <1>6, ReadsNode

\* The routing of a new ticket goes on to its assignment.
LEMMA RouteAssigns ==
  ASSUME CTIInv, NEW w \in Workers, ctiReq[w] # Nil, ctiReq[w].step \in {"route", "fallback"}, Reads,
         NEW g \in Groups \cup {Nil}, AssignTo(w, g)
  PROVE  CTIInv' /\ Grows(w)
<1>1. PICK r : r = ctiReq[w]
  OBVIOUS
<1>2. r \in CTIRequest /\ Holds(r, node, filed) /\ r.step \in {"route", "fallback"}
  BY <1>1, RequestNow
<1> DEFINE q == [r EXCEPT !.group = g, !.step = "getTicket"]
<1>3. ctiReq' = [ctiReq EXCEPT ![w] = q]
  BY <1>1 DEF AssignTo, CTIInv, Requests
<1>4. q \in CTIRequest
  BY <1>2, CarriedOn DEF CTISteps
<1>5. q.step = "getTicket" /\ q.op = r.op /\ q.ticket = r.ticket
      /\ q.category = r.category /\ q.type = r.type /\ q.item = r.item /\ q.held = r.held
      /\ q.node = r.node /\ q.classifies = r.classifies
  BY <1>2, <1>4 DEF CTIRequest
<1> HIDE DEF q
<1>6. Holds(q, node, filed) /\ ~Creates(q)
  BY <1>2, <1>5 DEF Holds, Creates
<1> QED BY <1>1, <1>3, <1>4, <1>5, <1>6, LeavesTables

\* Or it goes on to the setting.
LEMMA RouteGoesOn ==
  ASSUME CTIInv, NEW w \in Workers, ctiReq[w] # Nil, ctiReq[w].step = "route", Reads, CTIGoes(w, "fallback")
  PROVE  CTIInv' /\ Grows(w)
<1>1. PICK r : r = ctiReq[w]
  OBVIOUS
<1>2. r \in CTIRequest /\ Holds(r, node, filed) /\ r.step = "route"
  BY <1>1, RequestNow
<1> DEFINE q == [r EXCEPT !.step = "fallback"]
<1>3. ctiReq' = [ctiReq EXCEPT ![w] = q]
  BY <1>1 DEF CTIGoes, GoesTo, CTIInv, Requests
<1>4. q \in CTIRequest
  BY <1>2, CarriedOn DEF CTISteps
<1>5. q.step = "fallback" /\ q.op = r.op /\ q.ticket = r.ticket
      /\ q.category = r.category /\ q.type = r.type /\ q.item = r.item /\ q.held = r.held
      /\ q.node = r.node /\ q.classifies = r.classifies
  BY <1>2, <1>4 DEF CTIRequest
<1> HIDE DEF q
<1>6. Holds(q, node, filed) /\ ~Creates(q)
  BY <1>2, <1>5 DEF Holds, Creates
<1> QED BY <1>1, <1>3, <1>4, <1>5, <1>6, LeavesTables

\* A request ends and leaves the tables alone.
LEMMA ReadsEnd ==
  ASSUME CTIInv, NEW w \in Workers, ctiReq[w] # Nil, Reads, CTIEnds(w)
  PROVE  CTIInv' /\ Grows(w)
  BY LeavesTables DEF CTIEnds, Ended

LEMMA RouteReads ==
  ASSUME CTIInv, NEW w \in Workers, RouteTicket(w) \/ RouteToFallback(w)
  PROVE  CTIInv' /\ Grows(w)
<1>1. ctiReq[w] # Nil /\ fallback \in Groups \cup {Nil}
      /\ UNCHANGED <<ctiTables, fallback, alone, ctiFaults, ctiCount>>
  BY DEF RouteTicket, RouteToFallback, CTIInv, Settled
<1>2. Reads
  BY <1>1 DEF Reads, CTIInv, Settled
<1>3. CASE RouteTicket(w)
  BY <1>1, <1>2, <1>3, RouteAssigns, RouteGoesOn DEF RouteTicket, InScope
<1>4. CASE RouteToFallback(w)
  BY <1>1, <1>2, <1>4, RouteAssigns, ReadsEnd DEF RouteToFallback
<1> QED BY <1>3, <1>4

\* Nor does a statement that fails touch them.
LEMMA FaultReads ==
  ASSUME CTIInv, NEW w \in Workers, CTIFails(w)
  PROVE  CTIInv' /\ Grows(w)
<1>1. ctiReq[w] # Nil /\ UNCHANGED <<ctiTables, fallback, alone, ctiCount>>
      /\ ctiFaults < MaxCTIFaults /\ ctiFaults' = ctiFaults + 1
  BY DEF CTIFails
<1>2. Reads
  BY <1>1, CTIAssumption DEF Reads, CTIInv, Settled
<1> QED BY <1>1, <1>2, RouteAssigns, RouteGoesOn, ReadsEnd DEF CTIFails

\* The setting is not in the tables.
LEMMA FallbackSet ==
  ASSUME CTIInv, NEW w \in Workers, SetFallback(w)
  PROVE  CTIInv' /\ Grows(w)
<1>1. PICK r : r = ctiReq[w]
  OBVIOUS
<1>2. r # Nil /\ CTIEnds(w) /\ fallback' = r.group /\ UNCHANGED <<ctiTables, alone, ctiFaults, ctiCount>>
  BY <1>1 DEF SetFallback
<1>3. r.group \in Groups \cup {Nil}
  BY <1>1, <1>2, RequestNow DEF CTIRequest
<1>4. Reads
  BY <1>2, <1>3 DEF Reads, CTIInv, Settled
<1> QED BY <1>1, <1>2, <1>4, ReadsEnd

LEMMA TicketReads ==
  ASSUME CTIInv, NEW w \in Workers, AssignReads(w)
  PROVE  CTIInv' /\ Grows(w)
<1> DEFINE r == ctiReq[w]
<1>1. r # Nil /\ r.step = "getTicket" /\ r \in CTIRequest /\ Holds(r, node, filed)
      /\ UNCHANGED <<ctiTables, fallback, alone, ctiFaults, ctiCount>>
  BY RequestNow DEF AssignReads
<1>2. PICK f : f = filed[r.ticket]
  OBVIOUS
<1>3. f \in Filed /\ f # Nil /\ (f.item # Nil => node[f.item] # Nil /\ node[f.item].parent = f.type)
  BY <1>1, <1>2 DEF Holds, CTIInv, TreeInv, Tables, TreeClosed, RowsIn, RowIn, ItemOfType, ItemsMatch
<1> DEFINE q == [r EXCEPT !.held = f, !.step = "putTicket"]
<1>4. ctiReq' = [ctiReq EXCEPT ![w] = q]
  BY <1>2 DEF AssignReads, CTIInv, Requests
<1>5. q \in CTIRequest /\ q.held = f /\ q.step = "putTicket" /\ q.op = r.op /\ q.ticket = r.ticket
      /\ q.category = r.category /\ q.type = r.type /\ q.item = r.item /\ q.node = r.node
      /\ q.classifies = r.classifies
  <2> HIDE DEF r
  <2>1. q \in CTIRequest
    BY <1>1, <1>3, CarriedOn DEF CTISteps
  <2> QED BY <1>1, <1>3, <2>1 DEF CTIRequest
<1> HIDE DEF q
<1>6. Holds(q, node, filed) /\ ~Creates(q)
  <2> HIDE DEF r
  <2> QED BY <1>1, <1>3, <1>5 DEF Holds, Creates, Pair
<1> QED BY <1>1, <1>3, <1>4, <1>5, <1>6, ReadsNode

LEMMA NodeReads ==
  ASSUME CTIInv, NEW w \in Workers, GetParent(w) \/ GetNode(w)
  PROVE  CTIInv' /\ Grows(w)
<1> DEFINE r == ctiReq[w]
<1>1. r # Nil /\ r.step \in {"getParent", "getNode"} /\ r \in CTIRequest /\ Holds(r, node, filed)
      /\ UNCHANGED <<ctiTables, fallback, alone, ctiFaults, ctiCount>>
  BY RequestNow DEF GetParent, GetNode
<1>2. CASE CTIEnds(w)
  BY <1>1, <1>2, ReadsOn DEF CTIEnds, Ended
<1>3. ASSUME r.step = "getParent", CTIGoes(w, "insertNode") PROVE CTIInv' /\ Grows(w)
  <2> DEFINE q == [r EXCEPT !.step = "insertNode"]
  <2>1. ctiReq' = [ctiReq EXCEPT ![w] = q]
    BY <1>3 DEF CTIGoes, GoesTo, CTIInv, Requests
  <2>2. q \in CTIRequest /\ q.step = "insertNode" /\ q.op = r.op /\ q.ticket = r.ticket
        /\ q.category = r.category /\ q.type = r.type /\ q.item = r.item /\ q.held = r.held
        /\ q.node = r.node /\ q.parent = r.parent /\ q.classifies = r.classifies
    <3> HIDE DEF r
    <3>1. q \in CTIRequest
      BY <1>1, CarriedOn DEF CTISteps
    <3> QED BY <1>1, <3>1 DEF CTIRequest
  <2> HIDE DEF q
  <2>3. Holds(q, node, filed) /\ Creates(r)
    <3> HIDE DEF r
    <3> QED BY <1>1, <1>3, <2>2 DEF Holds, Creates
  <2> QED BY <1>1, <2>1, <2>2, <2>3, ReadsOn
<1>4. ASSUME GetNode(w), ~CTIEnds(w) PROVE CTIInv' /\ Grows(w)
  <2>1. PICK a : a = ActiveSent(r.active, node[r.node].active)
    OBVIOUS
  <2> DEFINE q == [r EXCEPT !.step = "putNode", !.active = a]
  <2>2. r.step = "getNode" /\ r.node \in Nodes /\ node[r.node] # Nil /\ ctiReq' = [ctiReq EXCEPT ![w] = q]
    BY <1>1, <1>4, <2>1 DEF GetNode, There, CTIInv, Requests, Holds
  <2>3. a \in BOOLEAN
    BY <1>1, <2>1, <2>2 DEF ActiveSent, CTIRequest, CTIInv, TreeInv, Tables, NodeRow
  <2>4. q \in CTIRequest /\ q.step = "putNode" /\ q.active = a /\ q.op = r.op /\ q.ticket = r.ticket
        /\ q.category = r.category /\ q.type = r.type /\ q.item = r.item /\ q.held = r.held
        /\ q.node = r.node /\ q.classifies = r.classifies
    <3> HIDE DEF r
    <3>1. q \in CTIRequest
      BY <1>1, <2>3, CarriedOn DEF CTISteps
    <3> QED BY <1>1, <2>3, <3>1 DEF CTIRequest
  <2> HIDE DEF q
  <2>5. Holds(q, node, filed) /\ ~Creates(q)
    <3> HIDE DEF r
    <3> QED BY <1>1, <2>2, <2>3, <2>4 DEF Holds, Creates
  <2> QED BY <1>1, <2>2, <2>4, <2>5, ReadsOn
<1> QED BY <1>2, <1>3, <1>4 DEF GetParent

LEMMA PickerReads ==
  ASSUME CTIInv, NEW w \in Workers, GetClassified(w) \/ ListCanned(w) \/ CannedPicked(w)
  PROVE  CTIInv' /\ Grows(w)
<1> DEFINE r == ctiReq[w]
<1>1. r # Nil /\ r.step \in {"getClassified", "listCanned", "picked"} /\ r \in CTIRequest
      /\ Holds(r, node, filed) /\ r.op = "pick" /\ UNCHANGED <<ctiTables, fallback, alone, ctiFaults, ctiCount>>
  BY RequestNow DEF GetClassified, ListCanned, CannedPicked, Holds
<1>2. CASE CannedPicked(w)
  BY <1>1, <1>2, ReadsOn DEF CannedPicked, CTIEnds, Ended
<1>3. CASE GetClassified(w)
  <2>1. PICK f : f = filed[r.ticket]
    OBVIOUS
  <2>2. f \in Filed
    BY <1>1, <2>1 DEF Holds, CTIInv, TreeInv, Tables
  <2> DEFINE q == [r EXCEPT !.step = "listCanned", !.category = f.category, !.type = f.type]
  <2>3. ctiReq' = [ctiReq EXCEPT ![w] = q] /\ r.step = "getClassified"
    BY <1>3, <2>1 DEF GetClassified, CTIInv, Requests
  <2>4. q \in CTIRequest /\ q.step = "listCanned" /\ q.op = r.op /\ q.ticket = r.ticket
        /\ q.item = r.item /\ q.held = r.held /\ q.node = r.node /\ q.classifies = r.classifies
    <3> HIDE DEF r
    <3>1. q \in CTIRequest
      BY <1>1, <2>2, CarriedOn DEF CTISteps, Filed
    <3> QED BY <1>1, <2>2, <3>1 DEF CTIRequest
  <2>5. r.item = Nil
    BY <1>1 DEF Holds
  <2> HIDE DEF q
  <2>6. Holds(q, node, filed) /\ ~Creates(q)
    <3> HIDE DEF r
    <3> QED BY <1>1, <2>4, <2>5 DEF Holds, Creates, Pair
  <2> QED BY <1>1, <2>3, <2>4, <2>6, ReadsOn
<1>4. CASE ListCanned(w)
  <2>1. PICK x : x = {k \in {canned[j] : j \in Canned} \ {Nil} : Available(k, r.category, r.type)}
    OBVIOUS
  <2>2. x \in SUBSET CannedRow
    BY <2>1 DEF CTIInv, TreeInv, Tables
  <2> DEFINE q == [r EXCEPT !.step = "picked", !.answer = x]
  <2>3. ctiReq' = [ctiReq EXCEPT ![w] = q]
    BY <1>4, <2>1 DEF ListCanned, CTIInv, Requests
  <2>4. q \in CTIRequest /\ q.step = "picked" /\ q.op = r.op /\ q.ticket = r.ticket /\ q.type = r.type
        /\ q.item = r.item /\ q.held = r.held /\ q.node = r.node /\ q.classifies = r.classifies
    <3> HIDE DEF r
    <3>1. q \in CTIRequest
      BY <1>1, <2>2, CarriedOn DEF CTISteps
    <3> QED BY <1>1, <2>2, <3>1 DEF CTIRequest
  <2> HIDE DEF q
  <2>5. Holds(q, node, filed) /\ ~Creates(q)
    <3> HIDE DEF r
    <3> QED BY <1>1, <2>4 DEF Holds, Creates
  <2> QED BY <1>1, <2>3, <2>4, <2>5, ReadsOn
<1> QED BY <1>2, <1>3, <1>4

-----------------------------------------------------------------------------
(* Statements that write.                                                  *)

LEMMA NilOutside ==
  Nil \notin Nodes /\ Nil \notin Groups /\ Nil \notin Tickets /\ Nil \notin Filed
  /\ Nil \notin NodeRow /\ Nil \notin CannedRow /\ Nil \notin CTIRequest
  BY CTINilAssumption

Same == UNCHANGED <<fallback, alone, ctiFaults, ctiCount>>

\* A request that writes and ends, with its answer or with an error.
LEMMA WritesEnd ==
  ASSUME CTIInv, NEW w \in Workers, CTIEnds(w), Same, TreeInv', Grows(w)
  PROVE  CTIInv' /\ Grows(w)
<1>1. Settled'
  BY DEF CTIInv, Settled, Same
<1> QED BY <1>1, RequestEnds DEF CTIInv

\* A request that writes and goes on to `step`.
LEMMA WritesOn ==
  ASSUME CTIInv, NEW w \in Workers, ctiReq[w] # Nil, NEW step \in CTISteps \ {"getParent", "insertNode"},
         CTIGoes(w, step), Same, TreeInv', Grows(w), Holds([ctiReq[w] EXCEPT !.step = step], node', filed')
  PROVE  CTIInv' /\ Grows(w)
<1>1. Settled'
  BY DEF CTIInv, Settled, Same
<1>2. PICK r : r = ctiReq[w]
  OBVIOUS
<1> DEFINE q == [r EXCEPT !.step = step]
<1>3. r \in CTIRequest
  BY <1>2, RequestNow
<1>4. q \in CTIRequest
  BY <1>3, CarriedOn
<1>5. q.item = r.item /\ q.held = r.held /\ q.node = r.node /\ q.step = step
  BY <1>3 DEF CTIRequest
<1>6. ctiReq' = [ctiReq EXCEPT ![w] = q]
  BY <1>2 DEF CTIGoes, GoesTo, CTIInv, Requests
<1>7. Holds(q, node', filed')
  BY <1>2
<1> HIDE DEF q
<1>8. ~Creates(q)
  BY <1>5 DEF Creates
<1> QED BY <1>1, <1>2, <1>4, <1>5, <1>6, <1>7, <1>8, RequestGoes DEF CTIInv

\* One ticket's row is written, with a classification that the constraints accept.
LEMMA RowWritten ==
  ASSUME CTIInv, NEW t \in Tickets, NEW row \in Filed, filed' = [filed EXCEPT ![t] = row],
         UNCHANGED <<node, group, scope, canned>>,
         Classifiable(row.category, row.type, row.item), row.group # Nil => row.group \in group,
         Pair(node, row.item, row.type)
  PROVE  TreeInv' /\ \A w \in Workers : Grows(w)
<1>1. node' = node /\ group' = group /\ scope' = scope /\ canned' = canned /\ row # Nil
  BY NilOutside
<1>2. filed \in [Tickets -> Filed \cup {Nil}] /\ filed' \in [Tickets -> Filed \cup {Nil}] /\ filed'[t] = row
      /\ \A u \in Tickets \ {t} : filed'[u] = filed[u]
  BY DEF CTIInv, TreeInv, Tables
<1>3. Tables'
  BY <1>1, <1>2 DEF CTIInv, TreeInv, Tables
<1>4. RowIn(row, node, group)
  BY NilOutside DEF RowIn, TypeIn, Classifiable, TypeOfCategory, There, NullOrThere, Filed, Of
<1>5. RowsIn(filed', node', group')
  BY <1>1, <1>2, <1>4 DEF CTIInv, TreeInv, TreeClosed, RowsIn
<1>6. NodesIn(node') /\ ScopesIn(scope', node', group') /\ CannedIn(canned', node')
  BY <1>1 DEF CTIInv, TreeInv, TreeClosed
<1>7. TreeClosed'
  BY <1>5, <1>6 DEF TreeClosed
<1>8. row.item # Nil => node[row.item].parent = row.type
  BY DEF Pair, Classifiable, NullOrThere, There
<1>9. ItemsMatch(filed', node')
  BY <1>1, <1>2, <1>8 DEF CTIInv, TreeInv, ItemOfType, ItemsMatch
<1>10. ItemOfType'
  BY <1>9 DEF ItemOfType
<1>11. \A w \in Workers : Grows(w)
  BY <1>1, <1>2 DEF Grows
<1> QED BY <1>3, <1>7, <1>10, <1>11 DEF TreeInv

\* Nothing is written: a constraint refuses the statement.
LEMMA NothingWritten ==
  ASSUME CTIInv, UNCHANGED ctiTables
  PROVE  TreeInv' /\ \A w \in Workers : Grows(w)
<1>1. node' = node /\ filed' = filed /\ group' = group /\ scope' = scope /\ canned' = canned
  BY DEF ctiTables
<1>2. Tables'
  BY <1>1 DEF CTIInv, TreeInv, Tables
<1>3. TreeClosed'
  BY <1>1 DEF CTIInv, TreeInv, TreeClosed
<1>4. ItemOfType'
  BY <1>1 DEF CTIInv, TreeInv, ItemOfType
<1> QED BY <1>1, <1>2, <1>3, <1>4 DEF TreeInv, Grows

LEMMA TicketInserted ==
  ASSUME CTIInv, NEW w \in Workers, InsertFiled(w)
  PROVE  CTIInv' /\ Grows(w)
<1>1. PICK r : r = ctiReq[w]
  OBVIOUS
<1>2. r # Nil /\ r.step = "insertTicket" /\ r \in CTIRequest /\ Holds(r, node, filed) /\ Same
      /\ UNCHANGED <<node, group, scope, canned>>
  BY <1>1, RequestNow DEF InsertFiled, Same
<1>3. CASE ~Classifiable(r.category, r.type, r.item)
  <2>1. CTIEnds(w) /\ UNCHANGED ctiTables
    BY <1>1, <1>2, <1>3 DEF InsertFiled, ctiTables
  <2> QED BY <1>2, <2>1, NothingWritten, WritesEnd
<1>4. CASE Classifiable(r.category, r.type, r.item)
  <2> DEFINE row == [category |-> r.category, type |-> r.type, item |-> r.item, group |-> Nil]
             q   == [r EXCEPT !.step = "route"]
  <2>1. filed' = [filed EXCEPT ![r.ticket] = row] /\ CTIGoes(w, "route")
    BY <1>1, <1>4 DEF InsertFiled
  <2>2. r.ticket \in Tickets /\ r.category \in Of("category") /\ r.op = "file" /\ ~r.classifies
        /\ Pair(node, r.item, r.type)
    BY <1>2 DEF Holds
  <2>3. row \in Filed /\ row.category = r.category /\ row.type = r.type /\ row.item = r.item /\ row.group = Nil
    BY <1>2, <2>2 DEF Filed, CTIRequest
  <2>4. filed'[r.ticket] # Nil
    BY <2>1, <2>2, <2>3, NilOutside DEF CTIInv, TreeInv, Tables
  <2> HIDE DEF row
  <2>5. TreeInv' /\ Grows(w)
    BY <1>2, <1>4, <2>1, <2>2, <2>3, RowWritten
  <2>6. q.step = "route" /\ q.op = r.op /\ q.ticket = r.ticket /\ q.category = r.category /\ q.type = r.type
        /\ q.item = r.item /\ q.held = r.held /\ q.node = r.node /\ q.classifies = r.classifies
    BY <1>2 DEF CTIRequest
  <2> HIDE DEF q
  <2>7. node' = node
    BY <1>2
  <2>8. Holds(q, node', filed')
    BY <1>2, <2>2, <2>4, <2>6, <2>7 DEF Holds, Creates
  <2>9. Holds([ctiReq[w] EXCEPT !.step = "route"], node', filed')
    BY <1>1, <2>8 DEF q
  <2> QED BY <1>1, <1>2, <2>1, <2>5, <2>9, WritesOn DEF CTISteps
<1> QED BY <1>3, <1>4

LEMMA TicketAssigned ==
  ASSUME CTIInv, NEW w \in Workers, AssignWrites(w)
  PROVE  CTIInv' /\ Grows(w)
<1>1. PICK r : r = ctiReq[w]
  OBVIOUS
<1>2. r # Nil /\ r.step = "putTicket" /\ r \in CTIRequest /\ Holds(r, node, filed) /\ Same
      /\ UNCHANGED <<node, group, scope, canned>>
  BY <1>1, RequestNow DEF AssignWrites, Same
<1>3. r.ticket \in Tickets /\ filed[r.ticket] # Nil /\ r.held # Nil /\ Pair(node, r.held.item, r.held.type)
  BY <1>2 DEF Holds
<1>4. PICK new : new = Rewritten(filed[r.ticket], r.held, r.group)
  OBVIOUS
<1>5. PICK row : row = filed[r.ticket]
  OBVIOUS
<1>6. row \in Filed /\ r.held \in Filed /\ r.group \in Groups \cup {Nil}
  BY <1>2, <1>3, <1>5 DEF CTIInv, TreeInv, Tables, CTIRequest
<1>7. new \in Filed
  BY <1>4, <1>5, <1>6 DEF Rewritten, Filed
<1>8. new.category = row.category /\ new.type = r.held.type /\ new.item = r.held.item /\ new.group = r.group
  BY <1>4, <1>5, <1>6 DEF Rewritten, Filed
<1> DEFINE ok == Classifiable(new.category, new.type, new.item) /\ (r.group # Nil => r.group \in group)
<1>9. /\ filed' = IF ok THEN [filed EXCEPT ![r.ticket] = new] ELSE filed
      /\ IF ok /\ r.classifies THEN CTIGoes(w, "putCTI") ELSE CTIEnds(w)
  BY <1>1, <1>4 DEF AssignWrites
<1>10. TreeInv' /\ Grows(w)
  <2>1. CASE ok
    <3>1. filed' = [filed EXCEPT ![r.ticket] = new]
      BY <1>9, <2>1
    <3> QED BY <1>2, <1>3, <1>7, <1>8, <2>1, <3>1, RowWritten
  <2>2. CASE ~ok
    <3>1. UNCHANGED ctiTables
      BY <1>2, <1>9, <2>2 DEF ctiTables
    <3> QED BY <3>1, NothingWritten
  <2> QED BY <2>1, <2>2
<1>11. CASE ok /\ r.classifies
  <2> DEFINE q == [r EXCEPT !.step = "putCTI"]
  <2>1. q.step = "putCTI" /\ q.op = r.op /\ q.ticket = r.ticket /\ q.category = r.category /\ q.type = r.type
        /\ q.item = r.item /\ q.held = r.held /\ q.node = r.node /\ q.classifies = r.classifies
    BY <1>2 DEF CTIRequest
  <2> HIDE DEF q
  <2>2. node' = node /\ filed'[r.ticket] # Nil
    BY <1>2, <1>3, <1>10 DEF Grows
  <2>3. Holds(q, node', filed')
    BY <1>2, <1>11, <2>1, <2>2 DEF Holds, Creates
  <2>4. Holds([ctiReq[w] EXCEPT !.step = "putCTI"], node', filed')
    BY <1>1, <2>3 DEF q
  <2>5. CTIGoes(w, "putCTI")
    BY <1>9, <1>11
  <2> QED BY <1>1, <1>2, <1>10, <2>4, <2>5, WritesOn DEF CTISteps
<1>12. CASE ~(ok /\ r.classifies)
  <2>1. CTIEnds(w)
    BY <1>9, <1>12
  <2> QED BY <1>2, <1>10, <2>1, WritesEnd
<1> QED BY <1>11, <1>12

LEMMA TicketReclassified ==
  ASSUME CTIInv, NEW w \in Workers, UpdateCTI(w)
  PROVE  CTIInv' /\ Grows(w)
<1>1. PICK r : r = ctiReq[w]
  OBVIOUS
<1>2. r # Nil /\ r.step = "putCTI" /\ r \in CTIRequest /\ Holds(r, node, filed) /\ Same /\ CTIEnds(w)
      /\ UNCHANGED <<node, group, scope, canned>>
  BY <1>1, RequestNow DEF UpdateCTI, Same
<1>3. r.ticket \in Tickets /\ filed[r.ticket] # Nil /\ r.category \in Of("category")
      /\ Pair(node, r.item, r.type)
  BY <1>2 DEF Holds
<1>4. PICK row : row = filed[r.ticket]
  OBVIOUS
<1>5. row \in Filed /\ (row.group # Nil => row.group \in group)
  BY <1>3, <1>4 DEF CTIInv, TreeInv, Tables, TreeClosed, RowsIn, RowIn
<1> DEFINE new == [row EXCEPT !.category = r.category, !.type = r.type, !.item = r.item]
<1>6. r.type \in Of("type") \cup {Nil} /\ r.item \in Of("item") \cup {Nil}
  BY <1>2 DEF CTIRequest
<1>7. new \in Filed
  BY <1>3, <1>5, <1>6 DEF Filed
<1>8. new.category = r.category /\ new.type = r.type /\ new.item = r.item /\ new.group = row.group
  BY <1>5 DEF Filed
<1>9. CASE Classifiable(r.category, r.type, r.item)
  <2>1. filed' = [filed EXCEPT ![r.ticket] = new]
    BY <1>1, <1>3, <1>4, <1>9 DEF UpdateCTI, CTIInv, TreeInv, Tables
  <2> HIDE DEF new
  <2>2. TreeInv' /\ Grows(w)
    BY <1>2, <1>3, <1>5, <1>7, <1>8, <1>9, <2>1, RowWritten
  <2> QED BY <1>2, <2>2, WritesEnd
<1>10. CASE ~Classifiable(r.category, r.type, r.item)
  <2>1. UNCHANGED ctiTables
    BY <1>1, <1>2, <1>10 DEF UpdateCTI, ctiTables
  <2> QED BY <1>2, <2>1, NothingWritten, WritesEnd
<1> QED BY <1>9, <1>10

\* The nodes there are stay, with their parents; what refers to them need not know.
LEMMA TreeExtended ==
  ASSUME CTIInv, UNCHANGED <<filed, group, scope, canned>>, NodesIn(node'),
         node' \in [Nodes -> NodeRow \cup {Nil}],
         \A n \in Nodes : node[n] # Nil => node'[n] # Nil /\ node'[n].parent = node[n].parent
  PROVE  TreeInv'
<1>1. filed' = filed /\ group' = group /\ scope' = scope /\ canned' = canned
  OBVIOUS
<1>2. Tables /\ RowsIn(filed, node, group) /\ ScopesIn(scope, node, group) /\ CannedIn(canned, node)
      /\ ItemsMatch(filed, node)
  BY DEF CTIInv, TreeInv, TreeClosed, ItemOfType
<1>3. ASSUME NEW y \in Nodes \cup {Nil}, NEW c, TypeIn(node, y, c) PROVE TypeIn(node', y, c)
  BY <1>3 DEF TypeIn
<1>4. RowsIn(filed, node', group) /\ ItemsMatch(filed, node')
  <2> SUFFICES ASSUME NEW t \in Tickets, filed[t] # Nil
               PROVE  /\ RowIn(filed[t], node', group)
                      /\ filed[t].item # Nil => node'[filed[t].item].parent = filed[t].type
    BY DEF RowsIn, ItemsMatch
  <2>1. PICK row : row = filed[t]
    OBVIOUS
  <2>2. row \in Filed /\ RowIn(row, node, group) /\ (row.item # Nil => node[row.item].parent = row.type)
    BY <1>2, <2>1 DEF Tables, RowsIn, ItemsMatch
  <2>3. row.category \in Nodes /\ row.type \in Nodes \cup {Nil} /\ row.item \in Nodes \cup {Nil}
    BY <2>2 DEF Filed, Of
  <2>4. TypeIn(node', row.type, row.category)
    BY <1>3, <2>2, <2>3 DEF RowIn
  <2> QED BY <2>1, <2>2, <2>3, <2>4 DEF RowIn
<1>5. ScopesIn(scope, node', group)
  <2> SUFFICES ASSUME NEW s \in scope PROVE s[1] \in group /\ node'[s[2]] # Nil /\ TypeIn(node', s[3], s[2])
    BY DEF ScopesIn
  <2>1. s[1] \in group /\ node[s[2]] # Nil /\ TypeIn(node, s[3], s[2])
    BY <1>2 DEF ScopesIn
  <2>2. s[2] \in Nodes /\ s[3] \in Nodes \cup {Nil}
    BY <1>2 DEF Tables, Of
  <2> QED BY <1>3, <2>1, <2>2
<1>6. CannedIn(canned, node')
  <2> SUFFICES ASSUME NEW k \in Canned, canned[k] # Nil
               PROVE  /\ canned[k].category # Nil => node'[canned[k].category] # Nil
                      /\ TypeIn(node', canned[k].type, canned[k].category)
    BY DEF CannedIn
  <2>1. PICK row : row = canned[k]
    OBVIOUS
  <2>2. row \in CannedRow /\ (row.category # Nil => node[row.category] # Nil) /\ TypeIn(node, row.type, row.category)
    BY <1>2, <2>1 DEF Tables, CannedIn
  <2>3. row.category \in Nodes \cup {Nil} /\ row.type \in Nodes \cup {Nil}
    BY <2>2 DEF CannedRow, Of
  <2> QED BY <1>3, <2>1, <2>2, <2>3
<1>7. Tables'
  BY <1>1, <1>2 DEF Tables
<1>8. RowsIn(filed', node', group') /\ ItemsMatch(filed', node') /\ ScopesIn(scope', node', group')
      /\ CannedIn(canned', node')
  BY <1>1, <1>4, <1>5, <1>6
<1>9. TreeClosed' /\ ItemOfType'
  BY <1>8 DEF TreeClosed, ItemOfType
<1> QED BY <1>7, <1>9 DEF TreeInv

LEMMA NodeInserted ==
  ASSUME CTIInv, NEW w \in Workers, InsertNode(w)
  PROVE  CTIInv' /\ Grows(w)
<1>1. PICK r : r = ctiReq[w]
  OBVIOUS
<1>2. r # Nil /\ r.step = "insertNode" /\ r \in CTIRequest /\ Holds(r, node, filed) /\ Same /\ CTIEnds(w)
      /\ UNCHANGED <<filed, group, scope, canned>>
  BY <1>1, RequestNow DEF InsertNode, Same
<1>3. r.node \in Nodes /\ node[r.node] = Nil
      /\ IF Level[r.node] = "category" THEN r.parent = Nil ELSE r.parent \in Of(Above(r.node))
  BY <1>2 DEF Holds, Creates
<1>4. CASE ~NullOrThere(r.parent)
  <2>1. UNCHANGED ctiTables
    BY <1>1, <1>2, <1>4 DEF InsertNode, ctiTables
  <2> QED BY <1>2, <2>1, NothingWritten, WritesEnd
<1>5. CASE NullOrThere(r.parent)
  <2> DEFINE new == [parent |-> r.parent, active |-> TRUE]
  <2>1. node' = [node EXCEPT ![r.node] = new]
    BY <1>1, <1>5 DEF InsertNode
  <2>2. new \in NodeRow /\ new # Nil /\ new.parent = r.parent
    <3>1. r.parent \in Nodes \cup {Nil}
      BY <1>2 DEF CTIRequest
    <3>2. new \in NodeRow
      BY <3>1 DEF NodeRow
    <3> QED BY <3>2, NilOutside
  <2> HIDE DEF new
  <2>3. node \in [Nodes -> NodeRow \cup {Nil}] /\ NodesIn(node)
    BY DEF CTIInv, TreeInv, Tables, TreeClosed
  <2>4. /\ node' \in [Nodes -> NodeRow \cup {Nil}] /\ node'[r.node] = new
        /\ \A n \in Nodes \ {r.node} : node'[n] = node[n]
    BY <1>3, <2>1, <2>2, <2>3
  <2>5. NodesIn(node')
    <3> SUFFICES ASSUME NEW n \in Nodes, node'[n] # Nil
                 PROVE  IF Level[n] = "category" THEN node'[n].parent = Nil
                        ELSE node'[n].parent \in Of(Above(n)) /\ node'[node'[n].parent] # Nil
      BY DEF NodesIn, Above
    <3>1. CASE n = r.node
      <4>1. r.parent # Nil => r.parent \in Nodes /\ node[r.parent] # Nil
        BY <1>2, <1>5 DEF NullOrThere, There, CTIRequest
      <4> QED BY <1>3, <2>2, <2>4, <3>1, <4>1, NilOutside DEF Of
    <3>2. CASE n # r.node
      <4>1. IF Level[n] = "category" THEN node[n].parent = Nil
            ELSE node[n].parent \in Of(Above(n)) /\ node[node[n].parent] # Nil
        BY <2>3, <2>4, <3>2 DEF NodesIn, Above
      <4>2. node'[n] = node[n] /\ \A p \in Nodes : node[p] # Nil => node'[p] # Nil
        BY <1>3, <2>4, <3>2
      <4> QED BY <4>1, <4>2 DEF Of
    <3> QED BY <3>1, <3>2
  <2>6. \A n \in Nodes : node[n] # Nil => node'[n] # Nil /\ node'[n].parent = node[n].parent
    BY <1>3, <2>4
  <2>7. TreeInv'
    BY <1>2, <2>4, <2>5, <2>6, TreeExtended
  <2>8. Grows(w)
    BY <1>1, <1>2, <2>4, <2>6 DEF Grows
  <2> QED BY <1>2, <2>7, <2>8, WritesEnd
<1> QED BY <1>4, <1>5

LEMMA NodePatched ==
  ASSUME CTIInv, NEW w \in Workers, PutNode(w)
  PROVE  CTIInv' /\ Grows(w)
<1>1. PICK r : r = ctiReq[w]
  OBVIOUS
<1>2. r # Nil /\ r.step = "putNode" /\ r \in CTIRequest /\ Holds(r, node, filed) /\ Same /\ CTIEnds(w)
      /\ UNCHANGED <<filed, group, scope, canned>>
  BY <1>1, RequestNow DEF PutNode, Same
<1>3. r.node \in Nodes /\ r.active \in BOOLEAN
  BY <1>2 DEF Holds
<1>4. CASE ~There(r.node)
  <2>1. UNCHANGED ctiTables
    BY <1>1, <1>2, <1>4 DEF PutNode, ctiTables
  <2> QED BY <1>2, <2>1, NothingWritten, WritesEnd
<1>5. CASE There(r.node)
  <2>1. PICK row : row = node[r.node]
    OBVIOUS
  <2>2. node \in [Nodes -> NodeRow \cup {Nil}] /\ NodesIn(node)
    BY DEF CTIInv, TreeInv, Tables, TreeClosed
  <2> DEFINE new == [row EXCEPT !.active = r.active]
  <2>3. row \in NodeRow
    BY <1>3, <1>5, <2>1, <2>2 DEF There
  <2>4. new \in NodeRow
    BY <1>3, <2>3 DEF NodeRow
  <2>5. new.parent = row.parent /\ new # Nil
    BY <2>3, <2>4, NilOutside DEF NodeRow
  <2>6. node' = [node EXCEPT ![r.node] = new]
    BY <1>1, <1>3, <1>5, <2>1, <2>2 DEF PutNode
  <2> HIDE DEF new
  <2>7. /\ node' \in [Nodes -> NodeRow \cup {Nil}] /\ node'[r.node] = new
        /\ \A n \in Nodes \ {r.node} : node'[n] = node[n]
    BY <1>3, <2>2, <2>4, <2>6
  <2>8. \A n \in Nodes : (node[n] # Nil <=> node'[n] # Nil) /\ (node[n] # Nil => node'[n].parent = node[n].parent)
    BY <1>5, <2>1, <2>5, <2>7 DEF There
  <2>9. NodesIn(node')
    BY <2>2, <2>8 DEF NodesIn, Of
  <2>10. TreeInv'
    BY <1>2, <2>7, <2>8, <2>9, TreeExtended
  <2>11. Grows(w)
    BY <1>2, <2>8 DEF Grows
  <2> QED BY <1>2, <2>10, <2>11, WritesEnd
<1> QED BY <1>4, <1>5

\* What is deleted with a node is deleted with everything below it, down to the items.
LEMMA NothingLeftBelow ==
  ASSUME CTIInv, NEW top \in Nodes, NEW n \in Nodes, node[n] # Nil, node[n].parent \in Below(top)
  PROVE  n \in Below(top)
<1> DEFINE p == node[n].parent
<1>1. NodesIn(node) /\ p \in Of(Above(n)) /\ Level[n] # "category" /\ p \in Nodes /\ node[p] # Nil
  <2>1. NodesIn(node)
    BY DEF CTIInv, TreeInv, TreeClosed
  <2>2. p \in Nodes
    BY DEF Below, Children
  <2>3. Level[n] # "category"
    BY <2>1, <2>2, NilOutside DEF NodesIn
  <2> QED BY <2>1, <2>2, <2>3 DEF NodesIn, Above
<1>2. CASE p = top
  BY <1>2 DEF Below, Children, There
<1>3. CASE p \in Children(top)
  BY <1>3 DEF Below, Children, There
<1>4. ASSUME NEW m \in Children(top), p \in Children(m) PROVE FALSE
  <2>1. m \in Nodes /\ node[m] # Nil /\ node[m].parent = top /\ node[p].parent = m
    BY <1>4 DEF Children, There
  <2>2. Level[m] # "category"
    BY <1>1, <2>1, NilOutside DEF NodesIn
  <2>3. Level[p] # "category"
    BY <1>1, <2>1, NilOutside DEF NodesIn
  <2>4. Level[p] = "type" /\ m \in Of(Above(p))
    BY <1>1, <2>1, <2>3 DEF NodesIn, Of, Above
  <2> QED BY <2>2, <2>4 DEF Of, Above
<1> QED BY <1>2, <1>3, <1>4 DEF Below

LEMMA NodeDeleted ==
  ASSUME CTIInv, NEW w \in Workers, DeleteNode(w)
  PROVE  CTIInv' /\ Grows(w)
<1>1. PICK r : r = ctiReq[w]
  OBVIOUS
<1>2. r # Nil /\ r.step = "deleteNode" /\ r \in CTIRequest /\ Holds(r, node, filed) /\ Same /\ CTIEnds(w)
      /\ filed' = filed /\ group' = group
  BY <1>1, RequestNow DEF DeleteNode, Same
<1>3. PICK gone : gone = Below(r.node)
  OBVIOUS
<1>4. r.node \in Nodes
  BY <1>2 DEF Holds
<1>5. CASE \E n \in gone : HeldByTicket(n)
  <2>1. UNCHANGED ctiTables
    BY <1>1, <1>2, <1>3, <1>5 DEF DeleteNode, ctiTables
  <2> QED BY <1>2, <2>1, NothingWritten, WritesEnd
<1>6. CASE ~\E n \in gone : HeldByTicket(n)
  <2>1. /\ node' = [n \in Nodes |-> IF n \in gone THEN Nil ELSE node[n]]
        /\ scope' = {s \in scope : s[2] \notin gone /\ s[3] \notin gone}
        /\ canned' = [k \in Canned |->
             IF canned[k] # Nil /\ {canned[k].category, canned[k].type} \cap gone # {}
             THEN Nil ELSE canned[k]]
    BY <1>1, <1>3, <1>6 DEF DeleteNode
  <2>2. Tables /\ NodesIn(node) /\ RowsIn(filed, node, group) /\ ScopesIn(scope, node, group)
        /\ CannedIn(canned, node) /\ ItemsMatch(filed, node)
    BY DEF CTIInv, TreeInv, TreeClosed, ItemOfType
  <2>3. Tables'
    BY <1>2, <2>1, <2>2 DEF Tables
  <2>4. \A n \in Nodes : node'[n] # Nil => n \notin gone /\ node'[n] = node[n]
    BY <2>1
  <2>5. \A n \in Nodes : n \notin gone => node'[n] = node[n]
    BY <2>1
  <2>6. NodesIn(node')
    <3> SUFFICES ASSUME NEW n \in Nodes, node'[n] # Nil
                 PROVE  IF Level[n] = "category" THEN node'[n].parent = Nil
                        ELSE node'[n].parent \in Of(Above(n)) /\ node'[node'[n].parent] # Nil
      BY DEF NodesIn, Above
    <3>1. n \notin gone /\ node'[n] = node[n]
      BY <2>4
    <3>2. node[n].parent \notin gone
      BY <1>3, <1>4, <3>1, NothingLeftBelow
    <3> QED BY <2>2, <2>5, <3>1, <3>2 DEF NodesIn, Above, Of
  <2>7. RowsIn(filed, node', group) /\ ItemsMatch(filed, node')
    <3> SUFFICES ASSUME NEW t \in Tickets, filed[t] # Nil
                 PROVE  /\ RowIn(filed[t], node', group)
                        /\ filed[t].item # Nil => node'[filed[t].item].parent = filed[t].type
      BY DEF RowsIn, ItemsMatch
    <3>1. PICK row : row = filed[t]
      OBVIOUS
    <3>2. row \in Filed /\ RowIn(row, node, group) /\ (row.item # Nil => node[row.item].parent = row.type)
      BY <2>2, <3>1 DEF Tables, RowsIn, ItemsMatch
    <3>3. row.category \in Nodes /\ row.type \in Nodes \cup {Nil} /\ row.item \in Nodes \cup {Nil}
      BY <3>2 DEF Filed, Of
    <3>4. row.category \notin gone /\ row.type \notin gone /\ row.item \notin gone
      BY <1>6, <3>1 DEF HeldByTicket
    <3> QED BY <2>5, <3>1, <3>2, <3>3, <3>4 DEF RowIn, TypeIn
  <2>8. ScopesIn(scope', node', group)
    <3> SUFFICES ASSUME NEW s \in scope' PROVE s[1] \in group /\ node'[s[2]] # Nil /\ TypeIn(node', s[3], s[2])
      BY DEF ScopesIn
    <3>1. s \in scope /\ s[2] \notin gone /\ s[3] \notin gone
      BY <2>1
    <3>2. s[1] \in group /\ node[s[2]] # Nil /\ TypeIn(node, s[3], s[2])
      BY <2>2, <3>1 DEF ScopesIn
    <3>3. s[2] \in Nodes /\ s[3] \in Nodes \cup {Nil}
      BY <2>2, <3>1 DEF Tables, Of
    <3> QED BY <2>5, <3>1, <3>2, <3>3 DEF TypeIn
  <2>9. CannedIn(canned', node')
    <3> SUFFICES ASSUME NEW k \in Canned, canned'[k] # Nil
                 PROVE  /\ canned'[k].category # Nil => node'[canned'[k].category] # Nil
                        /\ TypeIn(node', canned'[k].type, canned'[k].category)
      BY DEF CannedIn
    <3>1. PICK row : row = canned[k]
      OBVIOUS
    <3>2. canned'[k] = row /\ row # Nil /\ row.category \notin gone /\ row.type \notin gone
      BY <2>1, <3>1
    <3>3. row \in CannedRow /\ (row.category # Nil => node[row.category] # Nil) /\ TypeIn(node, row.type, row.category)
      BY <2>2, <3>1, <3>2 DEF Tables, CannedIn
    <3>4. row.category \in Nodes \cup {Nil} /\ row.type \in Nodes \cup {Nil}
      BY <3>3 DEF CannedRow, Of
    <3> QED BY <2>5, <3>2, <3>3, <3>4 DEF TypeIn
  <2>10. TreeInv'
    <3>1. RowsIn(filed', node', group') /\ ItemsMatch(filed', node') /\ ScopesIn(scope', node', group')
      BY <1>2, <2>7, <2>8
    <3>2. TreeClosed' /\ ItemOfType'
      BY <2>6, <2>9, <3>1 DEF TreeClosed, ItemOfType
    <3> QED BY <2>3, <3>2 DEF TreeInv
  <2>11. Grows(w)
    BY <1>2, <2>4 DEF Grows
  <2> QED BY <1>2, <2>10, <2>11, WritesEnd
<1> QED BY <1>5, <1>6

-----------------------------------------------------------------------------
(* Groups, scopes and canned responses.                                    *)

\* Only what refers to the tree is written: scopes, groups and canned responses.
LEMMA AroundTree ==
  ASSUME CTIInv, node' = node, group' \subseteq Groups,
         filed' \in [Tickets -> Filed \cup {Nil}], RowsIn(filed', node, group'), ItemsMatch(filed', node),
         \A t \in Tickets : filed[t] # Nil => filed'[t] # Nil,
         scope' \subseteq Groups \X Of("category") \X (Of("type") \cup {Nil}), ScopesIn(scope', node, group'),
         canned' \in [Canned -> CannedRow \cup {Nil}], CannedIn(canned', node)
  PROVE  TreeInv' /\ \A w \in Workers : Grows(w)
<1>1. Tables'
  BY DEF CTIInv, TreeInv, Tables
<1>2. TreeClosed' /\ ItemOfType'
  BY DEF CTIInv, TreeInv, TreeClosed, ItemOfType
<1>3. \A w \in Workers : Grows(w)
  BY DEF Grows
<1> QED BY <1>1, <1>2, <1>3 DEF TreeInv

LEMMA TreeParts ==
  ASSUME CTIInv
  PROVE  Tables /\ NodesIn(node) /\ RowsIn(filed, node, group) /\ ScopesIn(scope, node, group)
         /\ CannedIn(canned, node) /\ ItemsMatch(filed, node)
  BY DEF CTIInv, TreeInv, TreeClosed, ItemOfType

LEMMA ScopeWritten ==
  ASSUME CTIInv, NEW w \in Workers, AddGroupScope(w) \/ RemoveGroupScope(w)
  PROVE  CTIInv' /\ Grows(w)
<1>1. PICK r : r = ctiReq[w]
  OBVIOUS
<1>2. r # Nil /\ r.step \in {"addScope", "removeScope"} /\ r \in CTIRequest /\ Holds(r, node, filed) /\ Same
      /\ CTIEnds(w) /\ node' = node /\ filed' = filed /\ group' = group /\ canned' = canned
  BY <1>1, RequestNow DEF AddGroupScope, RemoveGroupScope, Same
<1>3. r.group \in Groups /\ r.category \in Of("category") /\ r.type \in Of("type") \cup {Nil}
  BY <1>2 DEF Holds, CTIRequest
<1> DEFINE new == <<r.group, r.category, r.type>>
<1>4. \A s \in scope' : s \in scope \/ (s = new /\ r.group \in group /\ Scopable(r.category, r.type))
  BY <1>1 DEF AddGroupScope, RemoveGroupScope
<1>5. new \in Groups \X Of("category") \X (Of("type") \cup {Nil})
      /\ new[1] = r.group /\ new[2] = r.category /\ new[3] = r.type
  BY <1>3
<1>6. Scopable(r.category, r.type) => node[r.category] # Nil /\ TypeIn(node, r.type, r.category)
  BY <1>3, NilOutside DEF Scopable, NullOrThere, There, TypeOfCategory, TypeIn, Of
<1> HIDE DEF new
<1>7. ScopesIn(scope', node, group)
  BY <1>4, <1>5, <1>6, TreeParts DEF ScopesIn
<1>8. scope' \subseteq Groups \X Of("category") \X (Of("type") \cup {Nil})
  BY <1>4, <1>5, TreeParts DEF Tables
<1>9. TreeInv' /\ Grows(w)
  <2>1. group' \subseteq Groups /\ filed' \in [Tickets -> Filed \cup {Nil}]
        /\ canned' \in [Canned -> CannedRow \cup {Nil}]
    BY <1>2, TreeParts DEF Tables
  <2>2. RowsIn(filed', node, group') /\ ItemsMatch(filed', node) /\ CannedIn(canned', node)
        /\ ScopesIn(scope', node, group')
    BY <1>2, <1>7, TreeParts
  <2>3. \A t \in Tickets : filed[t] # Nil => filed'[t] # Nil
    BY <1>2
  <2> QED BY <1>2, <1>8, <2>1, <2>2, <2>3, AroundTree
<1> QED BY <1>2, <1>9, WritesEnd

LEMMA GroupDeleted ==
  ASSUME CTIInv, NEW w \in Workers, DeleteGroup(w)
  PROVE  CTIInv' /\ Grows(w)
<1>1. PICK r : r = ctiReq[w]
  OBVIOUS
<1>2. /\ r # Nil /\ r.step = "deleteGroup" /\ Same /\ CTIEnds(w) /\ node' = node /\ canned' = canned
      /\ group' = group \ {r.group}
      /\ scope' = {s \in scope : s[1] # r.group}
      /\ filed' = [t \in Tickets |-> WithoutGroup(filed[t], r.group)]
  BY <1>1 DEF DeleteGroup, Same
<1>3. ASSUME NEW t \in Tickets, filed[t] # Nil
      PROVE  /\ filed'[t] \in Filed /\ RowIn(filed'[t], node, group')
             /\ filed'[t].item = filed[t].item /\ filed'[t].type = filed[t].type
  <2>1. PICK row : row = filed[t]
    OBVIOUS
  <2>2. row \in Filed /\ RowIn(row, node, group)
    BY <1>3, <2>1, TreeParts DEF Tables, RowsIn
  <2>3. CASE row.group = r.group
    <3> DEFINE new == [row EXCEPT !.group = Nil]
    <3>1. filed'[t] = new
      BY <1>2, <1>3, <2>1, <2>3 DEF WithoutGroup
    <3>2. new \in Filed
      BY <2>2 DEF Filed
    <3>3. new.category = row.category /\ new.type = row.type /\ new.item = row.item /\ new.group = Nil
      BY <2>2 DEF Filed
    <3> HIDE DEF new
    <3> QED BY <2>1, <2>2, <3>1, <3>2, <3>3 DEF RowIn
  <2>4. CASE row.group # r.group
    <3>1. filed'[t] = row
      BY <1>2, <2>1, <2>4 DEF WithoutGroup
    <3> QED BY <1>2, <2>1, <2>2, <2>4, <3>1 DEF RowIn
  <2> QED BY <2>3, <2>4
<1>4. ASSUME NEW t \in Tickets, filed[t] = Nil PROVE filed'[t] = Nil
  BY <1>2, <1>4 DEF WithoutGroup
<1>5. filed' \in [Tickets -> Filed \cup {Nil}]
  <2>1. filed' = [t \in Tickets |-> filed'[t]]
    BY <1>2
  <2>2. \A t \in Tickets : filed'[t] \in Filed \cup {Nil}
    BY <1>3, <1>4
  <2> QED BY <2>1, <2>2
<1>6. RowsIn(filed', node, group')
  BY <1>3, <1>4 DEF RowsIn
<1>7. ItemsMatch(filed', node)
  BY <1>3, <1>4, TreeParts DEF ItemsMatch
<1>8. \A t \in Tickets : filed[t] # Nil => filed'[t] # Nil
  BY <1>3, NilOutside
<1>9. group' \subseteq Groups /\ scope' \subseteq Groups \X Of("category") \X (Of("type") \cup {Nil})
  BY <1>2, TreeParts DEF Tables
<1>10. ScopesIn(scope', node, group')
  BY <1>2, TreeParts DEF ScopesIn
<1>11. canned' \in [Canned -> CannedRow \cup {Nil}] /\ CannedIn(canned', node)
  BY <1>2, TreeParts DEF Tables
<1>12. TreeInv' /\ Grows(w)
  BY <1>2, <1>5, <1>6, <1>7, <1>8, <1>9, <1>10, <1>11, AroundTree
<1> QED BY <1>2, <1>12, WritesEnd

LEMMA CannedWritten ==
  ASSUME CTIInv, NEW w \in Workers, PutCanned(w) \/ DeleteCanned(w)
  PROVE  CTIInv' /\ Grows(w)
<1>1. PICK r : r = ctiReq[w]
  OBVIOUS
<1>2. r # Nil /\ r.step \in {"insertCanned", "updateCanned", "deleteCanned"} /\ r \in CTIRequest
      /\ Holds(r, node, filed) /\ Same
      /\ CTIEnds(w) /\ node' = node /\ filed' = filed /\ group' = group /\ scope' = scope
  BY <1>1, RequestNow DEF PutCanned, DeleteCanned, Same
<1>3. r.canned \in Canned /\ r.category \in Of("category") \cup {Nil} /\ r.type \in Of("type") \cup {Nil}
      /\ (r.type # Nil => r.category # Nil)
  BY <1>2 DEF Holds, CTIRequest
<1> DEFINE new == [category |-> r.category, type |-> r.type]
<1>4. new \in CannedRow /\ new.category = r.category /\ new.type = r.type
  BY <1>3 DEF CannedRow
<1>5. PICK x \in CannedRow \cup {Nil} :
        canned' = canned \/ (canned' = [canned EXCEPT ![r.canned] = x]
                             /\ (x # Nil => x = new /\ Scopable(r.category, r.type)))
  BY <1>1, <1>4 DEF PutCanned, DeleteCanned
<1>6. Scopable(r.category, r.type) =>
        (r.category # Nil => node[r.category] # Nil) /\ TypeIn(node, r.type, r.category)
  BY <1>3 DEF Scopable, NullOrThere, There, TypeOfCategory, TypeIn
<1> HIDE DEF new
<1>7. canned' \in [Canned -> CannedRow \cup {Nil}]
  BY <1>3, <1>5, TreeParts DEF Tables
<1>8. CannedIn(canned', node)
  <2> SUFFICES ASSUME NEW k \in Canned, canned'[k] # Nil
               PROVE  /\ canned'[k].category # Nil => node[canned'[k].category] # Nil
                      /\ TypeIn(node, canned'[k].type, canned'[k].category)
    BY DEF CannedIn
  <2>1. canned'[k] = canned[k] \/ (canned'[k] = new /\ Scopable(r.category, r.type))
    BY <1>3, <1>5, TreeParts DEF Tables
  <2> QED BY <1>4, <1>6, <2>1, TreeParts DEF CannedIn
<1>9. TreeInv' /\ Grows(w)
  <2>1. group' \subseteq Groups /\ filed' \in [Tickets -> Filed \cup {Nil}]
        /\ scope' \subseteq Groups \X Of("category") \X (Of("type") \cup {Nil})
    BY <1>2, TreeParts DEF Tables
  <2>2. RowsIn(filed', node, group') /\ ItemsMatch(filed', node) /\ ScopesIn(scope', node, group')
    BY <1>2, TreeParts
  <2>3. \A t \in Tickets : filed[t] # Nil => filed'[t] # Nil
    BY <1>2
  <2> QED BY <1>2, <1>7, <1>8, <2>1, <2>2, <2>3, AroundTree
<1> QED BY <1>2, <1>9, WritesEnd

-----------------------------------------------------------------------------
(* What holds of every behaviour.                                          *)

LEMMA CTIStarts ==
  ASSUME CTIInit
  PROVE  CTIInv
<1>1. node = SeededNodes /\ filed = SeededFiled /\ group = Groups /\ scope = SeededScope /\ canned = SeededCanned
  BY DEF CTIInit
<1>2. Tables
  BY <1>1, CTIAssumption DEF Tables
<1>3. TreeClosed /\ ItemOfType
  BY <1>1, CTIAssumption DEF TreeClosed, ItemOfType
<1>4. Settled
  BY CTIAssumption DEF CTIInit, Settled
<1>5. Requests
  BY DEF CTIInit, Requests
<1> QED BY <1>2, <1>3, <1>4, <1>5 DEF CTIInv, TreeInv

LEMMA CTIStutters ==
  ASSUME CTIInv, UNCHANGED <<ctiTables, fallback, ctiReq, alone, ctiFaults, ctiCount>>
  PROVE  CTIInv'
<1>1. node' = node /\ filed' = filed /\ ctiReq' = ctiReq /\ Reads
  BY DEF ctiTables, Reads, CTIInv, Settled
<1>2. TreeInv' /\ Settled'
  BY <1>1, ReadingKeeps
<1>3. Requests'
  BY <1>1 DEF CTIInv, Requests
<1> QED BY <1>2, <1>3 DEF CTIInv

LEMMA CTIKept ==
  ASSUME CTIInv, NEW w \in Workers, CTIArrive(w) \/ CTIStatement(w)
  PROVE  CTIInv' /\ Grows(w)
<1>1. CASE CTIArrive(w)
  BY <1>1, Arriving
<1>2. CASE CTIStatement(w)
  BY <1>2, FormReads, ItemsRead, TicketInserted, RouteReads, TicketReads, TicketAssigned, TicketReclassified,
     NodeReads, NodeInserted, NodePatched, NodeDeleted, ScopeWritten, GroupDeleted, CannedWritten, PickerReads,
     FaultReads, FallbackSet
     DEF CTIStatement
<1> QED BY <1>1, <1>2

LEMMA CTISteady ==
  ASSUME CTIInv, [CTINext]_ctiVars
  PROVE  CTIInv'
<1>1. ASSUME NEW w \in Workers, CTIArrive(w) \/ CTIStatement(w) PROVE CTIInv'
  BY <1>1, CTIKept
<1>2. CASE CTIExhausted
  BY <1>2, CTIStutters DEF CTIExhausted
<1>3. CASE UNCHANGED ctiVars
  BY <1>3, CTIStutters DEF ctiVars, ctiTables
<1> QED BY <1>1, <1>2, <1>3 DEF CTINext

LEMMA CTIInvariant == CTISpec => []CTIInv
<1>1. CTIInit => CTIInv
  BY CTIStarts
<1>2. CTIInv /\ [CTINext]_ctiVars => CTIInv'
  BY CTISteady
<1> QED BY <1>1, <1>2, PTL DEF CTISpec

\* Whatever administrators delete between the statements of a request, nothing that is
\* stored refers to a node or a group that is gone: the foreign keys of the migrations,
\* with what each does on DELETE, are enough for it.
THEOREM TreeStaysClosed == CTISpec => []TreeClosed
<1>1. CTIInv => TreeClosed
  BY DEF CTIInv, TreeInv
<1> QED BY <1>1, CTIInvariant, PTL

\* An assignment that writes back the type and item it read keeps the two together, also
\* over a reclassification, while clients send what the form offers.
THEOREM ItemStaysOfType == CTISpec => []ItemOfType
<1>1. CTIInv => ItemOfType
  BY DEF CTIInv, TreeInv
<1> QED BY <1>1, CTIInvariant, PTL

-----------------------------------------------------------------------------
(* What a request has met.                                                 *)

Early == {"categories", "types", "items", "insertTicket"}

\* What a request r knows of what it has met, met, the tables being `rows` and `scopes` and
\* the setting fb.
Met(r, met, rows, scopes, fb) ==
  /\ r.op = "file" /\ rows[r.ticket] # Nil =>
       Covering(r.category, r.type, scopes) \subseteq met.groups /\ (fb # Nil => fb \in met.groups)
  /\ r.op = "file" /\ r.step \in {"getTicket", "putTicket"} => r.group \in met.groups \cup {Nil}
  /\ r.op = "pick" => <<rows[r.ticket].category, rows[r.ticket].type>> \in met.classes
  /\ r.op = "pick" /\ r.step \in {"listCanned", "picked"} => <<r.category, r.type>> \in met.classes
  /\ r.op = "pick" /\ r.step = "picked" => \A k \in r.answer : Available(k, r.category, r.type)

\* The groups that the ticket of r is to go to one of.
Wanted(r, scopes, groups, fb) ==
  IF Covering(r.category, r.type, scopes) # {} THEN Covering(r.category, r.type, scopes)
  ELSE {fb} \cap groups

\* What a request whose routing did not fail has found while it is the only one.
Routes(r, scopes, groups, fb) ==
  /\ r.step = "fallback" => Covering(r.category, r.type, scopes) = {}
  /\ r.step \in {"getTicket", "putTicket"} /\ Wanted(r, scopes, groups, fb) # {} =>
       r.group \in Wanted(r, scopes, groups, fb)

\* What a request knows while it is the only one.
Lone(r, met, rows, scopes, texts, groups, fb) ==
  /\ r.op = "file" /\ r.step \in Early => rows[r.ticket] = Nil
  /\ r.op = "file" /\ ~met.failed => Routes(r, scopes, groups, fb)
  /\ r.op = "file" /\ r.step = "putTicket" => r.held = rows[r.ticket]
  /\ r.op = "pick" /\ r.step = "picked" =>
       \A k \in Canned : texts[k] # Nil /\ Available(texts[k], r.category, r.type) => texts[k] \in r.answer

Knows(r, met) ==
  /\ Met(r, met, filed, scope, fallback)
  /\ alone => Lone(r, met, filed, scope, canned, group, fallback)

Watch ==
  /\ seen \in [Workers -> Seen]
  /\ \A w \in Workers : ctiReq[w] # Nil => Knows(ctiReq[w], seen[w])
  /\ alone => \A v, w \in Workers : v # w => ctiReq[v] = Nil \/ ctiReq[w] = Nil

\* The observer keeps what it saw while the request goes on, and adds what is so now.
LEMMA SeenNow ==
  ASSUME CTIInv', seen \in [Workers -> Seen], NEW w \in Workers
  PROVE  /\ Seeing(w) \in Seen
         /\ ctiReq'[w] # Nil /\ ctiReq'[w].op = "file" /\ filed'[ctiReq'[w].ticket] # Nil =>
              /\ Seeing(w).groups = seen[w].groups \cup Covering(ctiReq'[w].category, ctiReq'[w].type, scope')
                                                  \cup ({fallback'} \ {Nil})
              /\ ~Seeing(w).failed => ~seen[w].failed /\ ctiFaults' = ctiFaults
         /\ ctiReq'[w] # Nil /\ ctiReq'[w].op = "pick" =>
              Seeing(w).classes = seen[w].classes
                \cup {<<filed'[ctiReq'[w].ticket].category, filed'[ctiReq'[w].ticket].type>>}
<1>1. PICK q, s : q = ctiReq'[w] /\ s = seen[w]
  OBVIOUS
<1>2. s \in Seen
  BY <1>1
<1>3. q # Nil => q \in CTIRequest /\ Holds(q, node', filed')
  BY <1>1 DEF CTIInv, Requests
<1>4. scope' \subseteq Groups \X Of("category") \X (Of("type") \cup {Nil})
      /\ filed' \in [Tickets -> Filed \cup {Nil}] /\ fallback' \in Groups \cup {Nil}
  BY DEF CTIInv, TreeInv, Tables, Settled
<1>5. PICK x : x = Covering(q.category, q.type, scope') \cup ({fallback'} \ {Nil})
  OBVIOUS
<1>5a. (s.failed \/ ctiFaults' # ctiFaults) \in BOOLEAN
  OBVIOUS
<1>5b. PICK fail \in BOOLEAN : fail = (s.failed \/ ctiFaults' # ctiFaults)
  BY <1>5a, Zenon
<1>6. x \subseteq Groups
  BY <1>4, <1>5 DEF Covering
<1>7. PICK f : f = filed'[q.ticket]
  OBVIOUS
<1>8. q # Nil /\ q.op = "pick" => f \in Filed
  BY <1>3, <1>4, <1>7 DEF Holds
<1>9. q # Nil /\ q.op = "pick" => <<f.category, f.type>> \in Of("category") \X (Of("type") \cup {Nil})
  BY <1>8 DEF Filed
<1> DEFINE s1 == [s EXCEPT !.groups = s.groups \cup x, !.failed = fail]
           s2 == [s EXCEPT !.classes = s.classes \cup {<<f.category, f.type>>}]
<1>10. s1 \in Seen /\ s1.groups = s.groups \cup x /\ s1.failed = fail
  BY <1>2, <1>6 DEF Seen
<1>11. q # Nil /\ q.op = "pick" => s2 \in Seen
  BY <1>2, <1>9 DEF Seen
<1>12. s2.classes = s.classes \cup {<<f.category, f.type>>}
  BY <1>2 DEF Seen
<1>13. Nothing \in Seen
  BY DEF Nothing, Seen
<1>14. Seeing(w) = IF q # Nil /\ q.op = "file" /\ f # Nil THEN s1
                   ELSE IF q # Nil /\ q.op = "pick" THEN s2 ELSE Nothing
  BY <1>1, <1>5, <1>7, <1>5b DEF Seeing
<1> HIDE DEF s1, s2
<1>15. Seeing(w) \in Seen
  BY <1>10, <1>11, <1>13, <1>14
<1>16. q # Nil /\ q.op = "file" /\ f # Nil => Seeing(w) = s1
  BY <1>14
<1>17. q # Nil /\ q.op = "pick" => Seeing(w) = s2
  BY <1>14
<1>18. q # Nil /\ q.op = "file" /\ f # Nil => Seeing(w).groups = s.groups \cup x /\ Seeing(w).failed = fail
  BY <1>10, <1>16
<1>19. ~fail => ~s.failed /\ ctiFaults' = ctiFaults
  BY <1>5b, Zenon
<1> QED BY <1>1, <1>5, <1>7, <1>12, <1>15, <1>17, <1>18, <1>19

\* A request that another does not touch knows as much as before.
LEMMA OthersKnow ==
  ASSUME CTIInv, CTIInv', Watch, NEW w \in Workers, NEW v \in Workers, v # w, Grows(w), ctiReq[v] # Nil,
         ctiReq'[v] = ctiReq[v]
  PROVE  Met(ctiReq[v], Seeing(v), filed', scope', fallback')
<1>1. PICK r, s, z : r = ctiReq[v] /\ s = seen[v] /\ z = Seeing(v)
  OBVIOUS
<1>2. Met(r, s, filed, scope, fallback) /\ Holds(r, node, filed) /\ seen \in [Workers -> Seen]
  BY <1>1, RequestNow DEF Watch, Knows
<1>3. /\ r.op = "file" /\ filed'[r.ticket] # Nil =>
           z.groups = s.groups \cup Covering(r.category, r.type, scope') \cup ({fallback'} \ {Nil})
      /\ r.op = "pick" => z.classes = s.classes \cup {<<filed'[r.ticket].category, filed'[r.ticket].type>>}
  BY <1>1, <1>2, SeenNow
<1>4. r.op = "file" /\ r.step \in {"getTicket", "putTicket"} => filed'[r.ticket] # Nil
  BY <1>2 DEF Holds, Grows
<1>5. Met(r, z, filed', scope', fallback')
  BY <1>2, <1>3, <1>4 DEF Met
<1> QED BY <1>1, <1>5

\* The requests that are not about to say what they met know enough.
LEMMA KnowsEnough ==
  ASSUME CTIInv', seen \in [Workers -> Seen], NEW w \in Workers, NEW q, q = ctiReq'[w], q # Nil,
         q.op = "file" => q.step \in Early \cup {"route"},
         q.op = "pick" => q.step \notin {"listCanned", "picked"},
         q.op = "file" /\ q.step \in Early /\ alone => filed'[q.ticket] = Nil
  PROVE  /\ Met(q, Seeing(w), filed', scope', fallback')
         /\ alone => Lone(q, Seeing(w), filed', scope', canned', group', fallback')
<1>1. PICK z : z = Seeing(w)
  OBVIOUS
<1>2. /\ q.op = "file" /\ filed'[q.ticket] # Nil =>
           z.groups = seen[w].groups \cup Covering(q.category, q.type, scope') \cup ({fallback'} \ {Nil})
      /\ q.op = "pick" => z.classes = seen[w].classes \cup {<<filed'[q.ticket].category, filed'[q.ticket].type>>}
  BY <1>1, SeenNow
<1>3. Met(q, z, filed', scope', fallback')
  BY <1>2 DEF Met, Early
<1>4. alone => Lone(q, z, filed', scope', canned', group', fallback')
  BY DEF Lone, Routes, Early
<1> QED BY <1>1, <1>3, <1>4

\* What the request of w knows after the step.
Learns(w) ==
  LET q == ctiReq'[w] IN
  q # Nil =>
    /\ Met(q, Seeing(w), filed', scope', fallback')
    /\ alone => Lone(q, Seeing(w), filed', scope', canned', group', fallback')

LEMMA BegunKnows ==
  ASSUME CTIInv, CTIInv', Watch, NEW w \in Workers, NEW q, CTIBegins(w, q),
         q.op = "file" => q.step = "categories" /\ filed[q.ticket] = Nil,
         q.op = "pick" => q.step = "getClassified"
  PROVE  Learns(w)
<1>1. ctiReq'[w] = q /\ filed' = filed /\ seen \in [Workers -> Seen]
  BY DEF CTIBegins, CTIInv, Requests, ctiTables, Watch
<1>2. CASE q # Nil
  BY <1>1, <1>2, KnowsEnough DEF Learns, Early
<1> QED BY <1>1, <1>2 DEF Learns

LEMMA ArrivedKnows ==
  ASSUME CTIInv, CTIInv', Watch, NEW w \in Workers, CTIArrive(w)
  PROVE  Learns(w)
<1>1. CASE HandleCreateTicket(w)
  <2>1. PICK t \in Tickets, x \in {"guest", "user", "staff"} :
          filed[t] = Nil /\ CTIBegins(w, [CTIBlank EXCEPT !.ticket = t, !.role = x])
    BY <1>1 DEF HandleCreateTicket
  <2> DEFINE q == [CTIBlank EXCEPT !.ticket = t, !.role = x]
  <2>2. q.op = "file" /\ q.step = "categories" /\ q.ticket = t
    BY DEF CTIBlank
  <2>3. CTIBegins(w, q)
    BY <2>1
  <2> HIDE DEF q
  <2> QED BY <2>1, <2>2, <2>3, BegunKnows
<1>2. ASSUME NEW q, CTIBegins(w, q), q.op # "file", q.op = "pick" => q.step = "getClassified"
      PROVE  Learns(w)
  BY <1>2, BegunKnows
<1>3. CASE HandleUpdateTicketCTI(w)
  <2>1. PICK t, g, a, c :
          CTIBegins(w, [CTIBlank EXCEPT !.op = "update", !.step = IF c THEN "categories" ELSE "getTicket",
                          !.ticket = t, !.assigns = a, !.classifies = c, !.group = g])
    BY <1>3 DEF HandleUpdateTicketCTI
  <2>2. [CTIBlank EXCEPT !.op = "update", !.step = IF c THEN "categories" ELSE "getTicket",
           !.ticket = t, !.assigns = a, !.classifies = c, !.group = g].op = "update"
    BY DEF CTIBlank
  <2> QED BY <1>2, <2>1, <2>2
<1>4. CASE HandleListTicketCannedResponses(w)
  <2>1. PICK t : CTIBegins(w, [CTIBlank EXCEPT !.op = "pick", !.step = "getClassified", !.ticket = t])
    BY <1>4 DEF HandleListTicketCannedResponses
  <2> DEFINE q == [CTIBlank EXCEPT !.op = "pick", !.step = "getClassified", !.ticket = t]
  <2>2. q.op = "pick" /\ q.step = "getClassified"
    BY DEF CTIBlank
  <2>3. CTIBegins(w, q)
    BY <2>1
  <2> HIDE DEF q
  <2> QED BY <1>2, <2>2, <2>3
<1>5. CASE HandleCreateNode(w)
  <2>1. PICK n, p :
          CTIBegins(w, [CTIBlank EXCEPT !.op = "node", !.node = n, !.parent = p,
                          !.step = IF p = Nil THEN "insertNode" ELSE "getParent"])
    BY <1>5 DEF HandleCreateNode
  <2>2. [CTIBlank EXCEPT !.op = "node", !.node = n, !.parent = p,
           !.step = IF p = Nil THEN "insertNode" ELSE "getParent"].op = "node"
    BY DEF CTIBlank
  <2> QED BY <1>2, <2>1, <2>2
<1>6. CASE HandleUpdateNode(w)
  <2>1. PICK n, a :
          CTIBegins(w, [CTIBlank EXCEPT !.op = "patch", !.step = "getNode", !.node = n, !.active = a])
    BY <1>6 DEF HandleUpdateNode
  <2>2. [CTIBlank EXCEPT !.op = "patch", !.step = "getNode", !.node = n, !.active = a].op = "patch"
    BY DEF CTIBlank
  <2> QED BY <1>2, <2>1, <2>2
<1>7. CASE HandleDeleteNode(w)
  <2>1. PICK n : CTIBegins(w, [CTIBlank EXCEPT !.op = "node", !.step = "deleteNode", !.node = n])
    BY <1>7 DEF HandleDeleteNode
  <2>2. [CTIBlank EXCEPT !.op = "node", !.step = "deleteNode", !.node = n].op = "node"
    BY DEF CTIBlank
  <2> QED BY <1>2, <2>1, <2>2
<1>8. CASE HandleGroupScope(w)
  <2>1. PICK g, c, y, s :
          CTIBegins(w, [CTIBlank EXCEPT !.op = "scope", !.step = s, !.group = g, !.category = c, !.type = y])
    BY <1>8 DEF HandleGroupScope
  <2>2. [CTIBlank EXCEPT !.op = "scope", !.step = s, !.group = g, !.category = c, !.type = y].op = "scope"
    BY DEF CTIBlank
  <2> QED BY <1>2, <2>1, <2>2
<1>9. CASE HandleDeleteGroup(w)
  <2>1. PICK g : CTIBegins(w, [CTIBlank EXCEPT !.op = "scope", !.step = "deleteGroup", !.group = g])
    BY <1>9 DEF HandleDeleteGroup
  <2>2. [CTIBlank EXCEPT !.op = "scope", !.step = "deleteGroup", !.group = g].op = "scope"
    BY DEF CTIBlank
  <2> QED BY <1>2, <2>1, <2>2
<1>10. CASE HandleCannedResponse(w)
  <2>1. PICK k, c, y, s :
          CTIBegins(w, [CTIBlank EXCEPT !.op = "canned", !.step = s, !.canned = k, !.category = c, !.type = y])
    BY <1>10 DEF HandleCannedResponse
  <2>2. [CTIBlank EXCEPT !.op = "canned", !.step = s, !.canned = k, !.category = c, !.type = y].op = "canned"
    BY DEF CTIBlank
  <2> QED BY <1>2, <2>1, <2>2
<1>11. CASE HandleUpdateSettings(w)
  <2>1. PICK g : CTIBegins(w, [CTIBlank EXCEPT !.op = "scope", !.step = "setFallback", !.group = g])
    BY <1>11 DEF HandleUpdateSettings
  <2>2. [CTIBlank EXCEPT !.op = "scope", !.step = "setFallback", !.group = g].op = "scope"
    BY DEF CTIBlank
  <2> QED BY <1>2, <2>1, <2>2
<1> QED BY <1>1, <1>3, <1>4, <1>5, <1>6, <1>7, <1>8, <1>9, <1>10, <1>11 DEF CTIArrive

LEMMA FormKnows ==
  ASSUME CTIInv, CTIInv', Watch, NEW w \in Workers, ListCategories(w) \/ ListTypes(w) \/ ListItems(w)
  PROVE  Learns(w)
<1>1. PICK r, q : r = ctiReq[w] /\ q = ctiReq'[w]
  OBVIOUS
<1>2. r # Nil /\ r.step \in {"categories", "types", "items"} /\ r \in CTIRequest /\ Holds(r, node, filed)
      /\ filed' = filed /\ Knows(r, seen[w]) /\ seen \in [Workers -> Seen]
  BY <1>1, RequestNow DEF ListCategories, ListTypes, ListItems, ctiTables, Watch
<1>3. r.op \in {"file", "update"} /\ (r.op = "file" => Submitted(r) = "insertTicket")
  BY <1>2 DEF Holds, Submitted
<1>4. q # Nil => q.op = r.op /\ q.ticket = r.ticket /\ q.step \in {"types", "items", Submitted(r)}
  <2>1. CASE CTIEnds(w)
    BY <1>1, <2>1 DEF CTIEnds, Ended, CTIInv, Requests
  <2>2. CASE CTIGoes(w, Submitted(r))
    <3>1. q = [r EXCEPT !.step = Submitted(r)]
      BY <1>1, <2>2 DEF CTIGoes, GoesTo, CTIInv, Requests
    <3> QED BY <1>2, <3>1 DEF CTIRequest
  <2>3. ASSUME NEW c, NEW step \in {"types", Submitted(r)},
               ctiReq' = [ctiReq EXCEPT ![w].category = c, ![w].step = step]
        PROVE  q.op = r.op /\ q.ticket = r.ticket /\ q.step = step
    <3>1. q = [r EXCEPT !.category = c, !.step = step]
      BY <1>1, <2>3 DEF CTIInv, Requests
    <3> QED BY <1>2, <3>1 DEF CTIRequest
  <2>4. ASSUME NEW y, NEW step \in {"items", Submitted(r)},
               ctiReq' = [ctiReq EXCEPT ![w].type = y, ![w].step = step]
        PROVE  q.op = r.op /\ q.ticket = r.ticket /\ q.step = step
    <3>1. q = [r EXCEPT !.type = y, !.step = step]
      BY <1>1, <2>4 DEF CTIInv, Requests
    <3> QED BY <1>2, <3>1 DEF CTIRequest
  <2>5. ASSUME NEW i, ctiReq' = [ctiReq EXCEPT ![w].item = i, ![w].step = Submitted(r)]
        PROVE  q.op = r.op /\ q.ticket = r.ticket /\ q.step = Submitted(r)
    <3>1. q = [r EXCEPT !.item = i, !.step = Submitted(r)]
      BY <1>1, <2>5 DEF CTIInv, Requests
    <3> QED BY <1>2, <3>1 DEF CTIRequest
  <2>6. CASE ListCategories(w)
    BY <1>1, <2>1, <2>3, <2>6 DEF ListCategories
  <2>7. CASE ListTypes(w)
    BY <1>1, <2>2, <2>4, <2>7 DEF ListTypes
  <2>8. CASE ListItems(w)
    BY <1>1, <2>2, <2>5, <2>8 DEF ListItems
  <2> QED BY <2>6, <2>7, <2>8
<1>5. CASE q # Nil
  <2>1. q.op = "file" => q.step \in Early
    BY <1>3, <1>4, <1>5 DEF Early
  <2>2. q.op = "file" /\ alone => filed'[q.ticket] = Nil
    BY <1>2, <1>4, <1>5 DEF Knows, Lone, Early
  <2>3. q.op # "pick"
    BY <1>3, <1>4, <1>5
  <2> QED BY <1>1, <1>2, <1>5, <2>1, <2>2, <2>3, KnowsEnough DEF Learns
<1> QED BY <1>1, <1>5 DEF Learns

\* Statements after which a request ends, or does what needs no knowledge of the past.
LEMMA EndedKnows ==
  ASSUME CTIInv, CTIInv', Watch, NEW w \in Workers, ctiReq[w] # Nil,
         \/ CTIEnds(w) \/ CTIGoes(w, "route") \/ CTIGoes(w, "putCTI") \/ CTIGoes(w, "insertNode")
         \/ \E a : ctiReq' = [ctiReq EXCEPT ![w].step = "putNode", ![w].active = a]
  PROVE  Learns(w)
<1>1. PICK r, q : r = ctiReq[w] /\ q = ctiReq'[w]
  OBVIOUS
<1>2. r \in CTIRequest /\ seen \in [Workers -> Seen]
  BY <1>1, RequestNow DEF Watch
<1>3. q # Nil => q \in CTIRequest /\ Holds(q, node', filed')
  BY <1>1 DEF CTIInv, Requests
<1>4. q # Nil => q.step \in {"route", "putCTI", "insertNode", "putNode"}
  <2>1. CASE CTIEnds(w)
    BY <1>1, <2>1 DEF CTIEnds, Ended, CTIInv, Requests
  <2>2. ASSUME NEW step, CTIGoes(w, step) PROVE q.step = step
    <3>1. q = [r EXCEPT !.step = step]
      BY <1>1, <2>2 DEF CTIGoes, GoesTo, CTIInv, Requests
    <3> QED BY <1>2, <3>1 DEF CTIRequest
  <2>3. ASSUME NEW a, ctiReq' = [ctiReq EXCEPT ![w].step = "putNode", ![w].active = a]
        PROVE  q.step = "putNode"
    <3>1. q = [r EXCEPT !.step = "putNode", !.active = a]
      BY <1>1, <2>3 DEF CTIInv, Requests
    <3> QED BY <1>2, <3>1 DEF CTIRequest
  <2> QED BY <2>1, <2>2, <2>3
<1>5. CASE q # Nil
  <2>1. q.op = "file" => q.step = "route"
    BY <1>3, <1>4, <1>5 DEF Holds
  <2> QED BY <1>1, <1>2, <1>4, <1>5, <2>1, KnowsEnough DEF Learns, Early
<1> QED BY <1>1, <1>5 DEF Learns

\* A group is in scope by the statement that looks for it if it covers the ticket.
LEMMA ScopeCovers ==
  ASSUME Tables, NEW c, NEW y
  PROVE  InScope(c, y) = Covering(c, y, scope)
<1>1. ASSUME NEW g \in InScope(c, y) PROVE g \in Covering(c, y, scope)
  <2>1. PICK z \in {Nil, y} : <<g, c, z>> \in scope
    BY DEF InScope
  <2> QED BY <2>1 DEF Covering
<1>2. ASSUME NEW g \in Covering(c, y, scope) PROVE g \in InScope(c, y)
  <2>1. PICK s \in scope : s[1] = g /\ s[2] = c /\ (s[3] = Nil \/ s[3] = y)
    BY DEF Covering
  <2>2. s = <<g, c, s[3]>> /\ g \in Groups
    BY <2>1 DEF Tables
  <2> QED BY <2>1, <2>2 DEF InScope
<1> QED BY <1>1, <1>2

\* A new ticket's request goes on to q, with a group that it has met or with none; that is
\* the right one while it is the only request and nothing failed.
LEMMA RoutingKnows ==
  ASSUME CTIInv, CTIInv', Watch, NEW w \in Workers, ctiReq[w] # Nil, ctiReq[w].step \in {"route", "fallback"},
         UNCHANGED ctiTables, NEW q, q = ctiReq'[w],
         q.op = ctiReq[w].op, q.ticket = ctiReq[w].ticket, q.category = ctiReq[w].category,
         q.type = ctiReq[w].type, q.step \in {"fallback", "getTicket"},
         q.step = "getTicket" => q.group \in Covering(q.category, q.type, scope) \cup {fallback', Nil},
         alone /\ ~seen[w].failed /\ ctiFaults' = ctiFaults => Routes(q, scope, group, fallback')
  PROVE  Learns(w)
<1>1. PICK r : r = ctiReq[w]
  OBVIOUS
<1>2. r.op = "file" /\ filed[r.ticket] # Nil /\ seen \in [Workers -> Seen]
  BY <1>1, RequestNow DEF Holds, Watch
<1>3. PICK met : met = Seeing(w)
  OBVIOUS
<1>4. filed' = filed /\ scope' = scope /\ group' = group
  BY DEF ctiTables
<1>5. q # Nil => /\ met.groups = seen[w].groups \cup Covering(q.category, q.type, scope') \cup ({fallback'} \ {Nil})
                 /\ ~met.failed => ~seen[w].failed /\ ctiFaults' = ctiFaults
  BY <1>1, <1>2, <1>3, <1>4, SeenNow
<1>6. q # Nil => Met(q, met, filed', scope', fallback')
  BY <1>1, <1>2, <1>4, <1>5 DEF Met
<1>7. q # Nil /\ alone => Lone(q, met, filed', scope', canned', group', fallback')
  BY <1>1, <1>2, <1>4, <1>5 DEF Lone, Early
<1> QED BY <1>3, <1>6, <1>7 DEF Learns

\* How the routing of a new ticket goes on.
LEMMA RoutingMoves ==
  ASSUME CTIInv, NEW w \in Workers, ctiReq[w] # Nil, NEW q, q = ctiReq'[w]
  PROVE  /\ CTIGoes(w, "fallback") => q = [ctiReq[w] EXCEPT !.step = "fallback"]
         /\ \A g : AssignTo(w, g) => q = [ctiReq[w] EXCEPT !.group = g, !.step = "getTicket"]
         /\ \A p \in CTIRequest :
              [p EXCEPT !.step = "fallback"].op = p.op /\ [p EXCEPT !.step = "fallback"].ticket = p.ticket
              /\ [p EXCEPT !.step = "fallback"].category = p.category
              /\ [p EXCEPT !.step = "fallback"].type = p.type
              /\ [p EXCEPT !.step = "fallback"].step = "fallback"
<1>1. CTIGoes(w, "fallback") => q = [ctiReq[w] EXCEPT !.step = "fallback"]
  BY DEF CTIGoes, GoesTo, CTIInv, Requests
<1>2. \A g : AssignTo(w, g) => q = [ctiReq[w] EXCEPT !.group = g, !.step = "getTicket"]
  BY DEF AssignTo, CTIInv, Requests
<1> QED BY <1>1, <1>2 DEF CTIRequest

LEMMA AssignedKnows ==
  ASSUME CTIInv, CTIInv', Watch, NEW w \in Workers, ctiReq[w] # Nil, ctiReq[w].step \in {"route", "fallback"},
         UNCHANGED ctiTables, NEW g, AssignTo(w, g), NEW r, r = ctiReq[w],
         g \in Covering(r.category, r.type, scope) \cup {fallback', Nil},
         alone /\ ~seen[w].failed /\ ctiFaults' = ctiFaults /\ Wanted(r, scope, group, fallback') # {} =>
           g \in Wanted(r, scope, group, fallback')
  PROVE  Learns(w)
<1>1. PICK q : q = ctiReq'[w]
  OBVIOUS
<1>2. q = [r EXCEPT !.group = g, !.step = "getTicket"] /\ r \in CTIRequest
  BY <1>1, RoutingMoves, RequestNow
<1>3. q.op = r.op /\ q.ticket = r.ticket /\ q.category = r.category /\ q.type = r.type /\ q.group = g
      /\ q.step = "getTicket"
  BY <1>2 DEF CTIRequest
<1>4. alone /\ ~seen[w].failed /\ ctiFaults' = ctiFaults => Routes(q, scope, group, fallback')
  BY <1>3 DEF Routes, Wanted
<1> QED BY <1>1, <1>3, <1>4, RoutingKnows

LEMMA FallingKnows ==
  ASSUME CTIInv, CTIInv', Watch, NEW w \in Workers, ctiReq[w] # Nil, ctiReq[w].step = "route",
         UNCHANGED ctiTables, CTIGoes(w, "fallback"), NEW r, r = ctiReq[w],
         ctiFaults' = ctiFaults => Covering(r.category, r.type, scope) = {}
  PROVE  Learns(w)
<1>1. PICK q : q = ctiReq'[w]
  OBVIOUS
<1>2. q = [r EXCEPT !.step = "fallback"] /\ r \in CTIRequest
  BY <1>1, RoutingMoves, RequestNow
<1>3. q.op = r.op /\ q.ticket = r.ticket /\ q.category = r.category /\ q.type = r.type /\ q.step = "fallback"
  BY <1>2 DEF CTIRequest
<1>4. ctiFaults' = ctiFaults => Routes(q, scope, group, fallback')
  BY <1>3 DEF Routes
<1> QED BY <1>1, <1>3, <1>4, RoutingKnows

LEMMA RoutedKnows ==
  ASSUME CTIInv, CTIInv', Watch, NEW w \in Workers, RouteTicket(w) \/ RouteToFallback(w)
  PROVE  Learns(w)
<1>1. PICK r : r = ctiReq[w]
  OBVIOUS
<1>2. r # Nil /\ r.step \in {"route", "fallback"} /\ Holds(r, node, filed) /\ Knows(r, seen[w])
      /\ UNCHANGED ctiTables /\ fallback' = fallback
  BY <1>1, RequestNow DEF RouteTicket, RouteToFallback, Watch
<1>3. InScope(r.category, r.type) = Covering(r.category, r.type, scope)
  BY ScopeCovers, TreeParts
<1>4. CASE RouteTicket(w)
  <2>1. ASSUME NEW g \in Covering(r.category, r.type, scope), AssignTo(w, g) PROVE Learns(w)
    <3>1. g \in Wanted(r, scope, group, fallback')
      BY <2>1 DEF Wanted
    <3> QED BY <1>1, <1>2, <2>1, <3>1, AssignedKnows
  <2>2. CASE CTIGoes(w, "fallback") /\ Covering(r.category, r.type, scope) = {}
    BY <1>1, <1>4, <2>2, <1>2, FallingKnows DEF RouteTicket
  <2> QED BY <1>1, <1>3, <1>4, <2>1, <2>2 DEF RouteTicket
<1>5. CASE RouteToFallback(w)
  <2>1. CASE AssignTo(w, fallback)
    <3>1. alone /\ ~seen[w].failed => Covering(r.category, r.type, scope) = {}
      BY <1>1, <1>2, <1>5 DEF RouteToFallback, Holds, Knows, Lone, Routes
    <3>2. alone /\ ~seen[w].failed /\ Wanted(r, scope, group, fallback') # {} =>
            fallback \in Wanted(r, scope, group, fallback')
      BY <1>2, <3>1 DEF Wanted
    <3> QED BY <1>1, <1>2, <2>1, <3>2, AssignedKnows
  <2>2. CASE CTIEnds(w)
    BY <1>1, <1>2, <2>2, EndedKnows
  <2> QED BY <1>5, <2>1, <2>2 DEF RouteToFallback
<1> QED BY <1>4, <1>5

LEMMA FailedKnows ==
  ASSUME CTIInv, CTIInv', Watch, NEW w \in Workers, CTIFails(w)
  PROVE  Learns(w)
<1>1. PICK r : r = ctiReq[w]
  OBVIOUS
<1>2. r # Nil /\ UNCHANGED ctiTables /\ ctiFaults' = ctiFaults + 1 /\ ctiFaults \in Nat
  BY <1>1, CTIAssumption DEF CTIFails, CTIInv, Settled
<1>3. ctiFaults' # ctiFaults
  BY <1>2
<1>4. CASE r.step = "route" /\ CTIGoes(w, "fallback")
  BY <1>1, <1>2, <1>3, <1>4, FallingKnows
<1>5. CASE r.step = "fallback" /\ AssignTo(w, Nil)
  BY <1>1, <1>2, <1>3, <1>5, AssignedKnows
<1>6. CASE CTIEnds(w)
  BY <1>1, <1>2, <1>6, EndedKnows
<1> QED BY <1>1, <1>4, <1>5, <1>6 DEF CTIFails

LEMMA TicketKnows ==
  ASSUME CTIInv, CTIInv', Watch, NEW w \in Workers, AssignReads(w)
  PROVE  Learns(w)
<1>1. PICK r, q : r = ctiReq[w] /\ q = ctiReq'[w]
  OBVIOUS
<1>2. r # Nil /\ r.step = "getTicket" /\ r \in CTIRequest /\ Holds(r, node, filed) /\ Knows(r, seen[w])
      /\ filed' = filed /\ scope' = scope /\ group' = group /\ fallback' = fallback /\ seen \in [Workers -> Seen]
  BY <1>1, RequestNow DEF AssignReads, ctiTables, Watch
<1>3. q = [r EXCEPT !.held = filed[r.ticket], !.step = "putTicket"]
  BY <1>1 DEF AssignReads, CTIInv, Requests
<1>4. q.op = r.op /\ q.ticket = r.ticket /\ q.category = r.category /\ q.type = r.type /\ q.group = r.group
      /\ q.step = "putTicket" /\ q.held = filed[r.ticket]
  BY <1>2, <1>3 DEF CTIRequest
<1>5. r.op \in {"file", "update"} /\ filed[r.ticket] # Nil
  BY <1>2 DEF Holds
<1>6. PICK met : met = Seeing(w)
  OBVIOUS
<1>7. q # Nil /\ q.op = "file" =>
        /\ met.groups = seen[w].groups \cup Covering(q.category, q.type, scope') \cup ({fallback'} \ {Nil})
        /\ ~met.failed => ~seen[w].failed
  BY <1>1, <1>2, <1>4, <1>5, <1>6, SeenNow
<1>8. q # Nil => Met(q, met, filed', scope', fallback')
  BY <1>2, <1>4, <1>5, <1>7 DEF Met, Knows
<1>9. Routes(r, scope, group, fallback) => Routes(q, scope, group, fallback)
  BY <1>2, <1>4 DEF Routes, Wanted
<1>10. q # Nil /\ alone => Lone(q, met, filed', scope', canned', group', fallback')
  BY <1>2, <1>4, <1>5, <1>7, <1>9 DEF Lone, Early, Knows
<1> QED BY <1>1, <1>6, <1>8, <1>10 DEF Learns

LEMMA PickerKnows ==
  ASSUME CTIInv, CTIInv', Watch, NEW w \in Workers, GetClassified(w) \/ ListCanned(w)
  PROVE  Learns(w)
<1>1. PICK r, q : r = ctiReq[w] /\ q = ctiReq'[w]
  OBVIOUS
<1>2. r # Nil /\ r \in CTIRequest /\ Holds(r, node, filed) /\ Knows(r, seen[w])
      /\ filed' = filed /\ canned' = canned /\ seen \in [Workers -> Seen] /\ r.op = "pick"
  BY <1>1, RequestNow DEF GetClassified, ListCanned, ctiTables, Watch, Holds
<1>3. PICK met, f : met = Seeing(w) /\ f = filed[r.ticket]
  OBVIOUS
<1>4. <<f.category, f.type>> \in seen[w].classes
      /\ (r.step = "listCanned" => <<r.category, r.type>> \in seen[w].classes)
  BY <1>2, <1>3 DEF Knows, Met
<1>5. q # Nil /\ q.op = "pick" => met.classes = seen[w].classes
                \cup {<<filed'[q.ticket].category, filed'[q.ticket].type>>}
  BY <1>1, <1>2, <1>3, SeenNow
<1>6. CASE GetClassified(w)
  <2>1. q = [r EXCEPT !.step = "listCanned", !.category = f.category, !.type = f.type]
    BY <1>1, <1>3, <1>6 DEF GetClassified, CTIInv, Requests
  <2>2. q.op = "pick" /\ q.ticket = r.ticket /\ q.category = f.category /\ q.type = f.type /\ q.step = "listCanned"
    BY <1>2, <2>1 DEF CTIRequest
  <2>3. q # Nil => Met(q, met, filed', scope', fallback')
    BY <1>2, <1>3, <1>4, <1>5, <2>2 DEF Met
  <2>4. Lone(q, met, filed', scope', canned', group', fallback')
    BY <2>2 DEF Lone
  <2> QED BY <1>1, <1>3, <2>3, <2>4 DEF Learns
<1>7. CASE ListCanned(w)
  <2>1. PICK x : x = {k \in {canned[j] : j \in Canned} \ {Nil} : Available(k, r.category, r.type)}
    OBVIOUS
  <2>2. q = [r EXCEPT !.step = "picked", !.answer = x] /\ r.step = "listCanned"
    BY <1>1, <1>7, <2>1 DEF ListCanned, CTIInv, Requests
  <2>3. q.op = "pick" /\ q.ticket = r.ticket /\ q.category = r.category /\ q.type = r.type
        /\ q.step = "picked" /\ q.answer = x
    BY <1>2, <2>2 DEF CTIRequest
  <2>4. \A k \in x : Available(k, r.category, r.type)
    BY <2>1
  <2>5. \A k \in Canned : canned[k] # Nil /\ Available(canned[k], r.category, r.type) => canned[k] \in x
    BY <2>1
  <2>6. q # Nil => Met(q, met, filed', scope', fallback')
    BY <1>2, <1>3, <1>4, <1>5, <2>2, <2>3, <2>4 DEF Met
  <2>7. Lone(q, met, filed', scope', canned', group', fallback')
    BY <1>2, <2>3, <2>5 DEF Lone
  <2> QED BY <1>1, <1>3, <2>6, <2>7 DEF Learns
<1> QED BY <1>6, <1>7

\* A step is of one request; the others stay as they are, and there are none while requests
\* come one at a time.
LEMMA OneMoves ==
  ASSUME CTIInv, Watch, NEW w \in Workers, CTIArrive(w) \/ CTIStatement(w)
  PROVE  /\ \A v \in Workers \ {w} : ctiReq'[v] = ctiReq[v] /\ (alone => ctiReq[v] = Nil)
         /\ alone' = alone
         /\ CTIStatement(w) => ctiReq[w] # Nil
<1>1. ctiReq \in [Workers -> CTIRequest \cup {Nil}]
  BY DEF CTIInv, Requests
<1>2. CASE CTIArrive(w)
  <2>1. PICK q : CTIBegins(w, q)
    BY <1>2, Zenon DEF CTIArrive, HandleCreateTicket, HandleUpdateTicketCTI, HandleListTicketCannedResponses,
       HandleCreateNode, HandleUpdateNode, HandleDeleteNode, HandleGroupScope, HandleDeleteGroup,
       HandleUpdateSettings, HandleCannedResponse
  <2>2. ctiReq[w] = Nil /\ ctiReq' = [ctiReq EXCEPT ![w] = q] /\ (alone => \A v \in Workers : ctiReq[v] = Nil)
        /\ alone' = alone
    BY <2>1 DEF CTIBegins
  <2>3. ~CTIStatement(w)
    BY <2>2 DEF CTIStatement, ListCategories, ListTypes, ListItems, InsertFiled, RouteTicket, RouteToFallback, AssignReads,
       AssignWrites, UpdateCTI, GetParent, InsertNode, GetNode, PutNode, DeleteNode, AddGroupScope,
       RemoveGroupScope, DeleteGroup, SetFallback, CTIFails, PutCanned, DeleteCanned, GetClassified, ListCanned, CannedPicked
  <2> QED BY <1>1, <2>2, <2>3
<1>3. CASE CTIStatement(w)
  <2>1. ctiReq[w] # Nil /\ alone' = alone
    BY <1>3 DEF CTIStatement, ListCategories, ListTypes, ListItems, InsertFiled, RouteTicket, RouteToFallback, AssignReads,
       AssignWrites, UpdateCTI, GetParent, InsertNode, GetNode, PutNode, DeleteNode, AddGroupScope,
       RemoveGroupScope, DeleteGroup, SetFallback, CTIFails, PutCanned, DeleteCanned, GetClassified, ListCanned, CannedPicked
  <2>2. \A v \in Workers \ {w} : ctiReq'[v] = ctiReq[v]
    BY <1>1, <1>3 DEF CTIStatement, ListCategories, ListTypes, ListItems, InsertFiled, RouteTicket, RouteToFallback, AssignReads,
       AssignWrites, UpdateCTI, GetParent, InsertNode, GetNode, PutNode, DeleteNode, AddGroupScope,
       RemoveGroupScope, DeleteGroup, SetFallback, CTIFails, PutCanned, DeleteCanned, GetClassified, ListCanned, CannedPicked,
       CTIEnds, CTIGoes, AssignTo, Ended, GoesTo
  <2>3. alone => \A v \in Workers \ {w} : ctiReq[v] = Nil
    BY <2>1 DEF Watch
  <2> QED BY <2>1, <2>2, <2>3
<1> QED BY <1>2, <1>3

LEMMA StatementKnows ==
  ASSUME CTIInv, CTIInv', Watch, NEW w \in Workers, CTIStatement(w)
  PROVE  Learns(w)
<1>1. ctiReq[w] # Nil
  BY OneMoves
<1>2. CASE ListCategories(w) \/ ListTypes(w) \/ ListItems(w)
  BY <1>2, FormKnows
<1>3. CASE RouteTicket(w) \/ RouteToFallback(w) \/ CTIFails(w)
  BY <1>3, RoutedKnows, FailedKnows
<1>4. CASE AssignReads(w)
  BY <1>4, TicketKnows
<1>5. CASE GetClassified(w) \/ ListCanned(w)
  BY <1>5, PickerKnows
<1>6. CASE InsertFiled(w) \/ AssignWrites(w) \/ GetParent(w) \/ GetNode(w)
  <2>1. \/ CTIEnds(w) \/ CTIGoes(w, "route") \/ CTIGoes(w, "putCTI") \/ CTIGoes(w, "insertNode")
        \/ \E a : ctiReq' = [ctiReq EXCEPT ![w].step = "putNode", ![w].active = a]
    BY <1>6 DEF InsertFiled, AssignWrites, GetParent, GetNode
  <2> QED BY <1>1, <2>1, EndedKnows
<1>7. CASE UpdateCTI(w) \/ InsertNode(w) \/ PutNode(w) \/ DeleteNode(w) \/ AddGroupScope(w) \/ RemoveGroupScope(w)
           \/ DeleteGroup(w) \/ SetFallback(w) \/ PutCanned(w) \/ DeleteCanned(w) \/ CannedPicked(w)
  <2>1. CTIEnds(w)
    BY <1>7 DEF UpdateCTI, InsertNode, PutNode, DeleteNode, AddGroupScope, RemoveGroupScope, DeleteGroup,
       SetFallback, PutCanned, DeleteCanned, CannedPicked
  <2> QED BY <1>1, <2>1, EndedKnows
<1> QED BY <1>2, <1>3, <1>4, <1>5, <1>6, <1>7 DEF CTIStatement

LEMMA Watching ==
  ASSUME CTIInv, Watch, [CTINext]_ctiVars
  PROVE  Watch'
<1>1. CTIInv'
  BY CTISteady
<1>2. CASE UNCHANGED ctiVars
  BY <1>2 DEF ctiVars, Watch, Knows, Met, Lone, Routes, Wanted, Covering, Available
<1>3. CASE seen' = [v \in Workers |-> Seeing(v)]
  <2>1. seen' \in [Workers -> Seen] /\ \A v \in Workers : seen'[v] = Seeing(v)
    BY <1>1, <1>3, SeenNow DEF Watch
  <2>2. ASSUME NEW w \in Workers, CTIArrive(w) \/ CTIStatement(w) PROVE Watch'
    <3>1. /\ \A v \in Workers \ {w} : ctiReq'[v] = ctiReq[v] /\ (alone => ctiReq[v] = Nil)
          /\ alone' = alone
      BY <2>2, OneMoves
    <3>2. Learns(w)
      BY <1>1, <2>2, ArrivedKnows, StatementKnows
    <3>3. ASSUME NEW v \in Workers \ {w}, ctiReq'[v] # Nil
          PROVE  Met(ctiReq'[v], Seeing(v), filed', scope', fallback') /\ ~alone
      BY <1>1, <2>2, <3>1, <3>3, CTIKept, OthersKnow
    <3>4. ASSUME NEW v \in Workers, ctiReq'[v] # Nil
          PROVE  /\ Met(ctiReq'[v], seen'[v], filed', scope', fallback')
                 /\ alone' => Lone(ctiReq'[v], seen'[v], filed', scope', canned', group', fallback')
      BY <2>1, <3>1, <3>2, <3>3, <3>4 DEF Learns
    <3>5. ASSUME NEW v \in Workers, ctiReq'[v] # Nil PROVE Knows(ctiReq[v], seen[v])'
      BY <3>1, <3>4, <3>5 DEF Knows, Met, Lone, Routes, Wanted, Covering, Available
    <3>6. alone' => \A u, v \in Workers : u # v => ctiReq'[u] = Nil \/ ctiReq'[v] = Nil
      BY <3>1
    <3> QED BY <2>1, <3>5, <3>6 DEF Watch
  <2>3. CASE CTIExhausted
    <3>1. ctiReq' = ctiReq /\ (\A v \in Workers : ctiReq[v] = Nil)
      BY <2>3 DEF CTIExhausted
    <3> QED BY <2>1, <3>1 DEF Watch
  <2>4. CTINext => (\E w \in Workers : CTIArrive(w) \/ CTIStatement(w)) \/ CTIExhausted
    BY DEF CTINext
  <2>5. CASE UNCHANGED ctiVars
    BY <1>2, <2>5
  <2> QED BY <2>2, <2>3, <2>4, <2>5
<1> QED BY <1>2, <1>3 DEF CTINext

LEMMA WatchInvariant == CTISpec => [](CTIInv /\ Watch)
<1>1. CTIInit => CTIInv /\ Watch
  <2>1. ASSUME CTIInit PROVE Watch
    BY <2>1 DEF CTIInit, Watch, Seen, Nothing
  <2> QED BY <2>1, CTIStarts
<1>2. CTIInv /\ Watch /\ [CTINext]_ctiVars => (CTIInv /\ Watch)'
  BY CTISteady, Watching
<1> QED BY <1>1, <1>2, PTL DEF CTISpec

\* The tables, the requests and the observer have their types; a canned response for a
\* type has a category.
THEOREM CTITypes == CTISpec => []CTITypeOK
<1>1. CTIInv /\ Watch => CTITypeOK
  <2> SUFFICES ASSUME CTIInv, Watch PROVE CTITypeOK
    OBVIOUS
  <2>1. Tables /\ CannedIn(canned, node) /\ NodesIn(node)
    BY TreeParts
  <2>2. ASSUME NEW k \in Canned, canned[k] # Nil, canned[k].category = Nil PROVE canned[k].type = Nil
    <3>1. PICK row : row = canned[k]
      OBVIOUS
    <3>2. row \in CannedRow /\ TypeIn(node, row.type, Nil)
      BY <2>1, <2>2, <3>1 DEF Tables, CannedIn
    <3>3. row.type # Nil => Level[row.type] = "type" /\ row.type \in Nodes
      BY <3>2 DEF CannedRow, Of
    <3>4. row.type # Nil => node[row.type].parent \in Nodes
      BY <2>1, <3>2, <3>3 DEF NodesIn, TypeIn, Of
    <3> QED BY <3>1, <3>2, <3>4, NilOutside DEF TypeIn
  <2> QED BY <2>1, <2>2 DEF CTITypeOK, CTIInv, Settled, Requests, Tables, Watch
<1> QED BY <1>1, WatchInvariant, PTL

\* The picker offers responses for a classification that the ticket had while it was asked,
\* and, while requests come one at a time, every one that is for its classification.
\* (handleListTicketCannedResponses, Available)
THEOREM OfferedResponsesFit == CTISpec => []OfferedFits
<1>1. CTIInv /\ Watch => OfferedFits
  <2> SUFFICES ASSUME CTIInv, Watch, NEW w \in Workers, NEW r, r = ctiReq[w], r # Nil, r.step = "picked"
               PROVE  /\ \A k \in r.answer : \E x \in seen[w].classes :
                           k.category = Nil \/ (k.category = x[1] /\ (k.type = Nil \/ k.type = x[2]))
                      /\ alone => \A k \in Canned :
                           canned[k] # Nil /\ (\/ canned[k].category = Nil
                                               \/ canned[k].category = r.category
                                                  /\ (canned[k].type = Nil \/ canned[k].type = r.type))
                           => canned[k] \in r.answer
    BY DEF OfferedFits
  <2>1. r.op = "pick" /\ Knows(r, seen[w])
    BY RequestNow DEF Holds, Watch
  <2>2. <<r.category, r.type>> \in seen[w].classes /\ \A k \in r.answer : Available(k, r.category, r.type)
    BY <2>1 DEF Knows, Met
  <2>3. alone => \A k \in Canned : canned[k] # Nil /\ Available(canned[k], r.category, r.type) => canned[k] \in r.answer
    BY <2>1 DEF Knows, Lone
  <2>4. ASSUME NEW k \in r.answer
        PROVE  \E x \in seen[w].classes :
                 k.category = Nil \/ (k.category = x[1] /\ (k.type = Nil \/ k.type = x[2]))
    <3>1. PICK x \in seen[w].classes : x = <<r.category, r.type>>
      BY <2>2
    <3>2. x[1] = r.category /\ x[2] = r.type /\ Available(k, r.category, r.type)
      BY <2>2, <3>1
    <3> QED BY <3>2 DEF Available
  <2> QED BY <2>3, <2>4 DEF Available
<1> QED BY <1>1, WatchInvariant, PTL

\* The step with which a new ticket's request ends: it assigns, or changes no ticket.
LEMMA FilingEnds ==
  ASSUME CTIInv, CTIInv', Watch, NEW w \in Workers, NEW r, r = ctiReq[w], r # Nil, r.op = "file",
         CTIStatement(w), ctiReq'[w] = Nil
  PROVE  \/ AssignWrites(w)
         \/ filed' = filed /\ (r.step \in Early \/ CTIFails(w))
         \/ filed' = filed /\ r.step = "fallback" /\ fallback = Nil
<1>1. r \in CTIRequest /\ Holds(r, node, filed)
  BY RequestNow
<1>2. r.step \in {"categories", "types", "items", "insertTicket", "route", "fallback", "getTicket", "putTicket"}
  BY <1>1 DEF Holds
<1>3. CASE ListCategories(w) \/ ListTypes(w) \/ ListItems(w)
  BY <1>3 DEF ListCategories, ListTypes, ListItems, ctiTables, Early
<1>4. CASE InsertFiled(w)
  <2>1. CASE CTIGoes(w, "route")
    <3>1. ctiReq'[w] = [r EXCEPT !.step = "route"]
      BY <2>1 DEF CTIGoes, GoesTo, CTIInv, Requests
    <3>2. [r EXCEPT !.step = "route"] \in CTIRequest
      BY <1>1, CarriedOn DEF CTISteps
    <3> QED BY <3>1, <3>2, NilOutside
  <2>2. CASE filed' = filed
    BY <1>4, <2>2 DEF InsertFiled, Early
  <2> QED BY <1>4, <2>1, <2>2 DEF InsertFiled
<1>5. CASE RouteTicket(w) \/ RouteToFallback(w)
  <2>1. ASSUME NEW g \in Groups \cup {Nil}, AssignTo(w, g) PROVE FALSE
    <3>1. ctiReq'[w] = [r EXCEPT !.group = g, !.step = "getTicket"]
      BY <2>1 DEF AssignTo, CTIInv, Requests
    <3>2. [r EXCEPT !.group = g, !.step = "getTicket"] \in CTIRequest
      BY <1>1, CarriedOn DEF CTISteps
    <3> QED BY <3>1, <3>2, NilOutside
  <2>2. ~CTIGoes(w, "fallback")
    <3>1. ASSUME CTIGoes(w, "fallback") PROVE FALSE
      <4>1. ctiReq'[w] = [r EXCEPT !.step = "fallback"]
        BY <3>1 DEF CTIGoes, GoesTo, CTIInv, Requests
      <4>2. [r EXCEPT !.step = "fallback"] \in CTIRequest
        BY <1>1, CarriedOn DEF CTISteps
      <4> QED BY <4>1, <4>2, NilOutside
    <3> QED BY <3>1
  <2>3. \A g \in InScope(r.category, r.type) \cup {fallback} : g \in Groups \cup {Nil}
    BY DEF InScope, CTIInv, Settled
  <2>4. ~RouteTicket(w)
    BY <2>1, <2>2, <2>3 DEF RouteTicket
  <2> QED BY <1>5, <2>1, <2>3, <2>4 DEF RouteToFallback, ctiTables
<1>6. CASE AssignReads(w)
  <2>1. PICK f : f = filed[r.ticket]
    OBVIOUS
  <2>2. f \in Filed
    BY <1>1, <1>6, <2>1 DEF AssignReads, Holds, CTIInv, TreeInv, Tables
  <2>3. ctiReq'[w] = [r EXCEPT !.held = f, !.step = "putTicket"]
    BY <1>6, <2>1 DEF AssignReads, CTIInv, Requests
  <2>4. [r EXCEPT !.held = f, !.step = "putTicket"] \in CTIRequest
    BY <1>1, <2>2, CarriedOn DEF CTISteps
  <2> QED BY <2>3, <2>4, NilOutside
<1>7. CASE CTIFails(w)
  BY <1>7 DEF CTIFails, ctiTables
<1> QED BY <1>2, <1>3, <1>4, <1>5, <1>6, <1>7 DEF CTIStatement, UpdateCTI, GetParent, InsertNode, GetNode, PutNode,
        DeleteNode, AddGroupScope, RemoveGroupScope, DeleteGroup, SetFallback, PutCanned, DeleteCanned,
        GetClassified, ListCanned, CannedPicked

\* A new ticket goes to a group that covered it or was the fallback since it was filed, or to
\* none; while requests come one at a time and no statement fails, to a group that covers it
\* if there is one, else to the fallback if that is there.  (handleCreateTicket)
THEOREM TicketsRoutedInScope == CTISpec => RoutedInScope
<1> DEFINE Routed ==
      \A w \in Workers :
        LET r == ctiReq[w]
            g == filed'[r.ticket].group
            fits == Covering(r.category, r.type, scope)
            wanted == IF fits # {} THEN fits ELSE {fallback} \cap group
        IN
        r # Nil /\ r.op = "file" /\ filed[r.ticket] # Nil /\ ctiReq'[w] = Nil =>
          /\ g # filed[r.ticket].group => g \in seen[w].groups \cup {Nil}
          /\ alone /\ ~seen[w].failed /\ ctiFaults' = ctiFaults /\ wanted # {} => g \in wanted
<1>1. ASSUME CTIInv, Watch, CTIInv', CTINext PROVE Routed
  <2> SUFFICES ASSUME NEW w \in Workers, NEW r, r = ctiReq[w], NEW wanted, wanted = Wanted(r, scope, group, fallback),
                      r # Nil, r.op = "file", filed[r.ticket] # Nil, ctiReq'[w] = Nil
               PROVE  /\ filed'[r.ticket].group # filed[r.ticket].group =>
                           filed'[r.ticket].group \in seen[w].groups \cup {Nil}
                      /\ alone /\ ~seen[w].failed /\ ctiFaults' = ctiFaults /\ wanted # {} =>
                           filed'[r.ticket].group \in wanted
    BY DEF Wanted
  <2>1. CTIStatement(w)
    <3>1. PICK v \in Workers : CTIArrive(v) \/ CTIStatement(v)
      BY <1>1 DEF CTINext, CTIExhausted
    <3>2. v = w
      BY <1>1, <3>1, OneMoves
    <3>3. ~CTIArrive(w)
      BY Zenon DEF CTIArrive, HandleCreateTicket, HandleUpdateTicketCTI, HandleListTicketCannedResponses,
         HandleCreateNode, HandleUpdateNode, HandleDeleteNode, HandleGroupScope, HandleDeleteGroup,
         HandleUpdateSettings, HandleCannedResponse, CTIBegins
    <3> QED BY <3>1, <3>2, <3>3
  <2>2. Knows(r, seen[w]) /\ r \in CTIRequest /\ Holds(r, node, filed)
    BY <1>1, RequestNow DEF Watch
  <2>3. CASE filed' = filed /\ r.step \in Early
    BY <2>2, <2>3 DEF Knows, Lone
  <2>4. CASE filed' = filed /\ r.step = "fallback" /\ fallback = Nil
    <3>1. Nil \notin group
      BY <1>1, TreeParts, NilOutside DEF Tables
    <3>2. alone /\ ~seen[w].failed => wanted = {}
      BY <2>2, <2>4, <3>1 DEF Knows, Lone, Routes, Wanted
    <3> QED BY <2>4, <3>2
  <2>6. CASE filed' = filed /\ CTIFails(w)
    <3>1. ctiFaults' # ctiFaults
      BY <1>1, <2>6, CTIAssumption DEF CTIFails, CTIInv, Settled
    <3> QED BY <2>6, <3>1
  <2>5. CASE AssignWrites(w)
    <3>1. PICK row, new : row = filed[r.ticket] /\ new = Rewritten(row, r.held, r.group)
      OBVIOUS
    <3> DEFINE ok == Classifiable(new.category, new.type, new.item) /\ (r.group # Nil => r.group \in group)
    <3>2. r.step = "putTicket" /\ r.ticket \in Tickets /\ row \in Filed /\ r.held \in Filed
          /\ RowIn(row, node, group)
          /\ r.group \in Groups \cup {Nil}
      BY <1>1, <2>2, <2>5, <3>1, TreeParts DEF AssignWrites, Holds, CTIRequest, Tables, RowsIn
    <3>3. filed' = IF ok THEN [filed EXCEPT ![r.ticket] = new] ELSE filed
      BY <2>5, <3>1 DEF AssignWrites
    <3>4. new.group = r.group /\ new.category = row.category /\ new.type = r.held.type /\ new.item = r.held.item
      BY <3>1, <3>2 DEF Rewritten, Filed
    <3>5. filed'[r.ticket] = IF ok THEN new ELSE row
      BY <1>1, <3>1, <3>2, <3>3, TreeParts DEF Tables
    <3>6. filed'[r.ticket].group # row.group => filed'[r.ticket].group \in seen[w].groups \cup {Nil}
      BY <2>2, <3>2, <3>4, <3>5 DEF Knows, Met
    <3>7. ASSUME alone, ~seen[w].failed, wanted # {} PROVE filed'[r.ticket].group \in wanted
      <4>1. r.group \in wanted /\ r.held = row
        BY <2>2, <3>1, <3>2, <3>7 DEF Knows, Lone, Routes
      <4>2. r.group \in group
        BY <1>1, <4>1, TreeParts DEF Wanted, Covering, ScopesIn
      <4>3. Classifiable(row.category, row.type, row.item)
        BY <3>2 DEF RowIn, Classifiable, There, NullOrThere, TypeIn, TypeOfCategory
      <4> QED BY <3>4, <3>5, <4>1, <4>2, <4>3
    <3> QED BY <3>1, <3>6, <3>7
  <2> QED BY <1>1, <2>1, <2>3, <2>4, <2>5, <2>6, FilingEnds
<1>2. ASSUME CTIInv, Watch, CTIInv', [CTINext]_ctiVars PROVE [Routed]_ctiVars
  BY <1>1, <1>2
<1>3. CTIInv /\ [CTINext]_ctiVars => CTIInv'
  BY CTISteady
<1> QED BY <1>2, <1>3, WatchInvariant, PTL DEF CTISpec, RoutedInScope

=============================================================================
