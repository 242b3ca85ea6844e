------------------------- MODULE DeskTickets_proofs --------------------------
(***************************************************************************)
(* Service levels, and the lists and counts people see, for any number of  *)
(* tickets, policies, people, groups, requests and changes.                *)
(*                                                                         *)
(* Of service levels, the first invariant says what a request holds at     *)
(* each statement and what the tables keep for it; the second what is      *)
(* true, besides, of a behaviour whose requests do not overlap.  Of lists, *)
(* the first relates an answer to what was in scope at some moment; the    *)
(* second says by which statement a ticket that stays is still to be met.  *)
(***************************************************************************)
EXTENDS SLAClock, TicketLists, FiniteSetTheorems, WellFoundedInduction, TLAPS

-----------------------------------------------------------------------------
(* Service levels.                                                         *)

\* What a request carries when it reaches a statement.
SLACarries(r) ==
  /\ r.step \in {"insertTicket", "find", "insertRecord", "getRecord", "readPolicy", "putRecord"} =>
       r.ticket \in SLATickets
  /\ r.step \in {"insertTicket", "find"} => r.draft \in Policy /\ r.draft.category \in Categories
  /\ r.step \in {"insertPolicy", "putPolicy"} => r.draft \in Policy
  /\ r.step \in {"insertRecord", "insertPolicy", "getPolicy", "putPolicy", "deletePolicy"} =>
       r.policy \in Policies
  /\ r.step = "getPolicy" => r.patch \in Patches
  /\ r.step \in {"readPolicy", "putRecord"} => r.record \in Record

\* The rows it relies on are there.
SLARelies(r) ==
  /\ r.step \in {"find", "insertRecord", "getRecord", "readPolicy", "putRecord"} => opened[r.ticket] # Nil
  /\ r.step \in {"readPolicy", "putRecord"} => record[r.ticket] # Nil

SLAWorkerOK(w) == slaReq[w] # Nil => SLACarries(slaReq[w]) /\ SLARelies(slaReq[w])

SLAInv == SLATypeOK /\ RecordRefs /\ \A w \in Workers : SLAWorkerOK(w)

\* Tickets and records stay, policies under which there are records too.
RowsStay ==
  \A t \in SLATickets :
    /\ opened[t] # Nil => opened'[t] # Nil
    /\ record[t] # Nil => record'[t] # Nil /\ record'[t].policy = record[t].policy

SLATables ==
  /\ category \subseteq Categories
  /\ policy \in [Policies -> Policy \cup {Nil}]
  /\ record \in [SLATickets -> Record \cup {Nil}]
  /\ opened \in [SLATickets -> Opened \cup {Nil}]
  /\ minute \in Times
  /\ replied \in [SLATickets -> SUBSET Times]
  /\ unrecorded \in [SLATickets -> SUBSET Times]
  /\ slaFaults \in 0..MaxSLAFaults
  /\ overlap \in BOOLEAN
  /\ slaCount \in 0..MaxSLARequests
  /\ RecordRefs

SLARequests ==
  /\ slaReq \in [Workers -> SLARequest \cup {Nil}]
  /\ \A w \in Workers : SLAWorkerOK(w)

LEMMA SLAInvParts == SLAInv <=> SLATables /\ SLARequests
  BY DEF SLAInv, SLATypeOK, SLATables, SLARequests

LEMMA SLARequestNow ==
  ASSUME SLAInv, NEW w \in Workers, slaReq[w] # Nil
  PROVE  slaReq[w] \in SLARequest /\ SLACarries(slaReq[w]) /\ SLARelies(slaReq[w])
  BY DEF SLAInv, SLATypeOK, SLAWorkerOK

\* One request moves to q, or ends; the others are as they were.
LEMMA SLARequestMoves ==
  ASSUME SLAInv, NEW w \in Workers, NEW q \in SLARequest \cup {Nil},
         slaReq' = [slaReq EXCEPT ![w] = q], RowsStay,
         q # Nil => SLACarries(q),
         q # Nil =>
           /\ q.step \in {"find", "insertRecord", "getRecord", "readPolicy", "putRecord"} =>
                opened'[q.ticket] # Nil
           /\ q.step \in {"readPolicy", "putRecord"} => record'[q.ticket] # Nil
  PROVE  SLARequests'
<1>1. /\ slaReq' \in [Workers -> SLARequest \cup {Nil}] /\ slaReq'[w] = q
      /\ \A v \in Workers \ {w} : slaReq'[v] = slaReq[v]
  BY DEF SLAInv, SLATypeOK
<1>2. SLAWorkerOK(w)'
  BY <1>1 DEF SLAWorkerOK, SLARelies, SLACarries
<1>3. ASSUME NEW v \in Workers \ {w} PROVE SLAWorkerOK(v)'
  <2> DEFINE r == slaReq[v]
  <2>1. SLAWorkerOK(v) /\ slaReq'[v] = r
    BY <1>1 DEF SLAInv
  <2>2. CASE r # Nil
    <3>1. SLACarries(r) /\ SLARelies(r)
      BY <2>1, <2>2 DEF SLAWorkerOK
    <3>2. /\ r.step \in {"find", "insertRecord", "getRecord", "readPolicy", "putRecord"} =>
               opened'[r.ticket] # Nil
          /\ r.step \in {"readPolicy", "putRecord"} => record'[r.ticket] # Nil
      BY <3>1 DEF SLACarries, SLARelies, RowsStay
    <3> QED BY <2>1, <3>1, <3>2 DEF SLAWorkerOK, SLARelies, SLACarries
  <2> QED BY <2>1, <2>2 DEF SLAWorkerOK
<1> QED BY <1>1, <1>2, <1>3 DEF SLARequests

LEMMA SLAEndKeeps ==
  ASSUME SLAInv, NEW w \in Workers, slaReq' = Ended(slaReq, w), RowsStay
  PROVE  SLARequests'
<1>1. PICK q \in SLARequest \cup {Nil} : q = Nil
  OBVIOUS
<1> QED BY <1>1, SLARequestMoves DEF Ended

\* Nothing but the request changes.
LEMMA SLATablesStay ==
  ASSUME SLAInv, UNCHANGED <<tables, minute, replied, unrecorded, slaFaults, overlap, slaCount>>
  PROVE  SLATables' /\ RowsStay
  BY DEF tables, SLAInv, SLATypeOK, SLATables, RecordRefs, RowsStay

-----------------------------------------------------------------------------
(* Requests arrive.                                                        *)

LEMMA AskedTypes ==
  ASSUME SLAInv, NEW op \in SLAOps, NEW step \in SLASteps
  PROVE  /\ Asked(op, step) \in SLARequest
         /\ Asked(op, step).op = op /\ Asked(op, step).step = step /\ Asked(op, step).at = minute
  BY DEF Asked, SLARequest, SLAInv, SLATypeOK

LEMMA SLABeginKeeps ==
  ASSUME SLAInv, NEW w \in Workers, NEW q \in SLARequest, Begin(w, q),
         UNCHANGED <<tables, minute, unrecorded, slaFaults, overlap>>, replied' \in [SLATickets -> SUBSET Times],
         SLACarries(q), q.step \in {"insertTicket", "getRecord", "insertPolicy", "getPolicy", "deletePolicy"},
         q.step = "getRecord" => opened[q.ticket] # Nil
  PROVE  SLAInv'
<1>1. SLATables' /\ RowsStay
  BY SLAAssumption DEF Begin, tables, SLAInv, SLATypeOK, SLATables, RecordRefs, RowsStay
<1>2. SLARequests'
  BY <1>1, SLARequestMoves DEF Begin, tables
<1> QED BY <1>1, <1>2 DEF SLAInv, SLATypeOK, SLATables, SLARequests

LEMMA SLAArrivalsKeep ==
  ASSUME SLAInv, NEW w \in Workers, SLAArrive(w)
  PROVE  SLAInv'
<1>a. /\ "open" \in SLAOps /\ "reply" \in SLAOps /\ "evaluate" \in SLAOps /\ "create" \in SLAOps
      /\ "patch" \in SLAOps /\ "delete" \in SLAOps
      /\ "insertTicket" \in SLASteps /\ "getRecord" \in SLASteps /\ "insertPolicy" \in SLASteps
      /\ "getPolicy" \in SLASteps /\ "deletePolicy" \in SLASteps
  BY DEF SLAOps, SLASteps
<1>b. replied \in [SLATickets -> SUBSET Times] /\ minute \in Times
  BY DEF SLAInv, SLATypeOK
<1>c. /\ Asked("open", "insertTicket") \in SLARequest /\ Asked("open", "insertTicket").step = "insertTicket"
      /\ Asked("create", "insertPolicy") \in SLARequest /\ Asked("create", "insertPolicy").step = "insertPolicy"
      /\ Asked("patch", "getPolicy") \in SLARequest /\ Asked("patch", "getPolicy").step = "getPolicy"
  BY <1>a, AskedTypes
<1>1. CASE OpenTicket(w)
  <2>1. PICK t \in SLATickets, x \in Priorities, c \in Categories :
          /\ Begin(w, [Asked("open", "insertTicket") EXCEPT !.ticket = t,
                         !.draft = [priority |-> x, category |-> c, response |-> 0, resolution |-> 0]])
          /\ UNCHANGED <<tables, minute, replied, unrecorded, slaFaults, overlap>>
    BY <1>1 DEF OpenTicket
  <2> DEFINE d == [priority |-> x, category |-> c, response |-> 0, resolution |-> 0]
             q == [Asked("open", "insertTicket") EXCEPT !.ticket = t, !.draft = d]
  <2>2. d \in Policy /\ d.category \in Categories
    BY DEF Policy
  <2>3. Begin(w, q)
    BY <2>1
  <2> HIDE DEF d
  <2>4. q \in SLARequest /\ q.step = "insertTicket" /\ q.ticket = t /\ q.draft = d
    BY <1>c, <2>2 DEF SLARequest
  <2> HIDE DEF q
  <2>5. SLACarries(q)
    BY <2>2, <2>4 DEF SLACarries
  <2> QED BY <1>b, <2>1, <2>3, <2>4, <2>5, SLABeginKeeps
<1>2. CASE StaffReply(w) \/ EvaluateBreaches(w)
  <2>1. PICK t \in SLATickets, op \in {"reply", "evaluate"} :
          /\ opened[t] # Nil /\ Begin(w, [Asked(op, "getRecord") EXCEPT !.ticket = t])
          /\ replied' \in {replied, [replied EXCEPT ![t] = @ \cup {minute}]}
          /\ UNCHANGED <<tables, minute, unrecorded, slaFaults, overlap>>
    BY <1>2 DEF StaffReply, EvaluateBreaches
  <2> DEFINE q == [Asked(op, "getRecord") EXCEPT !.ticket = t]
  <2>2. Begin(w, q) /\ replied' \in [SLATickets -> SUBSET Times]
    BY <1>b, <2>1
  <2>3. q \in SLARequest /\ q.step = "getRecord" /\ q.ticket = t
    BY <1>a, AskedTypes DEF SLARequest
  <2> HIDE DEF q
  <2>4. SLACarries(q)
    BY <2>3 DEF SLACarries
  <2> QED BY <2>1, <2>2, <2>3, <2>4, SLABeginKeeps
<1>3. CASE HandleCreateSLAPolicy(w)
  <2>1. PICK d \in Drafts, p \in Policies :
          /\ Begin(w, [Asked("create", "insertPolicy") EXCEPT !.policy = p, !.draft = d])
          /\ UNCHANGED <<tables, minute, replied, unrecorded, slaFaults, overlap>>
    BY <1>3 DEF HandleCreateSLAPolicy
  <2> DEFINE q == [Asked("create", "insertPolicy") EXCEPT !.policy = p, !.draft = d]
  <2>2. d \in Policy
    BY SentAssumption, SLAAssumption DEF Policy
  <2>3. Begin(w, q)
    BY <2>1
  <2>4. q \in SLARequest /\ q.step = "insertPolicy" /\ q.policy = p /\ q.draft = d
    BY <1>c, <2>2 DEF SLARequest
  <2> HIDE DEF q
  <2>5. SLACarries(q)
    BY <2>2, <2>4 DEF SLACarries
  <2> QED BY <1>b, <2>1, <2>3, <2>4, <2>5, SLABeginKeeps
<1>4. CASE HandleUpdateSLAPolicy(w)
  <2>1. PICK p \in Policies, d \in Patches :
          /\ Begin(w, [Asked("patch", "getPolicy") EXCEPT !.policy = p, !.patch = d])
          /\ UNCHANGED <<tables, minute, replied, unrecorded, slaFaults, overlap>>
    BY <1>4 DEF HandleUpdateSLAPolicy
  <2> DEFINE q == [Asked("patch", "getPolicy") EXCEPT !.policy = p, !.patch = d]
  <2>2. Begin(w, q)
    BY <2>1
  <2>3. q \in SLARequest /\ q.step = "getPolicy" /\ q.policy = p /\ q.patch = d
    BY <1>c DEF SLARequest
  <2> HIDE DEF q
  <2>4. SLACarries(q)
    BY <2>3 DEF SLACarries
  <2> QED BY <1>b, <2>1, <2>2, <2>3, <2>4, SLABeginKeeps
<1>5. CASE HandleDeleteSLAPolicy(w)
  <2>1. PICK p \in Policies :
          /\ Begin(w, [Asked("delete", "deletePolicy") EXCEPT !.policy = p])
          /\ UNCHANGED <<tables, minute, replied, unrecorded, slaFaults, overlap>>
    BY <1>5 DEF HandleDeleteSLAPolicy
  <2> DEFINE q == [Asked("delete", "deletePolicy") EXCEPT !.policy = p]
  <2>2. Begin(w, q)
    BY <2>1
  <2>3. q \in SLARequest /\ q.step = "deletePolicy" /\ q.policy = p
    BY <1>a, AskedTypes DEF SLARequest
  <2> HIDE DEF q
  <2>4. SLACarries(q)
    BY <2>3 DEF SLACarries
  <2> QED BY <1>b, <2>1, <2>2, <2>3, <2>4, SLABeginKeeps
<1> QED BY <1>1, <1>2, <1>3, <1>4, <1>5 DEF SLAArrive

-----------------------------------------------------------------------------
(* Statements.                                                             *)

LEMMA InsertTicketKeeps ==
  ASSUME SLAInv, NEW w \in Workers, InsertTicket(w)
  PROVE  SLAInv'
<1> DEFINE r == slaReq[w]
           row == [priority |-> r.draft.priority, category |-> r.draft.category, at |-> r.at]
           q == [r EXCEPT !.step = "find"]
<1>1. /\ r # Nil /\ r.step = "insertTicket" /\ r \in SLARequest
      /\ r.ticket \in SLATickets /\ r.draft \in Policy /\ r.draft.category \in Categories
      /\ UNCHANGED <<category, policy, record, minute, replied, unrecorded, slaFaults, overlap, slaCount>>
  BY SLARequestNow DEF InsertTicket, SLACarries
<1>2. CASE Insertable(r.draft)
  <2>1. opened' = [opened EXCEPT ![r.ticket] = row] /\ slaReq' = [slaReq EXCEPT ![w] = q]
    BY <1>2 DEF InsertTicket, GoesTo
  <2>2. row \in Opened
    BY <1>1, <1>2 DEF Opened, Insertable, SLARequest
  <2>3. "find" \in SLASteps
    BY DEF SLASteps
  <2>4. /\ q \in SLARequest /\ q.step = "find" /\ q.ticket = r.ticket /\ q.draft = r.draft
    BY <1>1, <2>3 DEF SLARequest
  <2> HIDE DEF row, q
  <2>5. /\ opened' \in [SLATickets -> Opened \cup {Nil}] /\ opened'[r.ticket] # Nil
        /\ \A t \in SLATickets : opened[t] # Nil => opened'[t] # Nil
    BY <1>1, <2>1, <2>2, SLANilAssumption DEF SLAInv, SLATypeOK
  <2>6. RowsStay /\ SLATables'
    BY <1>1, <2>5 DEF RowsStay, SLAInv, SLATypeOK, SLATables, RecordRefs
  <2>7. SLACarries(q)
    BY <1>1, <2>4 DEF SLACarries
  <2>8. SLARequests'
    BY <2>1, <2>4, <2>5, <2>6, <2>7, SLARequestMoves
  <2> QED BY <2>6, <2>8 DEF SLAInv, SLATypeOK, SLATables, SLARequests
<1>3. CASE ~Insertable(r.draft)
  <2>1. slaReq' = Ended(slaReq, w) /\ opened' = opened
    BY <1>3 DEF InsertTicket
  <2>2. SLATables' /\ RowsStay
    BY <1>1, <2>1, SLATablesStay DEF tables
  <2> QED BY <2>1, <2>2, SLAEndKeeps DEF SLAInv, SLATypeOK, SLATables, SLARequests
<1> QED BY <1>2, <1>3

LEMMA FindPolicyKeeps ==
  ASSUME SLAInv, NEW w \in Workers, FindPolicy(w)
  PROVE  SLAInv'
<1> DEFINE r == slaReq[w]
<1>1. /\ r # Nil /\ r.step = "find" /\ r \in SLARequest /\ r.ticket \in SLATickets /\ opened[r.ticket] # Nil
      /\ UNCHANGED <<tables, minute, replied, unrecorded, slaFaults, overlap, slaCount>>
  BY SLARequestNow DEF FindPolicy, SLACarries, SLARelies
<1>2. SLATables' /\ RowsStay
  BY <1>1, SLATablesStay
<1>3. ASSUME NEW p \in Policies, slaReq' = [slaReq EXCEPT ![w].policy = p, ![w].step = "insertRecord"]
      PROVE  SLARequests'
  <2> DEFINE q == [r EXCEPT !.policy = p, !.step = "insertRecord"]
  <2>1. slaReq' = [slaReq EXCEPT ![w] = q]
    BY <1>3
  <2>2. "insertRecord" \in SLASteps
    BY DEF SLASteps
  <2>3. q \in SLARequest /\ q.step = "insertRecord" /\ q.ticket = r.ticket /\ q.policy = p
    BY <1>1, <2>2 DEF SLARequest
  <2> HIDE DEF q
  <2>4. SLACarries(q)
    BY <1>1, <2>3 DEF SLACarries
  <2>5. opened'[q.ticket] # Nil
    BY <1>1, <1>2, <2>3 DEF RowsStay
  <2> QED BY <1>2, <2>1, <2>3, <2>4, <2>5, SLARequestMoves
<1>4. SLARequests'
  BY <1>2, <1>3, SLAEndKeeps DEF FindPolicy, Found
<1> QED BY <1>2, <1>4 DEF SLAInv, SLATypeOK, SLATables, SLARequests

LEMMA CreateRecordKeeps ==
  ASSUME SLAInv, NEW w \in Workers, CreateRecord(w)
  PROVE  SLAInv'
<1> DEFINE r == slaReq[w]
           row == [policy |-> r.policy, first |-> Nil, response |-> Nil, resolution |-> Nil]
<1>1. /\ r # Nil /\ r.step = "insertRecord" /\ r.ticket \in SLATickets /\ r.policy \in Policies
      /\ opened[r.ticket] # Nil /\ slaReq' = Ended(slaReq, w)
      /\ UNCHANGED <<category, policy, opened, minute, replied, unrecorded, slaFaults, overlap, slaCount>>
  BY SLARequestNow DEF CreateRecord, SLACarries, SLARelies
<1>2. row \in Record /\ row.policy = r.policy
  BY <1>1 DEF Record
<1>3. record' = IF PolicyIsThere(r.policy) /\ record[r.ticket] = Nil
                THEN [record EXCEPT ![r.ticket] = row] ELSE record
  BY DEF CreateRecord
<1> HIDE DEF row
<1>4. /\ record' \in [SLATickets -> Record \cup {Nil}]
      /\ \A t \in SLATickets : record[t] # Nil => record'[t] = record[t]
      /\ \A t \in SLATickets : record'[t] # record[t] =>
           t = r.ticket /\ record'[t].policy = r.policy /\ policy[r.policy] # Nil
  BY <1>1, <1>2, <1>3 DEF SLAInv, SLATypeOK, PolicyIsThere
<1>5. RowsStay
  BY <1>1, <1>4 DEF RowsStay
<1>6. RecordRefs'
  BY <1>1, <1>4 DEF RecordRefs, SLAInv
<1>7. SLATables'
  BY <1>1, <1>4, <1>6 DEF SLAInv, SLATypeOK, SLATables
<1> QED BY <1>1, <1>5, <1>7, SLAEndKeeps DEF SLAInv, SLATypeOK, SLATables, SLARequests

LEMMA GetRecordKeeps ==
  ASSUME SLAInv, NEW w \in Workers, GetRecord(w) \/ ReadPolicy(w)
  PROVE  SLAInv'
<1> DEFINE r == slaReq[w]
<1>1. /\ r # Nil /\ r.step \in {"getRecord", "readPolicy"} /\ r \in SLARequest
      /\ r.ticket \in SLATickets /\ opened[r.ticket] # Nil
      /\ UNCHANGED <<tables, minute, replied, unrecorded, slaFaults, overlap, slaCount>>
  BY SLARequestNow DEF GetRecord, ReadPolicy, SLACarries, SLARelies
<1>2. SLATables' /\ RowsStay
  BY <1>1, SLATablesStay
<1>3. SUFFICES SLARequests'
  BY <1>2 DEF SLAInv, SLATypeOK, SLATables, SLARequests
<1>4. ASSUME NEW k \in Record, NEW step \in {"readPolicy", "putRecord"}, record[r.ticket] # Nil,
             slaReq' = [slaReq EXCEPT ![w].record = k, ![w].step = step]
      PROVE  SLARequests'
  <2> DEFINE q == [r EXCEPT !.record = k, !.step = step]
  <2>1. slaReq' = [slaReq EXCEPT ![w] = q]
    BY <1>4
  <2>2. step \in SLASteps
    BY DEF SLASteps
  <2>3. q \in SLARequest /\ q.step = step /\ q.ticket = r.ticket /\ q.record = k
    BY <1>1, <2>2 DEF SLARequest
  <2> HIDE DEF q
  <2>4. SLACarries(q)
    BY <1>1, <2>3 DEF SLACarries
  <2>5. opened'[q.ticket] # Nil /\ record'[q.ticket] # Nil
    BY <1>1, <1>2, <1>4, <2>3 DEF RowsStay
  <2> QED BY <1>2, <2>1, <2>3, <2>4, <2>5, SLARequestMoves
<1>5. CASE slaReq' = Ended(slaReq, w)
  BY <1>2, <1>5, SLAEndKeeps
<1>6. CASE GetRecord(w)
  <2>1. CASE record[r.ticket] = Nil
    BY <1>5, <1>6, <2>1 DEF GetRecord
  <2>2. CASE record[r.ticket] # Nil
    <3> DEFINE k == record[r.ticket]
    <3>1. k \in Record
      BY <1>1, <2>2 DEF SLAInv, SLATypeOK
    <3>2. r.at \in Times
      BY <1>1 DEF SLARequest
    <3>3. Answered(k, r.at) \in Record
      <4> HIDE DEF k
      <4> QED BY <3>1, <3>2 DEF Answered, Record
    <3>4. \/ slaReq' = Ended(slaReq, w)
          \/ \E step \in {"readPolicy", "putRecord"}, l \in {k, Answered(k, r.at)} :
                 slaReq' = [slaReq EXCEPT ![w].record = l, ![w].step = step]
      BY <1>6, <2>2 DEF GetRecord
    <3> QED BY <1>4, <1>5, <2>2, <3>1, <3>3, <3>4
  <2> QED BY <2>1, <2>2
<1>7. CASE ReadPolicy(w)
  <2> DEFINE p == policy[r.record.policy]
             k == Evaluated(r.record, p, opened[r.ticket].at, r.at)
  <2>1. r.record \in Record /\ record[r.ticket] # Nil /\ r.at \in Times
    BY <1>1, <1>7, SLARequestNow DEF ReadPolicy, SLACarries, SLARelies, SLARequest
  <2>2. k \in Record
    <3> HIDE DEF p
    <3> QED BY <2>1 DEF Evaluated, Record
  <2>3. slaReq' = IF p = Nil \/ k = r.record THEN Ended(slaReq, w)
                  ELSE [slaReq EXCEPT ![w].record = k, ![w].step = "putRecord"]
    BY <1>7 DEF ReadPolicy
  <2> HIDE DEF k
  <2> QED BY <1>4, <1>5, <2>1, <2>2, <2>3
<1> QED BY <1>6, <1>7

LEMMA PutRecordKeeps ==
  ASSUME SLAInv, NEW w \in Workers, PutRecord(w)
  PROVE  SLAInv'
<1> DEFINE r == slaReq[w]
           row == [policy |-> record[r.ticket].policy, first |-> r.record.first,
                   response |-> r.record.response, resolution |-> r.record.resolution]
<1>1. /\ r # Nil /\ r.step = "putRecord" /\ r.ticket \in SLATickets /\ r.record \in Record
      /\ record[r.ticket] \in Record /\ slaReq' = Ended(slaReq, w)
      /\ UNCHANGED <<category, policy, opened, minute, replied, unrecorded, slaFaults, overlap, slaCount>>
  BY SLARequestNow DEF PutRecord, SLACarries, SLARelies, SLAInv, SLATypeOK
<1>2. row \in Record /\ row.policy = record[r.ticket].policy
  BY <1>1 DEF Record
<1>3. record' = [record EXCEPT ![r.ticket] = row]
  BY DEF PutRecord
<1> HIDE DEF row
<1>4. /\ record' \in [SLATickets -> Record \cup {Nil}]
      /\ \A t \in SLATickets : record'[t] # Nil => record[t] # Nil /\ record'[t].policy = record[t].policy
      /\ \A t \in SLATickets : record[t] # Nil => record'[t] # Nil
  BY <1>1, <1>2, <1>3, SLANilAssumption DEF SLAInv, SLATypeOK
<1>5. RowsStay
  BY <1>1, <1>4 DEF RowsStay
<1>6. RecordRefs'
  BY <1>1, <1>4 DEF RecordRefs, SLAInv
<1>7. SLATables'
  BY <1>1, <1>4, <1>6 DEF SLAInv, SLATypeOK, SLATables
<1> QED BY <1>1, <1>5, <1>7, SLAEndKeeps DEF SLAInv, SLATypeOK, SLATables, SLARequests

LEMMA PolicyRowTypes ==
  ASSUME NEW d \in Policy
  PROVE  PolicyRow(d) \in Policy
<1>1. \A n \in Int : Int32(n) \in Int
  BY SLAAssumption DEF Int32
<1>2. Int32(d.response) \in Int /\ Int32(d.resolution) \in Int
  BY <1>1 DEF Policy
<1> QED BY <1>2 DEF PolicyRow, Policy

\* A policy is inserted or written back.
LEMMA WritePolicyKeeps ==
  ASSUME SLAInv, NEW w \in Workers, InsertPolicy(w) \/ PutPolicy(w)
  PROVE  SLAInv'
<1> DEFINE r == slaReq[w]
<1>1. /\ r # Nil /\ r.policy \in Policies /\ r.draft \in Policy /\ slaReq' = Ended(slaReq, w)
      /\ policy' \in {policy, [policy EXCEPT ![r.policy] = PolicyRow(r.draft)]}
      /\ UNCHANGED <<category, record, opened, minute, replied, unrecorded, slaFaults, overlap, slaCount>>
  BY SLARequestNow DEF InsertPolicy, PutPolicy, SLACarries
<1>2. PolicyRow(r.draft) \in Policy
  BY <1>1, PolicyRowTypes
<1>3. /\ policy' \in [Policies -> Policy \cup {Nil}]
      /\ \A p \in Policies : policy[p] # Nil => policy'[p] # Nil
  BY <1>1, <1>2, SLANilAssumption DEF SLAInv, SLATypeOK
<1>4. RecordRefs'
  BY <1>1, <1>3 DEF RecordRefs, SLAInv, SLATypeOK, Record
<1>5. SLATables' /\ RowsStay
  BY <1>1, <1>3, <1>4 DEF SLAInv, SLATypeOK, SLATables, RowsStay
<1> QED BY <1>1, <1>5, SLAEndKeeps DEF SLAInv, SLATypeOK, SLATables, SLARequests

LEMMA PatchedTypes ==
  ASSUME NEW old \in Policy, NEW d \in Patches
  PROVE  Patched(old, d) \in Policy
<1>1. d \in Patch
  BY SentAssumption
<1>2. (IF d.response = Nil THEN old.response ELSE d.response) \in Int
      /\ (IF d.resolution = Nil THEN old.resolution ELSE d.resolution) \in Int
  BY <1>1, SLAAssumption DEF Patch, Policy
<1>3. (IF d.priority = Nil THEN old.priority ELSE d.priority) \in Priorities
      /\ (IF d.clear THEN Nil ELSE IF d.category = Nil THEN old.category ELSE d.category) \in Categories \cup {Nil}
  BY <1>1 DEF Patch, Policy
<1> QED BY <1>2, <1>3 DEF Patched, Policy

LEMMA GetPolicyKeeps ==
  ASSUME SLAInv, NEW w \in Workers, GetPolicy(w)
  PROVE  SLAInv'
<1> DEFINE r == slaReq[w]
           new == Patched(policy[r.policy], r.patch)
           q == [r EXCEPT !.step = "putPolicy", !.draft = new]
<1>1. /\ r # Nil /\ r.step = "getPolicy" /\ r \in SLARequest /\ r.policy \in Policies /\ r.patch \in Patches
      /\ UNCHANGED <<tables, minute, replied, unrecorded, slaFaults, overlap, slaCount>>
  BY SLARequestNow DEF GetPolicy, SLACarries
<1>2. SLATables' /\ RowsStay
  BY <1>1, SLATablesStay
<1>3. CASE slaReq' = Ended(slaReq, w)
  BY <1>2, <1>3, SLAEndKeeps DEF SLAInv, SLATypeOK, SLATables, SLARequests
<1>4. CASE slaReq' # Ended(slaReq, w)
  <2>1. policy[r.policy] # Nil /\ slaReq' = [slaReq EXCEPT ![w] = q]
    BY <1>4 DEF GetPolicy
  <2>2. new \in Policy
    BY <1>1, <2>1, PatchedTypes DEF SLAInv, SLATypeOK
  <2>3. "putPolicy" \in SLASteps
    BY DEF SLASteps
  <2> HIDE DEF new
  <2>4. q \in SLARequest /\ q.step = "putPolicy" /\ q.draft = new /\ q.policy = r.policy
    BY <1>1, <2>2, <2>3 DEF SLARequest
  <2> HIDE DEF q
  <2>5. SLACarries(q)
    BY <1>1, <2>2, <2>4 DEF SLACarries
  <2>6. SLARequests'
    BY <1>2, <2>1, <2>4, <2>5, SLARequestMoves
  <2> QED BY <1>2, <2>6 DEF SLAInv, SLATypeOK, SLATables, SLARequests
<1> QED BY <1>3, <1>4

LEMMA DeletePolicyKeeps ==
  ASSUME SLAInv, NEW w \in Workers, DeletePolicy(w)
  PROVE  SLAInv'
<1> DEFINE r == slaReq[w]
<1>1. /\ r # Nil /\ r.policy \in Policies /\ slaReq' = Ended(slaReq, w)
      /\ policy' = IF InForce(r.policy) THEN policy ELSE [policy EXCEPT ![r.policy] = Nil]
      /\ UNCHANGED <<category, record, opened, minute, replied, unrecorded, slaFaults, overlap, slaCount>>
  BY SLARequestNow DEF DeletePolicy, SLACarries
<1>2. policy' \in [Policies -> Policy \cup {Nil}]
  BY <1>1 DEF SLAInv, SLATypeOK
<1>3. RecordRefs'
  BY <1>1 DEF RecordRefs, InForce, SLAInv, SLATypeOK, Record
<1>4. SLATables' /\ RowsStay
  BY <1>1, <1>2, <1>3 DEF SLAInv, SLATypeOK, SLATables, RowsStay
<1> QED BY <1>1, <1>4, SLAEndKeeps DEF SLAInv, SLATypeOK, SLATables, SLARequests

\* A statement fails, and the request ends.
LEMMA SLAFailsKeeps ==
  ASSUME SLAInv, NEW w \in Workers, SLAFails(w)
  PROVE  SLAInv'
<1> DEFINE r == slaReq[w]
<1>1. /\ r # Nil /\ slaFaults < MaxSLAFaults /\ slaFaults' = slaFaults + 1
      /\ slaReq' = Ended(slaReq, w)
      /\ unrecorded' \in {unrecorded, [unrecorded EXCEPT ![r.ticket] = @ \cup {r.at}]}
      /\ UNCHANGED <<tables, minute, replied, overlap, slaCount>>
  BY DEF SLAFails
<1>2. r.at \in Times
  BY <1>1, SLARequestNow DEF SLARequest
<1>3. slaFaults' \in 0..MaxSLAFaults
  BY <1>1, SLAAssumption DEF SLAInv, SLATypeOK
<1>4. unrecorded' \in [SLATickets -> SUBSET Times]
  BY <1>1, <1>2 DEF SLAInv, SLATypeOK
<1>5. SLATables' /\ RowsStay
  BY <1>1, <1>3, <1>4 DEF tables, SLAInv, SLATypeOK, SLATables, RecordRefs, RowsStay
<1> QED BY <1>1, <1>5, SLAEndKeeps DEF SLAInv, SLATypeOK, SLATables, SLARequests

\* The clock moves, or a category goes.
LEMMA SLAWorldKeeps ==
  ASSUME SLAInv, SLATick \/ SLAExhausted \/ \E c \in Categories : DeleteCategory(c)
  PROVE  SLAInv'
<1>1. CASE SLATick
  <2>1. minute' \in Times
    BY <1>1, SLAAssumption DEF SLATick, Times, SLAInv, SLATypeOK
  <2>2. SLATables' /\ slaReq' = slaReq
    BY <1>1, <2>1 DEF SLATick, tables, SLAInv, SLATypeOK, SLATables, RecordRefs
  <2> QED BY <1>1, <2>2 DEF SLATick, tables, SLAInv, SLATypeOK, SLATables, SLAWorkerOK, SLARelies
<1>2. CASE SLAExhausted
  BY <1>2 DEF SLAExhausted, slaVars, SLAInv, SLATypeOK, RecordRefs, SLAWorkerOK, SLARelies
<1>3. ASSUME NEW c \in Categories, DeleteCategory(c) PROVE SLAInv'
  <2> DEFINE gone == {p \in Policies : policy[p] # Nil /\ policy[p].category = c}
  <2>1. /\ \A p \in gone : ~InForce(p)
        /\ category' = category \ {c} /\ policy' = [p \in Policies |-> IF p \in gone THEN Nil ELSE policy[p]]
        /\ UNCHANGED <<record, opened, slaReq, minute, replied, unrecorded, slaFaults, overlap, slaCount>>
    BY <1>3 DEF DeleteCategory
  <2>2. policy' \in [Policies -> Policy \cup {Nil}] /\ category' \subseteq Categories
    BY <2>1 DEF SLAInv, SLATypeOK
  <2> HIDE DEF gone
  <2>3. RecordRefs'
    BY <2>1 DEF RecordRefs, InForce, SLAInv, SLATypeOK, Record
  <2> QED BY <2>1, <2>2, <2>3 DEF SLAInv, SLATypeOK, SLAWorkerOK, SLARelies
<1> QED BY <1>1, <1>2, <1>3

LEMMA SLAInitial ==
  ASSUME SLAInit
  PROVE  SLAInv
<1>1. policy \in [Policies -> Policy \cup {Nil}]
  BY SentAssumption, SLAAssumption DEF SLAInit, Policy
<1>2. minute \in Times /\ slaCount \in 0..MaxSLARequests /\ slaFaults \in 0..MaxSLAFaults
  BY SLAAssumption DEF SLAInit, Times
<1>3. overlap \in BOOLEAN /\ category \subseteq Categories
  BY DEF SLAInit
<1> QED BY <1>1, <1>2, <1>3 DEF SLAInit, SLAInv, SLATypeOK, RecordRefs, SLAWorkerOK

LEMMA SLAInductive ==
  ASSUME SLAInv, [SLANext]_slaVars
  PROVE  SLAInv'
<1>1. CASE UNCHANGED slaVars
  BY <1>1 DEF slaVars, SLAInv, SLATypeOK, RecordRefs, SLAWorkerOK, SLARelies
<1>2. CASE SLANext
  BY <1>2, SLAArrivalsKeep, InsertTicketKeeps, FindPolicyKeeps, CreateRecordKeeps, GetRecordKeeps,
     PutRecordKeeps, WritePolicyKeeps, GetPolicyKeeps, DeletePolicyKeeps, SLAFailsKeeps,
     SLAWorldKeeps DEF SLANext, SLAStep
<1> QED BY <1>1, <1>2

LEMMA SLAInvariant == SLASpec => []SLAInv
  BY SLAInitial, SLAInductive, PTL DEF SLASpec

\* The tables and the requests on service levels have their types, 32-bit columns included.
THEOREM SLATypes == SLASpec => []SLATypeOK
  BY SLAInvariant, PTL DEF SLAInv

\* A record is of a ticket and under a policy that exist, whatever is deleted between the
\* choice of the policy and the insertion.  (AttachPolicy, DeletePolicy)
THEOREM RecordsRefer == SLASpec => []RecordRefs
  BY SLAInvariant, PTL DEF SLAInv

-----------------------------------------------------------------------------
(* Requests that do not overlap.                                           *)

Alone == \A v, w \in Workers : v # w /\ slaReq[v] # Nil => slaReq[w] = Nil

\* Nothing happened to a ticket before it was opened, and nothing will have happened.
BeforeOK ==
  \A t \in SLATickets :
    /\ opened[t] = Nil => record[t] = Nil /\ replied[t] = {}
    /\ \A m \in replied[t] : m =< minute

\* What a record k of ticket t says is true of the replies there were.
FirstOK(t, k)  == k.first # Nil => k.first \in replied[t] /\ \A m \in Recordable(t) : k.first =< m
BreachOK(t, k) == k.response # Nil => k.response =< minute /\ \A m \in Recordable(t) : m >= k.response
QuietOK(t, k)  == k.first = Nil => Recordable(t) = {}

\* The first reply is being noted.
Pending(t) ==
  \E w \in Workers :
    /\ slaReq[w] # Nil /\ slaReq[w].op = "reply" /\ slaReq[w].ticket = t
    /\ slaReq[w].step \in {"getRecord", "putRecord"}

RecordsOK ==
  \A t \in SLATickets : record[t] # Nil =>
    FirstOK(t, record[t]) /\ BreachOK(t, record[t]) /\ (QuietOK(t, record[t]) \/ Pending(t))

RequestOK(r) ==
  /\ r.at =< minute
  /\ r.op = "open" => r.step \in {"insertTicket", "find", "insertRecord"}
  /\ r.op = "reply" => r.step \in {"getRecord", "putRecord"}
  /\ r.op = "reply" /\ r.step = "putRecord" => Recordable(r.ticket) \subseteq {r.at}
  /\ r.step = "insertTicket" => opened[r.ticket] = Nil
  /\ r.step \in {"find", "insertRecord"} =>
       /\ record[r.ticket] = Nil /\ replied[r.ticket] = {} /\ r.draft # Nil
       /\ opened[r.ticket].priority = r.draft.priority /\ opened[r.ticket].category = r.draft.category
  /\ r.step = "insertRecord" => r.policy \in Best(opened[r.ticket].priority, opened[r.ticket].category)
  /\ r.step = "getRecord" =>
       /\ r.op \in {"reply", "evaluate"}
       /\ r.op = "reply" => r.at \in replied[r.ticket]
       /\ record[r.ticket] # Nil /\ record[r.ticket].first = Nil =>
            Recordable(r.ticket) \subseteq IF r.op = "reply" THEN {r.at} ELSE {}
  /\ r.step \in {"readPolicy", "putRecord"} =>
       FirstOK(r.ticket, r.record) /\ BreachOK(r.ticket, r.record) /\ QuietOK(r.ticket, r.record)

Serial == Alone /\ BeforeOK /\ RecordsOK /\ \A w \in Workers : slaReq[w] # Nil => RequestOK(slaReq[w])

SerialInv == ~overlap => Serial

\* The request that is in progress, or begins, moves to q or ends.
LEMMA SerialMoves ==
  ASSUME SLAInv, Serial, NEW w \in Workers, NEW q \in SLARequest \cup {Nil},
         slaReq' = [slaReq EXCEPT ![w] = q],
         slaReq[w] # Nil \/ \A v \in Workers : slaReq[v] = Nil,
         BeforeOK', RecordsOK', q # Nil => RequestOK(slaReq[w])'
  PROVE  Serial'
<1>1. /\ slaReq'[w] = q /\ \A v \in Workers \ {w} : slaReq'[v] = Nil
  BY DEF SLAInv, SLATypeOK, Serial, Alone
<1>2. Alone'
  BY <1>1 DEF Alone
<1>3. ASSUME NEW v \in Workers, slaReq'[v] # Nil PROVE RequestOK(slaReq[v])'
  <2>1. v = w
    BY <1>1, <1>3
  <2> QED BY <1>1, <1>3, <2>1
<1> QED BY <1>2, <1>3 DEF Serial

\* What holds of a request, and that no other is pending.
LEMMA SerialNow ==
  ASSUME SLAInv, Serial, NEW w \in Workers, slaReq[w] # Nil
  PROVE  /\ RequestOK(slaReq[w])
         /\ \A t \in SLATickets :
              Pending(t) => slaReq[w].op = "reply" /\ slaReq[w].ticket = t
                            /\ slaReq[w].step \in {"getRecord", "putRecord"}
  BY DEF Serial, Alone, Pending

\* A request that is not pending ends, or moves on, where the rows of records stay.
LEMMA UnpendingKeeps ==
  ASSUME SLAInv, Serial, NEW w \in Workers, slaReq[w] # Nil,
         slaReq[w].step = "getRecord" /\ slaReq[w].op = "reply" =>
           record[slaReq[w].ticket] = Nil \/ record[slaReq[w].ticket].first # Nil,
         slaReq[w].step # "putRecord", UNCHANGED <<record, replied, unrecorded, minute>>
  PROVE  RecordsOK'
<1>1. ASSUME NEW t \in SLATickets, record[t] # Nil PROVE QuietOK(t, record[t])
  BY <1>1, SerialNow DEF Serial, RecordsOK, QuietOK, Recordable
<1> QED BY <1>1 DEF Serial, RecordsOK, FirstOK, BreachOK, QuietOK, Recordable

LEMMA SerialEnds ==
  ASSUME SLAInv, Serial, NEW w \in Workers, slaReq[w] # Nil, slaReq' = Ended(slaReq, w),
         BeforeOK', RecordsOK'
  PROVE  Serial'
<1>1. PICK q \in SLARequest \cup {Nil} : q = Nil
  OBVIOUS
<1> QED BY <1>1, SerialMoves DEF Ended

-----------------------------------------------------------------------------

\* A request that is no staff reply begins.
LEMMA SerialBegins ==
  ASSUME SLAInv, Serial, ~overlap, NEW w \in Workers, NEW q \in SLARequest, Begin(w, q),
         UNCHANGED <<tables, minute, replied, unrecorded, slaFaults, overlap>>, SLACarries(q),
         q.at = minute, q.step \in {"insertTicket", "getRecord", "insertPolicy", "getPolicy", "deletePolicy"},
         q.step = "insertTicket" => opened[q.ticket] = Nil,
         q.step = "getRecord" => q.op = "evaluate", q.op # "reply",
         q.op = "open" => q.step = "insertTicket"
  PROVE  Serial'
<1>1. /\ \A v \in Workers : slaReq[v] = Nil
      /\ slaReq' = [slaReq EXCEPT ![w] = q] /\ UNCHANGED <<opened, record, policy>>
  BY DEF Begin, tables
<1>2. ASSUME NEW t \in SLATickets, record[t] # Nil PROVE QuietOK(t, record[t])
  BY <1>1, <1>2 DEF Serial, RecordsOK, Pending
<1>3. BeforeOK'
  BY <1>1 DEF Serial, BeforeOK
<1>4. RecordsOK'
  BY <1>1, <1>2 DEF Serial, RecordsOK, FirstOK, BreachOK, QuietOK, Recordable
<1>5. minute \in Int
  BY SLAAssumption DEF SLAInv, SLATypeOK, Times
<1>6. q.step = "getRecord" /\ record[q.ticket] # Nil /\ record[q.ticket].first = Nil => Recordable(q.ticket) = {}
  BY <1>2 DEF SLACarries, QuietOK
<1>7. slaReq'[w] = q
  BY <1>1 DEF SLAInv, SLATypeOK
<1>8. RequestOK(slaReq[w])'
  BY <1>1, <1>5, <1>6, <1>7 DEF RequestOK, Recordable
<1> QED BY <1>1, <1>3, <1>4, <1>8, SerialMoves

LEMMA SerialReply ==
  ASSUME SLAInv, Serial, ~overlap, NEW w \in Workers, StaffReply(w)
  PROVE  Serial'
<1>1. PICK t \in SLATickets :
        /\ opened[t] # Nil /\ Begin(w, [Asked("reply", "getRecord") EXCEPT !.ticket = t])
        /\ replied' = [replied EXCEPT ![t] = @ \cup {minute}]
        /\ UNCHANGED <<tables, minute, unrecorded, slaFaults, overlap>>
  BY DEF StaffReply
<1>2. "reply" \in SLAOps /\ "getRecord" \in SLASteps
  BY DEF SLAOps, SLASteps
<1>3. PICK q \in SLARequest :
        Begin(w, q) /\ q.op = "reply" /\ q.step = "getRecord" /\ q.at = minute /\ q.ticket = t
  <2> DEFINE p == [Asked("reply", "getRecord") EXCEPT !.ticket = t]
  <2>1. /\ Asked("reply", "getRecord") \in SLARequest /\ Asked("reply", "getRecord").op = "reply"
        /\ Asked("reply", "getRecord").step = "getRecord" /\ Asked("reply", "getRecord").at = minute
    BY <1>2, AskedTypes
  <2>2. p \in SLARequest /\ p.op = "reply" /\ p.step = "getRecord" /\ p.at = minute /\ p.ticket = t
    BY <2>1 DEF SLARequest
  <2>3. Begin(w, p)
    BY <1>1
  <2> HIDE DEF p
  <2> QED BY <2>2, <2>3
<1>4. /\ \A v \in Workers : slaReq[v] = Nil
      /\ slaReq' = [slaReq EXCEPT ![w] = q] /\ UNCHANGED <<opened, record, policy>>
  BY <1>1, <1>3 DEF Begin, tables
<1>5. slaReq'[w] = q /\ q # Nil
  BY <1>4, SLANilAssumption DEF SLAInv, SLATypeOK
<1>6. ASSUME NEW u \in SLATickets, record[u] # Nil PROVE QuietOK(u, record[u])
  BY <1>4, <1>6 DEF Serial, RecordsOK, Pending
<1>7. minute \in Int /\ replied \in [SLATickets -> SUBSET Times] /\ Times \subseteq Int
  BY SLAAssumption DEF SLAInv, SLATypeOK, Times
<1>8. /\ replied'[t] = replied[t] \cup {minute}
      /\ \A u \in SLATickets \ {t} : replied'[u] = replied[u]
      /\ unrecorded' = unrecorded
  BY <1>1, <1>7
<1>9. BeforeOK'
  BY <1>1, <1>4, <1>7, <1>8 DEF Serial, BeforeOK
<1>10. ASSUME NEW u \in SLATickets, record[u] # Nil
       PROVE  FirstOK(u, record[u])' /\ BreachOK(u, record[u])'
  <2>1. FirstOK(u, record[u]) /\ BreachOK(u, record[u]) /\ \A m \in replied[u] : m =< minute
    BY <1>10 DEF Serial, RecordsOK, BeforeOK
  <2>2. record[u].first # Nil => record[u].first =< minute
    BY <2>1 DEF FirstOK, Recordable
  <2> QED BY <1>1, <1>4, <1>7, <1>8, <2>1, <2>2 DEF FirstOK, BreachOK, Recordable
<1>11. ASSUME NEW u \in SLATickets, record[u] # Nil PROVE QuietOK(u, record[u])' \/ Pending(u)'
  <2>1. CASE u = t
    BY <1>3, <1>5, <2>1 DEF Pending
  <2>2. CASE u # t
    BY <1>4, <1>6, <1>8, <1>11, <2>2 DEF QuietOK, Recordable
  <2> QED BY <2>1, <2>2
<1>12. RecordsOK'
  BY <1>4, <1>10, <1>11 DEF RecordsOK
<1>13. RequestOK(slaReq[w])'
  <2>1. record[t] # Nil /\ record[t].first = Nil => Recordable(t)' \subseteq {minute}
    BY <1>6, <1>8 DEF QuietOK, Recordable
  <2> QED BY <1>1, <1>3, <1>4, <1>5, <1>7, <1>8, <2>1 DEF RequestOK, Recordable
<1> QED BY <1>4, <1>9, <1>12, <1>13, SerialMoves

LEMMA SerialArrivals ==
  ASSUME SLAInv, Serial, ~overlap, NEW w \in Workers, SLAArrive(w)
  PROVE  Serial'
<1>a. /\ "open" \in SLAOps /\ "evaluate" \in SLAOps /\ "create" \in SLAOps
      /\ "patch" \in SLAOps /\ "delete" \in SLAOps
      /\ "insertTicket" \in SLASteps /\ "getRecord" \in SLASteps /\ "insertPolicy" \in SLASteps
      /\ "getPolicy" \in SLASteps /\ "deletePolicy" \in SLASteps
  BY DEF SLAOps, SLASteps
<1>b. \A op \in SLAOps, step \in SLASteps :
        /\ Asked(op, step) \in SLARequest
        /\ Asked(op, step).op = op /\ Asked(op, step).step = step /\ Asked(op, step).at = minute
  BY AskedTypes
<1>1. CASE OpenTicket(w)
  <2>1. PICK t \in SLATickets, x \in Priorities, c \in Categories :
          /\ opened[t] = Nil
          /\ Begin(w, [Asked("open", "insertTicket") EXCEPT !.ticket = t,
                         !.draft = [priority |-> x, category |-> c, response |-> 0, resolution |-> 0]])
          /\ UNCHANGED <<tables, minute, replied, unrecorded, slaFaults, overlap>>
    BY <1>1 DEF OpenTicket
  <2> DEFINE d == [priority |-> x, category |-> c, response |-> 0, resolution |-> 0]
             o == Asked("open", "insertTicket")
             q == [o EXCEPT !.ticket = t, !.draft = d]
  <2>2. d \in Policy /\ d.category \in Categories
    BY DEF Policy
  <2>3. Begin(w, q)
    BY <2>1
  <2>4. o \in SLARequest /\ o.op = "open" /\ o.step = "insertTicket" /\ o.at = minute
    BY <1>a, <1>b
  <2> HIDE DEF d, o
  <2>5. q \in SLARequest /\ q.op = "open" /\ q.step = "insertTicket" /\ q.ticket = t /\ q.draft = d /\ q.at = minute
    BY <2>2, <2>4 DEF SLARequest
  <2> HIDE DEF q
  <2>6. SLACarries(q)
    BY <2>2, <2>5 DEF SLACarries
  <2> QED BY <2>1, <2>3, <2>5, <2>6, SerialBegins
<1>2. CASE EvaluateBreaches(w)
  <2>1. PICK t \in SLATickets :
          /\ Begin(w, [Asked("evaluate", "getRecord") EXCEPT !.ticket = t])
          /\ UNCHANGED <<tables, minute, replied, unrecorded, slaFaults, overlap>>
    BY <1>2 DEF EvaluateBreaches
  <2> DEFINE o == Asked("evaluate", "getRecord")
             q == [o EXCEPT !.ticket = t]
  <2>2. Begin(w, q)
    BY <2>1
  <2>3. o \in SLARequest /\ o.op = "evaluate" /\ o.step = "getRecord" /\ o.at = minute
    BY <1>a, <1>b
  <2> HIDE DEF o
  <2>4. q \in SLARequest /\ q.op = "evaluate" /\ q.step = "getRecord" /\ q.ticket = t /\ q.at = minute
    BY <2>3 DEF SLARequest
  <2> HIDE DEF q
  <2>5. SLACarries(q)
    BY <2>4 DEF SLACarries
  <2> QED BY <2>1, <2>2, <2>4, <2>5, SerialBegins
<1>3. CASE HandleCreateSLAPolicy(w)
  <2>1. PICK d \in Drafts, p \in Policies :
          /\ Begin(w, [Asked("create", "insertPolicy") EXCEPT !.policy = p, !.draft = d])
          /\ UNCHANGED <<tables, minute, replied, unrecorded, slaFaults, overlap>>
    BY <1>3 DEF HandleCreateSLAPolicy
  <2> DEFINE o == Asked("create", "insertPolicy")
             q == [o EXCEPT !.policy = p, !.draft = d]
  <2>2. Begin(w, q)
    BY <2>1
  <2>3. o \in SLARequest /\ o.op = "create" /\ o.step = "insertPolicy" /\ o.at = minute
    BY <1>a, <1>b
  <2>4. d \in Policy
    BY SentAssumption, SLAAssumption DEF Policy
  <2> HIDE DEF o
  <2>5. q \in SLARequest /\ q.op = "create" /\ q.step = "insertPolicy" /\ q.at = minute /\ q.policy = p /\ q.draft = d
    BY <2>3, <2>4 DEF SLARequest
  <2> HIDE DEF q
  <2>6. SLACarries(q)
    BY <2>4, <2>5 DEF SLACarries
  <2> QED BY <2>1, <2>2, <2>5, <2>6, SerialBegins
<1>4. CASE HandleUpdateSLAPolicy(w)
  <2>1. PICK p \in Policies, d \in Patches :
          /\ Begin(w, [Asked("patch", "getPolicy") EXCEPT !.policy = p, !.patch = d])
          /\ UNCHANGED <<tables, minute, replied, unrecorded, slaFaults, overlap>>
    BY <1>4 DEF HandleUpdateSLAPolicy
  <2> DEFINE o == Asked("patch", "getPolicy")
             q == [o EXCEPT !.policy = p, !.patch = d]
  <2>2. Begin(w, q)
    BY <2>1
  <2>3. o \in SLARequest /\ o.op = "patch" /\ o.step = "getPolicy" /\ o.at = minute
    BY <1>a, <1>b
  <2> HIDE DEF o
  <2>4. q \in SLARequest /\ q.op = "patch" /\ q.step = "getPolicy" /\ q.at = minute /\ q.policy = p /\ q.patch = d
    BY <2>3 DEF SLARequest
  <2> HIDE DEF q
  <2>5. SLACarries(q)
    BY <2>4 DEF SLACarries
  <2> QED BY <2>1, <2>2, <2>4, <2>5, SerialBegins
<1>5. CASE HandleDeleteSLAPolicy(w)
  <2>1. PICK p \in Policies :
          /\ Begin(w, [Asked("delete", "deletePolicy") EXCEPT !.policy = p])
          /\ UNCHANGED <<tables, minute, replied, unrecorded, slaFaults, overlap>>
    BY <1>5 DEF HandleDeleteSLAPolicy
  <2> DEFINE o == Asked("delete", "deletePolicy")
             q == [o EXCEPT !.policy = p]
  <2>2. Begin(w, q)
    BY <2>1
  <2>3. o \in SLARequest /\ o.op = "delete" /\ o.step = "deletePolicy" /\ o.at = minute
    BY <1>a, <1>b
  <2> HIDE DEF o
  <2>4. q \in SLARequest /\ q.op = "delete" /\ q.step = "deletePolicy" /\ q.at = minute /\ q.policy = p
    BY <2>3 DEF SLARequest
  <2> HIDE DEF q
  <2>5. SLACarries(q)
    BY <2>4 DEF SLACarries
  <2> QED BY <2>1, <2>2, <2>4, <2>5, SerialBegins
<1> QED BY <1>1, <1>2, <1>3, <1>4, <1>5, SerialReply DEF SLAArrive

-----------------------------------------------------------------------------

LEMMA SerialInsertTicket ==
  ASSUME SLAInv, Serial, NEW w \in Workers, InsertTicket(w)
  PROVE  Serial'
<1> DEFINE r == slaReq[w]
<1>1. /\ r # Nil /\ r.step = "insertTicket" /\ r \in SLARequest /\ r.ticket \in SLATickets
      /\ r.draft \in Policy /\ RequestOK(r)
      /\ UNCHANGED <<category, policy, record, minute, replied, unrecorded, slaFaults, overlap, slaCount>>
  BY SLARequestNow, SerialNow DEF InsertTicket, SLACarries
<1>2. opened[r.ticket] = Nil /\ record[r.ticket] = Nil /\ replied[r.ticket] = {}
  BY <1>1 DEF RequestOK, Serial, BeforeOK
<1>3. RecordsOK'
  BY <1>1, UnpendingKeeps
<1>4. CASE slaReq' = Ended(slaReq, w) /\ opened' = opened
  <2>1. BeforeOK'
    BY <1>1, <1>4 DEF Serial, BeforeOK
  <2> QED BY <1>1, <1>3, <1>4, <2>1, SerialEnds
<1>5. CASE /\ opened' = [opened EXCEPT ![r.ticket] =
                [priority |-> r.draft.priority, category |-> r.draft.category, at |-> r.at]]
           /\ slaReq' = GoesTo(slaReq, w, "find")
  <2> DEFINE q == [r EXCEPT !.step = "find"]
  <2>1. "find" \in SLASteps
    BY DEF SLASteps
  <2>2. /\ q \in SLARequest /\ q.step = "find" /\ q.ticket = r.ticket /\ q.draft = r.draft
        /\ q.op = r.op /\ q.at = r.at
    BY <1>1, <2>1 DEF SLARequest
  <2>3. slaReq' = [slaReq EXCEPT ![w] = q]
    BY <1>5 DEF GoesTo
  <2> HIDE DEF q
  <2>4. slaReq'[w] = q
    BY <2>3 DEF SLAInv, SLATypeOK
  <2>5. /\ \A t \in SLATickets \ {r.ticket} : opened'[t] = opened[t]
        /\ opened'[r.ticket].priority = r.draft.priority /\ opened'[r.ticket].category = r.draft.category
    BY <1>1, <1>5 DEF SLAInv, SLATypeOK
  <2>6. BeforeOK'
    BY <1>1, <1>2, <2>5 DEF Serial, BeforeOK
  <2>7. r.draft # Nil
    BY <1>1, SLANilAssumption
  <2>8. RequestOK(slaReq[w])'
    BY <1>1, <1>2, <2>2, <2>4, <2>5, <2>7 DEF RequestOK
  <2> QED BY <1>1, <1>3, <2>2, <2>3, <2>6, <2>8, SerialMoves
<1> QED BY <1>4, <1>5 DEF InsertTicket

\* ORDER BY category_id NULLS LAST finds a policy of the category itself, where there is one.
LEMMA FoundIsBest ==
  ASSUME NEW x, NEW c \in Categories
  PROVE  Found(x, c) = Best(x, c)
<1>1. c # Nil
  BY SLANilAssumption
<1> QED BY <1>1 DEF Found, Best, Fits

LEMMA SerialFindPolicy ==
  ASSUME SLAInv, Serial, NEW w \in Workers, FindPolicy(w)
  PROVE  Serial'
<1> DEFINE r == slaReq[w]
<1>1. /\ r # Nil /\ r.step = "find" /\ r \in SLARequest /\ r.ticket \in SLATickets
      /\ r.draft.category \in Categories /\ RequestOK(r)
      /\ UNCHANGED <<category, policy, record, opened, minute, replied, unrecorded, slaFaults, overlap, slaCount>>
  BY SLARequestNow, SerialNow DEF FindPolicy, SLACarries, tables
<1>2. RecordsOK'
  BY <1>1, UnpendingKeeps
<1>3. BeforeOK'
  BY <1>1 DEF Serial, BeforeOK
<1>4. CASE slaReq' = Ended(slaReq, w)
  BY <1>1, <1>2, <1>3, <1>4, SerialEnds
<1>5. ASSUME NEW p \in Found(r.draft.priority, r.draft.category),
             slaReq' = [slaReq EXCEPT ![w].policy = p, ![w].step = "insertRecord"]
      PROVE  Serial'
  <2> DEFINE q == [r EXCEPT !.policy = p, !.step = "insertRecord"]
  <2>1. "insertRecord" \in SLASteps /\ p \in Policies
    BY DEF SLASteps, Found
  <2>2. /\ q \in SLARequest /\ q.step = "insertRecord" /\ q.ticket = r.ticket /\ q.draft = r.draft
        /\ q.op = r.op /\ q.at = r.at /\ q.policy = p
    BY <1>1, <2>1 DEF SLARequest
  <2>3. slaReq' = [slaReq EXCEPT ![w] = q]
    BY <1>5
  <2> HIDE DEF q
  <2>4. slaReq'[w] = q
    BY <2>3 DEF SLAInv, SLATypeOK
  <2>5. p \in Best(opened[r.ticket].priority, opened[r.ticket].category)
    BY <1>1, FoundIsBest DEF RequestOK
  <2>6. p \in Best(opened[slaReq[w].ticket].priority, opened[slaReq[w].ticket].category)'
    BY <1>1, <2>2, <2>4, <2>5 DEF Best
  <2>7. RequestOK(slaReq[w])'
    BY <1>1, <2>2, <2>4, <2>6 DEF RequestOK
  <2> QED BY <1>1, <1>2, <1>3, <2>2, <2>3, <2>7, SerialMoves
<1> QED BY <1>4, <1>5 DEF FindPolicy

LEMMA SerialCreateRecord ==
  ASSUME SLAInv, Serial, NEW w \in Workers, CreateRecord(w)
  PROVE  Serial'
<1> DEFINE r == slaReq[w]
<1>1. /\ r # Nil /\ r.step = "insertRecord" /\ r.ticket \in SLATickets /\ RequestOK(r)
      /\ opened[r.ticket] # Nil /\ slaReq' = Ended(slaReq, w)
      /\ UNCHANGED <<category, policy, opened, minute, replied, unrecorded, slaFaults, overlap, slaCount>>
  BY SLARequestNow, SerialNow DEF CreateRecord, SLACarries, SLARelies
<1>2. /\ \A t \in SLATickets \ {r.ticket} : record'[t] = record[t]
      /\ record'[r.ticket] # Nil => record'[r.ticket].first = Nil /\ record'[r.ticket].response = Nil
  BY <1>1 DEF CreateRecord, SLAInv, SLATypeOK, RequestOK
<1>3. BeforeOK'
  BY <1>1, <1>2 DEF Serial, BeforeOK
<1>4. ASSUME NEW t \in SLATickets, record'[t] # Nil
      PROVE  FirstOK(t, record[t])' /\ BreachOK(t, record[t])' /\ QuietOK(t, record[t])'
  <2>1. CASE t = r.ticket
    BY <1>1, <1>2, <1>4, <2>1 DEF RequestOK, FirstOK, BreachOK, QuietOK, Recordable
  <2>2. CASE t # r.ticket
    <3>1. QuietOK(t, record[t])
      BY <1>1, <1>2, <1>4, <2>2, SerialNow DEF Serial, RecordsOK, QuietOK, Recordable
    <3> QED BY <1>1, <1>2, <1>4, <2>2, <3>1 DEF Serial, RecordsOK, FirstOK, BreachOK, QuietOK, Recordable
  <2> QED BY <2>1, <2>2
<1>5. RecordsOK'
  BY <1>4 DEF RecordsOK
<1> QED BY <1>1, <1>3, <1>5, SerialEnds

\* A request carries on with what it has read or worked out of the record.
LEMMA SerialCarriesRecord ==
  ASSUME SLAInv, Serial, NEW w \in Workers, slaReq[w] # Nil, slaReq[w].ticket \in SLATickets,
         slaReq[w].step \in {"getRecord", "readPolicy"}, NEW k \in Record,
         NEW step \in {"readPolicy", "putRecord"},
         slaReq' = [slaReq EXCEPT ![w].record = k, ![w].step = step],
         UNCHANGED <<category, policy, record, opened, minute, replied, unrecorded, slaFaults, overlap, slaCount>>,
         FirstOK(slaReq[w].ticket, k), BreachOK(slaReq[w].ticket, k), QuietOK(slaReq[w].ticket, k),
         \/ /\ slaReq[w].op = "reply" /\ step = "putRecord"
            /\ Recordable(slaReq[w].ticket) \subseteq {slaReq[w].at}
         \/ slaReq[w].op # "reply"
  PROVE  Serial'
<1> DEFINE r == slaReq[w]
           q == [r EXCEPT !.record = k, !.step = step]
<1>1. r \in SLARequest /\ RequestOK(r)
  BY SLARequestNow, SerialNow
<1>2. step \in SLASteps
  BY DEF SLASteps
<1>3. /\ q \in SLARequest /\ q.record = k /\ q.step = step /\ q.ticket = r.ticket
      /\ q.op = r.op /\ q.at = r.at
  BY <1>1, <1>2 DEF SLARequest
<1>4. slaReq' = [slaReq EXCEPT ![w] = q]
  OBVIOUS
<1> HIDE DEF q
<1>5. slaReq'[w] = q /\ q # Nil
  BY <1>3, <1>4, SLANilAssumption DEF SLAInv, SLATypeOK
<1>6. BeforeOK'
  BY DEF Serial, BeforeOK
<1>7. ASSUME NEW t \in SLATickets, Pending(t) PROVE Pending(t)'
  <2>1. r.op = "reply" /\ r.ticket = t
    BY <1>7, SerialNow
  <2>2. step = "putRecord"
    BY <2>1
  <2> QED BY <1>3, <1>5, <2>1, <2>2 DEF Pending
<1>8. RecordsOK'
  BY <1>7 DEF Serial, RecordsOK, FirstOK, BreachOK, QuietOK, Recordable
<1>9. r.op = "open" => r.step = "insertTicket" \/ r.step = "find" \/ r.step = "insertRecord"
  BY <1>1 DEF RequestOK
<1>10. RequestOK(slaReq[w])'
  BY <1>1, <1>3, <1>5, <1>9 DEF RequestOK, FirstOK, BreachOK, QuietOK, Recordable
<1> QED BY <1>3, <1>4, <1>6, <1>8, <1>10, SerialMoves

LEMMA SerialGetRecord ==
  ASSUME SLAInv, Serial, NEW w \in Workers, GetRecord(w)
  PROVE  Serial'
<1> DEFINE r == slaReq[w]
           t == r.ticket
           k == record[t]
<1>1. /\ r # Nil /\ r.step = "getRecord" /\ r \in SLARequest /\ t \in SLATickets /\ RequestOK(r)
      /\ UNCHANGED <<category, policy, record, opened, minute, replied, unrecorded, slaFaults, overlap, slaCount>>
  BY SLARequestNow, SerialNow DEF GetRecord, SLACarries, tables
<1>2. BeforeOK'
  BY <1>1 DEF Serial, BeforeOK
<1>3. r.op \in {"reply", "evaluate"} /\ r.at \in Times /\ r.at # Nil
  BY <1>1, SLAAssumption, SLANilAssumption DEF RequestOK, SLARequest, Times
<1>4. k # Nil => k \in Record
  BY <1>1 DEF SLAInv, SLATypeOK
<1>5. k # Nil /\ r.op = "reply" /\ k.first = Nil => Answered(k, r.at) # k
  <2> HIDE DEF k
  <2> QED BY <1>3, <1>4 DEF Answered, Record
<1>6. CASE k = Nil \/ (r.op = "reply" /\ k.first # Nil)
  <2>1. slaReq' = Ended(slaReq, w)
    BY <1>1, <1>6 DEF GetRecord, Answered
  <2>2. RecordsOK'
    BY <1>1, <1>6, UnpendingKeeps
  <2> QED BY <1>1, <1>2, <2>1, <2>2, SerialEnds
<1>7. CASE k # Nil /\ r.op = "evaluate"
  <2>1. slaReq' = [slaReq EXCEPT ![w].record = k, ![w].step = "readPolicy"]
    BY <1>7 DEF GetRecord
  <2>2. FirstOK(t, k) /\ BreachOK(t, k)
    BY <1>1, <1>7 DEF Serial, RecordsOK
  <2>3. QuietOK(t, k)
    BY <1>1, <1>7 DEF RequestOK, QuietOK, Recordable
  <2> QED BY <1>1, <1>4, <1>7, <2>1, <2>2, <2>3, SerialCarriesRecord
<1>8. CASE k # Nil /\ r.op = "reply" /\ k.first = Nil
  <2> DEFINE l == Answered(k, r.at)
  <2>1. slaReq' = [slaReq EXCEPT ![w].record = l, ![w].step = "putRecord"]
    BY <1>5, <1>8 DEF GetRecord
  <2>2. l \in Record /\ l.first = r.at /\ l.response = k.response
    <3> HIDE DEF k
    <3> QED BY <1>3, <1>4, <1>8 DEF Answered, Record
  <2>3. Recordable(t) \subseteq {r.at} /\ r.at \in replied[t]
    BY <1>1, <1>8 DEF RequestOK
  <2>4. BreachOK(t, k) /\ r.at \in Int
    BY <1>1, <1>3, <1>8, SLAAssumption DEF Serial, RecordsOK, Times
  <2> HIDE DEF l
  <2>5. FirstOK(t, l) /\ BreachOK(t, l) /\ QuietOK(t, l)
    BY <1>3, <2>2, <2>3, <2>4 DEF FirstOK, BreachOK, QuietOK, Recordable
  <2> QED BY <1>1, <1>8, <2>1, <2>2, <2>3, <2>5, SerialCarriesRecord
<1> QED BY <1>3, <1>6, <1>7, <1>8

LEMMA SerialReadPolicy ==
  ASSUME SLAInv, Serial, NEW w \in Workers, ReadPolicy(w)
  PROVE  Serial'
<1> DEFINE r == slaReq[w]
           t == r.ticket
           p == policy[r.record.policy]
           k == Evaluated(r.record, p, opened[t].at, r.at)
<1>1. /\ r # Nil /\ r.step = "readPolicy" /\ r \in SLARequest /\ t \in SLATickets /\ RequestOK(r)
      /\ r.record \in Record
      /\ UNCHANGED <<category, policy, record, opened, minute, replied, unrecorded, slaFaults, overlap, slaCount>>
  BY SLARequestNow, SerialNow DEF ReadPolicy, SLACarries, tables
<1>2. BeforeOK'
  BY <1>1 DEF Serial, BeforeOK
<1>3. r.op # "reply"
  BY <1>1 DEF RequestOK
<1>4. FirstOK(t, r.record) /\ BreachOK(t, r.record) /\ QuietOK(t, r.record) /\ r.at =< minute /\ r.at \in Times
  BY <1>1 DEF RequestOK, SLARequest
<1>5. /\ k \in Record /\ k.first = r.record.first
      /\ k.response # r.record.response => k.response = r.at /\ r.record.first = Nil
  <2> HIDE DEF p
  <2> QED BY <1>1, <1>4 DEF Evaluated, Record
<1>6. slaReq' = IF p = Nil \/ k = r.record THEN Ended(slaReq, w)
                ELSE [slaReq EXCEPT ![w].record = k, ![w].step = "putRecord"]
  BY DEF ReadPolicy
<1> HIDE DEF k
<1>7. FirstOK(t, k) /\ BreachOK(t, k) /\ QuietOK(t, k)
  BY <1>4, <1>5 DEF FirstOK, BreachOK, QuietOK, Recordable
<1>8. CASE slaReq' = Ended(slaReq, w)
  <2>1. RecordsOK'
    BY <1>1, UnpendingKeeps
  <2> QED BY <1>1, <1>2, <1>8, <2>1, SerialEnds
<1>9. CASE slaReq' = [slaReq EXCEPT ![w].record = k, ![w].step = "putRecord"]
  BY <1>1, <1>3, <1>5, <1>7, <1>9, SerialCarriesRecord
<1> QED BY <1>6, <1>8, <1>9

LEMMA SerialPutRecord ==
  ASSUME SLAInv, Serial, NEW w \in Workers, PutRecord(w)
  PROVE  Serial'
<1> DEFINE r == slaReq[w]
<1>1. /\ r # Nil /\ r.step = "putRecord" /\ r.ticket \in SLATickets /\ RequestOK(r)
      /\ record[r.ticket] # Nil /\ opened[r.ticket] # Nil /\ slaReq' = Ended(slaReq, w)
      /\ UNCHANGED <<category, policy, opened, minute, replied, unrecorded, slaFaults, overlap, slaCount>>
  BY SLARequestNow, SerialNow DEF PutRecord, SLACarries, SLARelies
<1>2. /\ \A t \in SLATickets \ {r.ticket} : record'[t] = record[t]
      /\ record'[r.ticket].first = r.record.first /\ record'[r.ticket].response = r.record.response
  BY <1>1 DEF PutRecord, SLAInv, SLATypeOK
<1>3. BeforeOK'
  BY <1>1, <1>2 DEF Serial, BeforeOK
<1>4. ASSUME NEW t \in SLATickets, record'[t] # Nil
      PROVE  FirstOK(t, record[t])' /\ BreachOK(t, record[t])' /\ QuietOK(t, record[t])'
  <2>1. CASE t = r.ticket
    BY <1>1, <1>2, <1>4, <2>1 DEF RequestOK, FirstOK, BreachOK, QuietOK, Recordable
  <2>2. CASE t # r.ticket
    <3>1. QuietOK(t, record[t])
      BY <1>1, <1>2, <1>4, <2>2, SerialNow DEF Serial, RecordsOK, QuietOK, Recordable
    <3> QED BY <1>1, <1>2, <1>4, <2>2, <3>1 DEF Serial, RecordsOK, FirstOK, BreachOK, QuietOK, Recordable
  <2> QED BY <2>1, <2>2
<1>5. RecordsOK'
  BY <1>4 DEF RecordsOK
<1> QED BY <1>1, <1>3, <1>5, SerialEnds

\* Policies come, change and go while no ticket is being opened.
LEMMA SerialPolicies ==
  ASSUME SLAInv, Serial, NEW w \in Workers,
         InsertPolicy(w) \/ GetPolicy(w) \/ PutPolicy(w) \/ DeletePolicy(w)
  PROVE  Serial'
<1> DEFINE r == slaReq[w]
<1>1. /\ r # Nil /\ r.step \in {"insertPolicy", "getPolicy", "putPolicy", "deletePolicy"}
      /\ r \in SLARequest /\ RequestOK(r)
      /\ UNCHANGED <<record, opened, minute, replied, unrecorded, slaFaults, overlap>>
  BY SLARequestNow, SerialNow DEF InsertPolicy, GetPolicy, PutPolicy, DeletePolicy, tables
<1>2. RecordsOK' /\ BeforeOK'
  BY <1>1, UnpendingKeeps DEF Serial, BeforeOK
<1>3. CASE slaReq' = Ended(slaReq, w)
  BY <1>1, <1>2, <1>3, SerialEnds
<1>4. CASE slaReq' # Ended(slaReq, w)
  <2> DEFINE new == Patched(policy[r.policy], r.patch)
             q == [r EXCEPT !.step = "putPolicy", !.draft = new]
  <2>1. slaReq' = [slaReq EXCEPT ![w] = q] /\ policy[r.policy] # Nil /\ r.policy \in Policies /\ r.patch \in Patches
    BY <1>1, <1>4, SLARequestNow DEF InsertPolicy, GetPolicy, PutPolicy, DeletePolicy, SLACarries
  <2>2. new \in Policy
    BY <2>1, PatchedTypes DEF SLAInv, SLATypeOK
  <2>3. "putPolicy" \in SLASteps
    BY DEF SLASteps
  <2> HIDE DEF new
  <2>4. q \in SLARequest /\ q.step = "putPolicy" /\ q.op = r.op /\ q.at = r.at
    BY <1>1, <2>2, <2>3 DEF SLARequest
  <2> HIDE DEF q
  <2>5. slaReq'[w] = q
    BY <2>1 DEF SLAInv, SLATypeOK
  <2>6. RequestOK(slaReq[w])'
    BY <1>1, <2>4, <2>5 DEF RequestOK
  <2> QED BY <1>1, <1>2, <2>1, <2>4, <2>6, SerialMoves
<1> QED BY <1>3, <1>4

\* A statement fails: the reply that was being noted is no longer one to be noted.
LEMMA SerialFails ==
  ASSUME SLAInv, Serial, NEW w \in Workers, SLAFails(w)
  PROVE  Serial'
<1> DEFINE r == slaReq[w]
<1>1. /\ r # Nil /\ r \in SLARequest /\ RequestOK(r) /\ SLACarries(r)
      /\ slaReq' = Ended(slaReq, w) /\ UNCHANGED <<category, policy, record, opened, minute, replied>>
  BY SLARequestNow, SerialNow DEF SLAFails, tables
<1>2. unrecorded \in [SLATickets -> SUBSET Times]
  BY DEF SLAInv, SLATypeOK
<1>3. ASSUME NEW t \in SLATickets
      PROVE  /\ Recordable(t)' \subseteq Recordable(t)
             /\ r.op = "reply" /\ r.ticket = t => r.at \notin Recordable(t)'
  BY <1>2 DEF SLAFails, Recordable
<1>4. BeforeOK'
  BY <1>1 DEF Serial, BeforeOK
<1>5. ASSUME NEW t \in SLATickets, record[t] # Nil PROVE QuietOK(t, record[t])'
  <2>1. CASE QuietOK(t, record[t])
    BY <1>1, <1>3, <2>1 DEF QuietOK
  <2>2. CASE Pending(t)
    <3>1. r.op = "reply" /\ r.ticket = t /\ r.step \in {"getRecord", "putRecord"}
      BY <1>1, <2>2, SerialNow
    <3>2. record[t].first = Nil => Recordable(t) \subseteq {r.at}
      BY <1>1, <1>5, <3>1 DEF RequestOK
    <3> QED BY <1>1, <1>3, <3>1, <3>2 DEF QuietOK
  <2> QED BY <1>5, <2>1, <2>2 DEF Serial, RecordsOK
<1>6. ASSUME NEW t \in SLATickets, record[t] # Nil
      PROVE  FirstOK(t, record[t])' /\ BreachOK(t, record[t])'
  <2>1. FirstOK(t, record[t]) /\ BreachOK(t, record[t])
    BY <1>6 DEF Serial, RecordsOK
  <2> QED BY <1>1, <1>3, <2>1 DEF FirstOK, BreachOK
<1>7. RecordsOK'
  BY <1>1, <1>5, <1>6 DEF RecordsOK
<1> QED BY <1>1, <1>4, <1>7, SerialEnds

\* The best policies of a ticket's category outlive the other categories.
LEMMA BestOutlives ==
  ASSUME SLAInv, NEW c \in Categories, DeleteCategory(c), NEW x, NEW d \in Categories \ {c}
  PROVE  Best(x, d)' = Best(x, d)
<1>1. /\ \A p \in Policies : policy[p] # Nil /\ policy[p].category # c => policy'[p] = policy[p]
      /\ \A p \in Policies : policy[p] = Nil \/ policy[p].category = c => policy'[p] = Nil
  BY DEF DeleteCategory
<1>2. c # Nil /\ d # c /\ d # Nil
  BY SLANilAssumption
<1>3. \A k \in {d, Nil} :
        {p \in Policies : policy'[p] # Nil /\ policy'[p].priority = x /\ policy'[p].category = k}
        = {p \in Policies : policy[p] # Nil /\ policy[p].priority = x /\ policy[p].category = k}
  BY <1>1, <1>2
<1> QED BY <1>3 DEF Best

LEMMA SerialWorld ==
  ASSUME SLAInv, Serial,
         SLATick \/ UNCHANGED slaVars \/ \E c \in Categories : DeleteCategory(c)
  PROVE  Serial'
<1>1. /\ UNCHANGED <<slaReq, record, opened, replied, unrecorded>>
      /\ minute \in Times /\ minute' \in Int /\ minute =< minute' /\ Times \subseteq Int
  BY SLAAssumption DEF SLATick, DeleteCategory, slaVars, tables, SLAInv, SLATypeOK, Times
<1>2. Alone' /\ \A t \in SLATickets : Pending(t) => Pending(t)'
  BY <1>1 DEF Serial, Alone, Pending
<1>3. replied \in [SLATickets -> SUBSET Times] /\ record \in [SLATickets -> Record \cup {Nil}]
  BY DEF SLAInv, SLATypeOK
<1>4. BeforeOK'
  BY <1>1, <1>3 DEF Serial, BeforeOK
<1>5. ASSUME NEW t \in SLATickets, NEW k \in Record, FirstOK(t, k), BreachOK(t, k)
      PROVE  FirstOK(t, k)' /\ BreachOK(t, k)'
  <2>1. FirstOK(t, k)'
    BY <1>1, <1>5 DEF FirstOK, Recordable
  <2>2. ASSUME k.response # Nil PROVE k.response \in Int /\ k.response =< minute'
    <3> DEFINE m == k.response
    <3>1. m \in Times /\ m =< minute
      BY <1>5, <2>2 DEF BreachOK, Record, Recordable
    <3>2. m \in Int
      BY <1>1, <3>1
    <3> HIDE DEF m
    <3>3. minute \in Int
      BY <1>1
    <3>4. m =< minute'
      BY <1>1, <3>1, <3>2, <3>3
    <3> QED BY <3>2, <3>4 DEF m
  <2>3. BreachOK(t, k)'
    BY <1>1, <1>5, <2>2 DEF BreachOK, Recordable
  <2> QED BY <2>1, <2>3
<1>6. ASSUME NEW t \in SLATickets, NEW k, QuietOK(t, k)
      PROVE  QuietOK(t, k)'
  BY <1>1, <1>6 DEF QuietOK, Recordable
<1>7. RecordsOK'
  <2>1. ASSUME NEW t \in SLATickets, record[t] # Nil
        PROVE  FirstOK(t, record[t])' /\ BreachOK(t, record[t])' /\ (QuietOK(t, record[t])' \/ Pending(t)')
    BY <1>1, <1>2, <1>3, <1>5, <1>6, <2>1 DEF Serial, RecordsOK, FirstOK, BreachOK, QuietOK, Record, Recordable
  <2> QED BY <1>1, <2>1 DEF RecordsOK
<1>8. ASSUME NEW w \in Workers, slaReq[w] # Nil PROVE RequestOK(slaReq[w])'
  <2> DEFINE r == slaReq[w]
  <2>1. RequestOK(r) /\ r \in SLARequest /\ SLACarries(r) /\ SLARelies(r)
    BY <1>8, SerialNow, SLARequestNow
  <2>2. r.at =< minute'
    <3>1. r.at \in Times /\ r.at =< minute
      BY <2>1 DEF RequestOK, SLARequest
    <3>2. r.at \in Int /\ minute \in Int /\ minute' \in Int /\ minute =< minute'
      BY <1>1, <3>1
    <3> HIDE DEF r
    <3> QED BY <3>1, <3>2
  <2>3. r.step = "insertRecord" =>
          r.policy \in Best(opened[r.ticket].priority, opened[r.ticket].category)'
    <3>1. CASE SLATick \/ UNCHANGED slaVars
      BY <1>1, <2>1, <3>1 DEF RequestOK, Best, SLATick, slaVars, tables
    <3>2. ASSUME NEW c \in Categories, DeleteCategory(c), r.step = "insertRecord"
          PROVE  r.policy \in Best(opened[r.ticket].priority, opened[r.ticket].category)'
      <4>1. opened[r.ticket] \in Opened /\ r.ticket \in SLATickets /\ opened[r.ticket] # Nil
        BY <2>1, <3>2 DEF SLACarries, SLARelies, SLAInv, SLATypeOK
      <4>2. opened[r.ticket].category \in Categories \ {c}
        BY <3>2, <4>1 DEF DeleteCategory, Opened
      <4>3. PICK x : x = opened[r.ticket].priority
        OBVIOUS
      <4>4. PICK d \in Categories \ {c} : d = opened[r.ticket].category
        BY <4>2
      <4>5. Best(x, d)' = Best(x, d)
        BY <3>2, BestOutlives
      <4>6. opened'[slaReq'[w].ticket].priority = x /\ opened'[slaReq'[w].ticket].category = d
        BY <1>1, <4>3, <4>4
      <4> QED BY <2>1, <3>2, <4>3, <4>4, <4>5, <4>6 DEF RequestOK
    <3> QED BY <3>1, <3>2
  <2>4. r.step \in {"readPolicy", "putRecord"} =>
          FirstOK(r.ticket, r.record)' /\ BreachOK(r.ticket, r.record)' /\ QuietOK(r.ticket, r.record)'
    BY <1>1, <1>5, <1>6, <2>1 DEF RequestOK, SLACarries, FirstOK, BreachOK, QuietOK, Recordable
  <2> QED BY <1>1, <2>1, <2>2, <2>3, <2>4 DEF RequestOK, Recordable
<1> QED BY <1>1, <1>2, <1>4, <1>7, <1>8 DEF Serial

LEMMA SerialInitial ==
  ASSUME SLAInit
  PROVE  SerialInv
  BY DEF SLAInit, SerialInv, Serial, Alone, BeforeOK, RecordsOK

LEMMA SerialInductive ==
  ASSUME SLAInv, SerialInv, [SLANext]_slaVars
  PROVE  SerialInv'
<1>1. SUFFICES ASSUME ~overlap' PROVE Serial'
  BY DEF SerialInv
<1>2. CASE UNCHANGED slaVars
  <2>1. Serial
    BY <1>1, <1>2 DEF slaVars, SerialInv
  <2> QED BY <1>2, <2>1, SerialWorld
<1>3. CASE SLANext
  <2>1. overlap' = overlap
    BY <1>3 DEF SLANext, SLAArrive, SLAStep, OpenTicket, StaffReply, EvaluateBreaches,
       HandleCreateSLAPolicy, HandleUpdateSLAPolicy, HandleDeleteSLAPolicy, InsertTicket, FindPolicy,
       CreateRecord, GetRecord, ReadPolicy, PutRecord, InsertPolicy, GetPolicy, PutPolicy, DeletePolicy,
       DeleteCategory, SLAFails, SLATick, SLAExhausted, slaVars
  <2>2. Serial /\ ~overlap
    BY <1>1, <2>1 DEF SerialInv
  <2> QED BY <1>3, <2>2, SerialArrivals, SerialInsertTicket, SerialFindPolicy, SerialCreateRecord,
          SerialGetRecord, SerialReadPolicy, SerialPutRecord, SerialPolicies, SerialFails, SerialWorld
          DEF SLANext, SLAStep, SLAExhausted
<1> QED BY <1>2, <1>3

LEMMA SerialInvariant == SLASpec => [](SLAInv /\ SerialInv)
<1>1. SLAInit => SLAInv /\ SerialInv
  BY SLAInitial, SerialInitial
<1>2. SLAInv /\ SerialInv /\ [SLANext]_slaVars => (SLAInv /\ SerialInv)'
  BY SLAInductive, SerialInductive
<1> QED BY <1>1, <1>2, PTL DEF SLASpec

\* Where requests do not overlap, the first response on record is the earliest staff reply
\* but for those whose recording failed, whatever statements fail.  (RecordFirstResponse)
THEOREM FirstAnswers == SLASpec => []AnswerIsFirst
<1>1. ASSUME SLAInv, SerialInv PROVE AnswerIsFirst
  <2>1. SUFFICES ASSUME ~overlap, NEW t \in SLATickets, record[t] # Nil
                 PROVE  /\ record[t].first # Nil =>
                             record[t].first \in replied[t] /\ \A m \in Recordable(t) : record[t].first =< m
                        /\ Recordable(t) # {} /\ (\A w \in Workers : slaReq[w] = Nil) => record[t].first # Nil
    BY DEF AnswerIsFirst
  <2>2. FirstOK(t, record[t]) /\ (QuietOK(t, record[t]) \/ Pending(t))
    BY <1>1, <2>1 DEF SerialInv, Serial, RecordsOK
  <2> QED BY <2>2 DEF FirstOK, QuietOK, Pending, Recordable
<1> QED BY <1>1, SerialInvariant, PTL

\* Where requests do not overlap, a response stamped as missed was missed by every reply but
\* those whose recording failed.  (EvaluateBreaches)
THEOREM BreachesAreTrue == SLASpec => []BreachIsTrue
<1>1. ASSUME SLAInv, SerialInv PROVE BreachIsTrue
  BY <1>1 DEF SerialInv, Serial, RecordsOK, BreachOK, BreachIsTrue, Recordable
<1> QED BY <1>1, SerialInvariant, PTL

\* The only steps that end a request to open a ticket after it was opened.
LEMMA OpeningEnds ==
  ASSUME SLAInv, SerialInv, ~overlap, [SLANext]_slaVars, slaFaults' = slaFaults,
         NEW w \in Workers, slaReq[w] # Nil,
         slaReq[w].op = "open", opened[slaReq[w].ticket] # Nil, slaReq'[w] = Nil
  PROVE  FindPolicy(w) \/ CreateRecord(w)
<1> DEFINE r == slaReq[w]
<1>1. Serial /\ RequestOK(r) /\ r.step \in {"find", "insertRecord"}
  BY SerialNow DEF SerialInv, RequestOK
<1>2. \A v \in Workers \ {w} : slaReq[v] = Nil
  BY <1>1 DEF Serial, Alone
<1>3. slaReq' # slaReq
  OBVIOUS
<1>4. \A v \in Workers : ~SLAArrive(v)
  BY <1>2 DEF SLAArrive, Begin, OpenTicket, StaffReply, EvaluateBreaches, HandleCreateSLAPolicy,
     HandleUpdateSLAPolicy, HandleDeleteSLAPolicy
<1>5. PICK v \in Workers : SLAStep(v) /\ ~SLAFails(v)
  <2>1. \A v \in Workers : ~SLAFails(v)
    BY SLAAssumption DEF SLAFails, SLAInv, SLATypeOK
  <2> QED BY <1>3, <1>4, <2>1 DEF SLANext, SLATick, SLAExhausted, DeleteCategory, slaVars
<1>6. v = w
  BY <1>2, <1>5 DEF SLAStep, InsertTicket, FindPolicy, CreateRecord, GetRecord, ReadPolicy, PutRecord,
     InsertPolicy, GetPolicy, PutPolicy, DeletePolicy
<1> QED BY <1>1, <1>5, <1>6 DEF SLAStep, InsertTicket, GetRecord, ReadPolicy, PutRecord,
        InsertPolicy, GetPolicy, PutPolicy, DeletePolicy

\* Where requests do not overlap, a new ticket comes under the policy of its own category,
\* or else under one of all categories, or else under none, unless a statement of its
\* creation failed.  (AttachPolicy)
THEOREM BestPoliciesAttached == SLASpec => BestPolicyAttached
<1> DEFINE AttachedNow ==
      \A w \in Workers :
        LET r == slaReq[w] IN
        /\ ~overlap /\ slaFaults' = slaFaults
        /\ r # Nil /\ r.op = "open" /\ opened[r.ticket] # Nil /\ slaReq'[w] = Nil
        => LET best == Best(opened[r.ticket].priority, opened[r.ticket].category)
           IN IF best = {} THEN record'[r.ticket] = Nil
              ELSE record'[r.ticket] # Nil /\ record'[r.ticket].policy \in best
<1>1. ASSUME SLAInv, SerialInv, [SLANext]_slaVars PROVE AttachedNow
  <2>1. SUFFICES ASSUME NEW w \in Workers, ~overlap, slaFaults' = slaFaults,
                        slaReq[w] # Nil, slaReq[w].op = "open",
                        opened[slaReq[w].ticket] # Nil, slaReq'[w] = Nil
                 PROVE  LET r == slaReq[w]
                            best == Best(opened[r.ticket].priority, opened[r.ticket].category)
                        IN IF best = {} THEN record'[r.ticket] = Nil
                           ELSE record'[r.ticket] # Nil /\ record'[r.ticket].policy \in best
    OBVIOUS
  <2> DEFINE r == slaReq[w]
             best == Best(opened[r.ticket].priority, opened[r.ticket].category)
  <2>2. r \in SLARequest /\ SLACarries(r) /\ SLARelies(r) /\ RequestOK(r)
    BY <1>1, <2>1, SLARequestNow, SerialNow DEF SerialInv
  <2>3. CASE FindPolicy(w)
    <3>1. /\ r.step = "find" /\ r.draft.category \in Categories /\ record' = record
          /\ record[r.ticket] = Nil
      BY <2>2, <2>3 DEF FindPolicy, SLACarries, RequestOK, tables
    <3>2. best = Found(r.draft.priority, r.draft.category)
      BY <2>2, <3>1, FoundIsBest DEF RequestOK
    <3>3. Found(r.draft.priority, r.draft.category) = {}
      <4>1. ASSUME NEW p \in Policies, slaReq' = [slaReq EXCEPT ![w].policy = p, ![w].step = "insertRecord"]
            PROVE  FALSE
        <5>1. slaReq'[w].step = "insertRecord" /\ slaReq'[w] = [r EXCEPT !.policy = p, !.step = "insertRecord"]
          BY <1>1, <2>2, <4>1 DEF SLAInv, SLATypeOK, SLARequest
        <5>2. [r EXCEPT !.policy = p, !.step = "insertRecord"] \in SLARequest
          BY <2>2, <4>1 DEF SLARequest, SLASteps
        <5> QED BY <2>1, <5>1, <5>2, SLANilAssumption
      <4> QED BY <2>3, <4>1 DEF FindPolicy, Found
    <3> QED BY <3>1, <3>2, <3>3
  <2>4. CASE CreateRecord(w)
    <3>1. r.policy \in best /\ r.ticket \in SLATickets /\ record[r.ticket] = Nil
      BY <2>2, <2>4 DEF CreateRecord, SLACarries, RequestOK
    <3>2. policy[r.policy] # Nil
      BY <3>1 DEF Best
    <3>3. record'[r.ticket] = [policy |-> r.policy, first |-> Nil, response |-> Nil, resolution |-> Nil]
      BY <1>1, <2>4, <3>1, <3>2 DEF CreateRecord, PolicyIsThere, SLAInv, SLATypeOK
    <3>4. record'[r.ticket].policy = r.policy /\ record'[r.ticket] \in Record
      BY <1>1, <2>2, <2>4, <3>3 DEF CreateRecord, SLACarries, Record
    <3> QED BY <3>1, <3>4, SLANilAssumption
  <2> QED BY <1>1, <2>1, <2>3, <2>4, OpeningEnds
<1>2. ASSUME SLAInv, SerialInv, [SLANext]_slaVars PROVE [AttachedNow]_slaVars
  BY <1>1, <1>2
<1> QED BY <1>2, SerialInvariant, PTL DEF SLASpec, BestPolicyAttached

-----------------------------------------------------------------------------
(* Lists and counts.                                                       *)

\* A statement of a list asks for what the list is about, or for a part of it.
AskedFor(r, k, groups) ==
  \/ k = r.about /\ k.by \in {"reporter", "group", "unassigned", "all"}
  \/ r.about.by = "mine" /\ k = Ask("user", r.who)
  \/ r.about.by = "mine" /\ \E g \in groups : k = Ask("group", g)

\* Of the tickets an observer has seen: those that stayed in status s, and those that may
\* have been counted in it.
Stayed(o, s) == {t \in o.always : o.was[t].status = s}
Possible(o, s) == {t \in o.ever : t \notin o.always \/ o.was[t].status = s}

CountsOK(r, o) ==
  /\ r.term = Nil /\ r.ask = {} /\ r.step # "query"
  /\ o.always \subseteq o.ever
  /\ \A s \in Shelves : r.counts[s] # Nil =>
       /\ r.counts[s] \in Nat
       /\ Cardinality(Stayed(o, s)) =< r.counts[s]
       /\ r.counts[s] =< Cardinality(Possible(o, s))

\* What a request holds, against what the observers o and b have seen.
AnswerOK(r, o, b) ==
  /\ o \in Watch /\ r.groups \subseteq b
  /\ \A k \in r.ask : AskedFor(r, k, b)
  /\ \A t \in ListTickets : r.times[t] =< 1 /\ (r.times[t] > 0 => t \in o.ever)
  /\ r.about.by = "counts" => CountsOK(r, o)

\* The tickets a count is taken of.
CountScope(r) ==
  CASE RoleOf[r.who] = "admin" -> ListAll
    [] RoleOf[r.who] = "staff" ->
         {t \in ListAll : desk[t].user = r.who \/ desk[t].group \in r.groups}
    [] RoleOf[r.who] = "user"  -> ListByReporter(r.who)

\* What the observers have seen, against the tables.
SeenOK(w) ==
  LET r == listReq[w]
      o == watch[w]
  IN
  /\ GroupsOf(r.who) \subseteq belonged[w]
  /\ Outer(w) \subseteq o.ever
  /\ o.always \subseteq Inner(w)
  /\ r.about.by = "counts" =>
       /\ \A t \in o.always : desk[t] = o.was[t]
       /\ r.step = "count" => o.always \subseteq CountScope(r)

ListHolds(w) ==
  listReq[w] # Nil =>
    /\ AnswerOK(listReq[w], watch[w], belonged[w])
    /\ listReq[w].step # "done" => SeenOK(w)

ListInv == ListTypeOK /\ \A w \in Workers : ListHolds(w)

LEMMA RowsWithin ==
  ASSUME NEW k \in Query, NEW q \in Terms \cup {Nil}, k.by \notin {"mine", "counts"}
  PROVE  /\ Rows(k, q) \subseteq ListTickets
         /\ Rows(k, q) = (IF q = Nil THEN Rows(k, Nil) ELSE Rows(k, Nil) \cap Matches(q))
<1>1. k.by \in {"reporter", "user", "group", "unassigned", "all"}
  BY DEF Query
<1> QED BY <1>1 DEF Rows, ListAll, ListByReporter, ListByAssigneeUser, ListByAssigneeGroup,
       ListUnassigned, SearchAll, SearchByReporter, SearchByAssigneeUser, SearchByAssigneeGroup,
       SearchUnassigned

LEMMA ScopeWithin ==
  ASSUME ListTypeOK, NEW w \in Workers, listReq[w] # Nil, NEW gs, NEW hs, gs \subseteq hs
  PROVE  Scope(w, gs) \subseteq ListTickets /\ Scope(w, gs) \subseteq Scope(w, hs)
<1> DEFINE r == listReq[w]
<1>1. r.about \in Query /\ RoleOf[r.who] \in {"user", "staff", "admin"}
  BY ListAssumption DEF ListTypeOK, ListRequest
<1>2. CASE r.about.by \notin {"mine", "counts"}
  BY <1>1, <1>2, RowsWithin DEF Scope
<1>3. CASE r.about.by \in {"mine", "counts"}
  BY <1>1, <1>3 DEF Scope, ListAll, ListByReporter, ListByAssigneeUser, ListByAssigneeGroup
<1> QED BY <1>2, <1>3

\* A statement of a list reads what is in the scope of its request.
LEMMA AskedWithin ==
  ASSUME ListTypeOK, NEW w \in Workers, listReq[w] # Nil, NEW b \in SUBSET Groups,
         NEW k \in Query, AskedFor(listReq[w], k, b)
  PROVE  Page(k, listReq[w].term) \subseteq Scope(w, b)
<1> DEFINE r == listReq[w]
<1>1. r.about \in Query /\ r.term \in Terms \cup {Nil}
  BY DEF ListTypeOK, ListRequest
<1>2. k.by \notin {"mine", "counts"}
  BY DEF AskedFor, Ask
<1>3. Page(k, r.term) \subseteq Rows(k, r.term)
  BY DEF Page
<1>4. Rows(k, Nil) \subseteq
        IF r.about.by = "mine"
        THEN ListByAssigneeUser(r.who) \cup UNION {ListByAssigneeGroup(g) : g \in b}
        ELSE Rows(r.about, Nil)
  <2>1. CASE k = r.about
    BY <1>2, <2>1
  <2>2. CASE r.about.by = "mine" /\ k = Ask("user", r.who)
    BY <2>2 DEF Rows, Ask
  <2>3. CASE r.about.by = "mine" /\ \E g \in b : k = Ask("group", g)
    BY <2>3 DEF Rows, Ask
  <2> QED BY <2>1, <2>2, <2>3 DEF AskedFor
<1>5. r.about.by # "counts"
  BY <1>2 DEF AskedFor
<1>6. Rows(k, r.term) \subseteq
        (IF r.term = Nil THEN Rows(k, Nil) ELSE Rows(k, Nil) \cap Matches(r.term))
  BY <1>1, <1>2, RowsWithin
<1> HIDE DEF r
<1> QED BY <1>3, <1>4, <1>5, <1>6 DEF Scope, r

\* How many may have been counted and how many stayed, when the observer sees more.
LEMMA ObserverSeesMore ==
  ASSUME NEW o \in Watch, NEW p \in Watch, p.was = o.was, p.always \subseteq o.always,
         o.ever \subseteq p.ever, NEW s
  PROVE  /\ Cardinality(Stayed(p, s)) \in Nat /\ Cardinality(Stayed(o, s)) \in Nat
         /\ Cardinality(Stayed(p, s)) =< Cardinality(Stayed(o, s))
         /\ Cardinality(Possible(p, s)) \in Nat /\ Cardinality(Possible(o, s)) \in Nat
         /\ Cardinality(Possible(o, s)) =< Cardinality(Possible(p, s))
<1>1. /\ Stayed(p, s) \subseteq Stayed(o, s) /\ Stayed(o, s) \subseteq ListTickets
      /\ Possible(o, s) \subseteq Possible(p, s) /\ Possible(p, s) \subseteq ListTickets
  BY DEF Stayed, Possible, Watch
<1>2. /\ IsFiniteSet(Stayed(o, s)) /\ IsFiniteSet(Possible(p, s))
  BY <1>1, ListAssumption, FS_Subset
<1> QED BY <1>1, <1>2, FS_Subset, FS_CardinalityType

\* How the observers move with every step.
ObserversMove ==
  /\ belonged' = [w \in Workers |-> Belonged(w)]
  /\ watch' = [w \in Workers |-> Observed(w)]

TablesOK ==
  /\ desk \in [ListTickets -> Filed \cup {Nil}] /\ member \subseteq Users \X Groups
  /\ listReq \in [Workers -> ListRequest \cup {Nil}]
  /\ lists \in 0..MaxLists /\ moves \in 0..MaxMoves

LEMMA ScopeWithinNext ==
  ASSUME NEW w \in Workers, listReq'[w] \in ListRequest, NEW gs, NEW hs, gs \subseteq hs
  PROVE  Scope(w, gs)' \subseteq ListTickets /\ Scope(w, gs)' \subseteq Scope(w, hs)'
<1> DEFINE q == listReq'[w]
<1>1. q.about \in Query /\ RoleOf[q.who] \in {"user", "staff", "admin"}
  BY ListAssumption DEF ListRequest
<1>2. CASE q.about.by \notin {"mine", "counts"}
  <2>1. q.about.by \in {"reporter", "user", "group", "unassigned", "all"}
    BY <1>1, <1>2 DEF Query
  <2>2. Rows(listReq[w].about, Nil)' \subseteq ListTickets
    BY <2>1 DEF Rows, ListAll, ListByReporter, ListByAssigneeUser, ListByAssigneeGroup, ListUnassigned
  <2> QED BY <1>2, <2>2 DEF Scope
<1>3. CASE q.about.by \in {"mine", "counts"}
  BY <1>1, <1>3 DEF Scope, ListAll, ListByReporter, ListByAssigneeUser, ListByAssigneeGroup
<1> QED BY <1>2, <1>3

LEMMA InnerOuterNext ==
  ASSUME NEW w \in Workers, listReq'[w] \in ListRequest, GroupsOf(listReq[w].who)' \subseteq belonged'[w]
  PROVE  Inner(w)' \subseteq Outer(w)' /\ Outer(w)' \subseteq ListTickets
<1>1. /\ \A gs : gs = GroupsOf(listReq[w].who)' => Inner(w)' = Scope(w, gs)'
      /\ \A hs : hs = belonged'[w] => Outer(w)' = Scope(w, hs)'
  BY DEF Inner, Outer
<1> QED BY <1>1, ScopeWithinNext

\* What the observers see of a request in progress.
LEMMA Sees ==
  ASSUME ListInv, TablesOK', ObserversMove, NEW w \in Workers, listReq[w] # Nil, listReq'[w] # Nil,
         listReq'[w].who = listReq[w].who
  PROVE  /\ belonged'[w] = GroupsOf(listReq[w].who)' \cup belonged[w]
         /\ listReq[w].step = "done" => watch'[w] = watch[w]
         /\ listReq[w].step # "done" =>
              /\ watch'[w] \in Watch /\ watch'[w].was = watch[w].was
              /\ watch'[w].always = watch[w].always \cap {t \in Inner(w)' : desk'[t] = desk[t]}
              /\ watch'[w].ever = watch[w].ever \cup Outer(w)'
<1>1. belonged'[w] = GroupsOf(listReq[w].who)' \cup belonged[w]
  BY DEF ObserversMove, Belonged, GroupsOf
<1>2. listReq[w].step = "done" => watch'[w] = watch[w]
  BY DEF ObserversMove, Observed
<1>3. ASSUME listReq[w].step # "done"
      PROVE  /\ watch'[w] \in Watch /\ watch'[w].was = watch[w].was
             /\ watch'[w].always = watch[w].always \cap {t \in Inner(w)' : desk'[t] = desk[t]}
             /\ watch'[w].ever = watch[w].ever \cup Outer(w)'
  <2>1. watch[w] \in Watch
    BY DEF ListInv, ListHolds, AnswerOK
  <2>2. Outer(w)' \subseteq ListTickets
    BY <1>1, InnerOuterNext DEF TablesOK
  <2>3. watch'[w] = [watch[w] EXCEPT !.always = @ \cap {t \in Inner(w)' : desk'[t] = desk[t]},
                                     !.ever = @ \cup Outer(w)']
    BY <1>3 DEF ObserversMove, Observed
  <2> HIDE DEF Inner, Outer
  <2> QED BY <2>1, <2>2, <2>3 DEF Watch
<1> QED BY <1>1, <1>2, <1>3

\* What the observers see of a request that begins.
LEMMA Looks ==
  ASSUME ListInv, TablesOK', ObserversMove, NEW w \in Workers, listReq[w] = Nil, listReq'[w] # Nil,
         desk' = desk
  PROVE  /\ belonged'[w] \subseteq Groups /\ GroupsOf(listReq[w].who)' \subseteq belonged'[w]
         /\ watch'[w] \in Watch /\ watch'[w].was = desk
         /\ watch'[w].always = Inner(w)' /\ watch'[w].ever = Outer(w)'
<1>1. belonged'[w] = GroupsOf(listReq[w].who)' \cup belonged[w]
  BY DEF ObserversMove, Belonged
<1>2. belonged'[w] \subseteq Groups
  BY <1>1 DEF ListInv, ListTypeOK, GroupsOf
<1>3. watch'[w] = [was |-> desk, always |-> Inner(w)', ever |-> Outer(w)']
  BY DEF ObserversMove, Observed
<1>4. Inner(w)' \subseteq Outer(w)' /\ Outer(w)' \subseteq ListTickets
  BY <1>1, InnerOuterNext DEF TablesOK, GroupsOf
<1> HIDE DEF Inner, Outer
<1> QED BY <1>1, <1>2, <1>3, <1>4 DEF ListInv, ListTypeOK, Watch, GroupsOf

LEMMA ObserverTypes ==
  ASSUME ListInv, TablesOK', ObserversMove,
         \A w \in Workers : listReq[w] # Nil /\ listReq'[w] # Nil => listReq'[w].who = listReq[w].who,
         desk' = desk \/ listReq' = listReq
  PROVE  ListTypeOK'
<1>1. ASSUME NEW w \in Workers PROVE belonged'[w] \subseteq Groups /\ watch'[w] \in Watch \cup {Nil}
  <2>1. belonged[w] \subseteq Groups /\ watch[w] \in Watch \cup {Nil}
    BY DEF ListInv, ListTypeOK
  <2>2. CASE listReq'[w] = Nil
    BY <2>1, <2>2 DEF ObserversMove, Belonged, Observed
  <2>3. CASE listReq'[w] # Nil /\ listReq[w] = Nil
    BY <2>3, Looks
  <2>4. CASE listReq'[w] # Nil /\ listReq[w] # Nil
    BY <2>1, <2>4, Sees DEF GroupsOf
  <2> QED BY <2>2, <2>3, <2>4
<1>2. belonged' \in [Workers -> SUBSET Groups] /\ watch' \in [Workers -> Watch \cup {Nil}]
  BY <1>1 DEF ObserversMove
<1> QED BY <1>2 DEF TablesOK, ListTypeOK

\* A request that is not at a statement: the desk and the groups may move.
LEMMA OtherHolds ==
  ASSUME ListInv, TablesOK', ObserversMove, NEW w \in Workers, listReq'[w] = listReq[w]
  PROVE  ListHolds(w)'
<1> DEFINE r == listReq[w]
           o == watch[w]
           p == watch'[w]
<1> SUFFICES ASSUME r # Nil PROVE ListHolds(w)'
  BY DEF ListHolds
<1>1. AnswerOK(r, o, belonged[w]) /\ (r.step # "done" => SeenOK(w))
  BY DEF ListInv, ListHolds
<1>2. belonged[w] \subseteq belonged'[w] /\ GroupsOf(r.who)' \subseteq belonged'[w]
  BY Sees
<1>3. CASE r.step = "done"
  <2>1. p = o
    BY <1>3, Sees
  <2>2. AnswerOK(r, p, belonged'[w])
    BY <1>1, <1>2, <2>1 DEF AnswerOK, AskedFor
  <2> QED BY <1>3, <2>2 DEF ListHolds
<1>4. CASE r.step # "done"
  <2>1. /\ o \in Watch /\ p \in Watch /\ p.was = o.was
        /\ p.always = o.always \cap {t \in Inner(w)' : desk'[t] = desk[t]}
        /\ p.ever = o.ever \cup Outer(w)'
    BY <1>1, <1>4, Sees DEF AnswerOK
  <2> HIDE DEF o, p
  <2>2. r.about.by = "counts" => CountsOK(r, p)
    <3> SUFFICES ASSUME r.about.by = "counts" PROVE CountsOK(r, p)
      OBVIOUS
    <3>1. CountsOK(r, o)
      BY <1>1 DEF AnswerOK
    <3>2. p.always \subseteq o.always /\ o.ever \subseteq p.ever
      BY <2>1
    <3>3. \A s \in Shelves : r.counts[s] # Nil =>
            /\ r.counts[s] \in Nat
            /\ Cardinality(Stayed(p, s)) =< r.counts[s]
            /\ r.counts[s] =< Cardinality(Possible(p, s))
      <4> TAKE s \in Shelves
      <4> HAVE r.counts[s] # Nil
      <4>1. /\ r.counts[s] \in Nat
            /\ Cardinality(Stayed(o, s)) =< r.counts[s]
            /\ r.counts[s] =< Cardinality(Possible(o, s))
        BY <3>1 DEF CountsOK
      <4> QED BY <2>1, <3>2, <4>1, ObserverSeesMore
    <3> QED BY <3>1, <3>2, <3>3 DEF CountsOK
  <2>3. AnswerOK(r, p, belonged'[w])
    BY <1>1, <1>2, <2>1, <2>2 DEF AnswerOK, AskedFor
  <2>4. SeenOK(w)'
    <3>1. GroupsOf(r.who)' \subseteq belonged'[w] /\ Outer(w)' \subseteq p.ever
      BY <1>2, <2>1
    <3>2. r.about.by = "counts" => \A t \in p.always : desk'[t] = p.was[t]
      BY <1>1, <1>4, <2>1 DEF SeenOK, o
    <3>3. p.always \subseteq Inner(w)'
      BY <2>1
    <3>4. ASSUME r.about.by = "counts", r.step = "count" PROVE p.always \subseteq CountScope(r)'
      <4>1. p.always \subseteq CountScope(r) /\ \A t \in p.always : desk'[t] = desk[t]
        BY <1>1, <1>4, <2>1, <3>4 DEF SeenOK, o
      <4>2. RoleOf[r.who] \in {"user", "staff", "admin"}
        BY ListAssumption DEF ListInv, ListTypeOK, ListRequest
      <4> QED BY <4>1, <4>2 DEF CountScope, ListAll, ListByReporter
    <3> HIDE DEF Inner, Outer, CountScope
    <3> QED BY <3>1, <3>2, <3>3, <3>4 DEF SeenOK, p
  <2> QED BY <2>3, <2>4 DEF ListHolds, p
<1> QED BY <1>3, <1>4

\* A request runs a statement, which reads the desk and the groups as they are.
LEMMA StepHolds ==
  ASSUME ListInv, TablesOK', ObserversMove, NEW w \in Workers, NEW q \in ListRequest,
         listReq[w] # Nil, listReq[w].step # "done", listReq'[w] = q,
         UNCHANGED <<desk, member>>,
         q.who = listReq[w].who, q.about = listReq[w].about, q.term = listReq[w].term,
         q.groups \subseteq belonged[w],
         \A k \in q.ask : AskedFor(q, k, belonged[w]),
         \A t \in ListTickets :
           q.times[t] =< 1 /\ (q.times[t] > 0 => listReq[w].times[t] > 0 \/ t \in Outer(w)),
         q.about.by = "counts" => q.ask = {} /\ q.step # "query",
         q.about.by = "counts" => \A s \in Shelves : q.counts[s] # Nil =>
           \/ q.counts[s] = listReq[w].counts[s]
           \/ \E C : /\ q.counts[s] = Cardinality(C)
                     /\ Stayed(watch[w], s) \subseteq C /\ C \subseteq Possible(watch[w], s),
         q.about.by = "counts" /\ q.step = "count" => watch[w].always \subseteq CountScope(q)
  PROVE  ListHolds(w)'
<1> DEFINE r == listReq[w]
           o == watch[w]
           p == watch'[w]
<1> SUFFICES ASSUME q # Nil PROVE ListHolds(w)'
  BY DEF ListHolds
<1>1. AnswerOK(r, o, belonged[w]) /\ SeenOK(w)
  BY DEF ListInv, ListHolds
<1>2. belonged[w] \subseteq belonged'[w] /\ GroupsOf(q.who)' \subseteq belonged'[w]
  BY Sees
<1>3. /\ o \in Watch /\ p \in Watch /\ p.was = o.was
      /\ p.always = o.always \cap {t \in Inner(w)' : desk'[t] = desk[t]}
      /\ p.ever = o.ever \cup Outer(w)'
  BY <1>1, Sees DEF AnswerOK
<1>4. p.always \subseteq o.always /\ o.ever \subseteq p.ever
  BY <1>3
<1>5. Outer(w) \subseteq o.ever
  BY <1>1 DEF SeenOK
<1> HIDE DEF o, p
<1>6. q.about.by = "counts" => CountsOK(q, p)
  <2> SUFFICES ASSUME q.about.by = "counts" PROVE CountsOK(q, p)
    OBVIOUS
  <2>1. CountsOK(r, o)
    BY <1>1 DEF AnswerOK
  <2>2. \A s \in Shelves : q.counts[s] # Nil =>
          /\ q.counts[s] \in Nat
          /\ Cardinality(Stayed(p, s)) =< q.counts[s]
          /\ q.counts[s] =< Cardinality(Possible(p, s))
    <3> TAKE s \in Shelves
    <3> HAVE q.counts[s] # Nil
    <3>1. /\ q.counts[s] \in Nat
          /\ Cardinality(Stayed(o, s)) =< q.counts[s]
          /\ q.counts[s] =< Cardinality(Possible(o, s))
      <4>1. CASE q.counts[s] = r.counts[s]
        BY <2>1, <4>1 DEF CountsOK
      <4>2. ASSUME NEW C, q.counts[s] = Cardinality(C),
                   Stayed(o, s) \subseteq C, C \subseteq Possible(o, s)
            PROVE  /\ q.counts[s] \in Nat
                   /\ Cardinality(Stayed(o, s)) =< q.counts[s]
                   /\ q.counts[s] =< Cardinality(Possible(o, s))
        <5>1. Possible(o, s) \subseteq ListTickets
          BY <1>3 DEF Possible, Watch
        <5>2. IsFiniteSet(Possible(o, s))
          BY <5>1, ListAssumption, FS_Subset
        <5>3. IsFiniteSet(C)
          BY <4>2, <5>2, FS_Subset
        <5> QED BY <4>2, <5>2, <5>3, FS_Subset, FS_CardinalityType
      <4> QED BY <4>1, <4>2 DEF o
    <3> QED BY <1>3, <1>4, <3>1, ObserverSeesMore
  <2> QED BY <1>4, <2>1, <2>2 DEF CountsOK
<1>7. AnswerOK(q, p, belonged'[w])
  <2>1. \A t \in ListTickets : q.times[t] =< 1 /\ (q.times[t] > 0 => t \in p.ever)
    BY <1>1, <1>4, <1>5 DEF AnswerOK
  <2>2. \A k \in q.ask : AskedFor(q, k, belonged'[w])
    BY <1>2 DEF AskedFor
  <2> QED BY <1>2, <1>3, <1>6, <2>1, <2>2 DEF AnswerOK
<1>8. SeenOK(w)'
  <2>1. GroupsOf(q.who)' \subseteq belonged'[w] /\ Outer(w)' \subseteq p.ever
    BY <1>2, <1>3
  <2>2. q.about.by = "counts" => \A t \in p.always : desk'[t] = p.was[t]
    BY <1>1, <1>3 DEF SeenOK, o
  <2>3. p.always \subseteq Inner(w)'
    BY <1>3
  <2>4. q.about.by = "counts" /\ q.step = "count" => p.always \subseteq CountScope(q)'
    BY <1>4 DEF CountScope, ListAll, ListByReporter, o
  <2> HIDE DEF Inner, Outer, CountScope
  <2> QED BY <2>1, <2>2, <2>3, <2>4 DEF SeenOK, p
<1> QED BY <1>7, <1>8 DEF ListHolds, p

\* A request begins.
LEMMA AskHolds ==
  ASSUME ListInv, TablesOK', ObserversMove, NEW w \in Workers, NEW q \in ListRequest,
         listReq[w] = Nil, listReq'[w] = q, UNCHANGED <<desk, member>>,
         q.groups = {}, \A k \in q.ask : AskedFor(q, k, {}),
         \A t \in ListTickets : q.times[t] = 0,
         q.about.by = "counts" =>
           /\ q.term = Nil /\ q.ask = {} /\ q.step # "query"
           /\ q.step = "count" => RoleOf[q.who] # "staff"
           /\ \A s \in Shelves : q.counts[s] = Nil
  PROVE  ListHolds(w)'
<1> DEFINE p == watch'[w]
<1> SUFFICES ASSUME q # Nil PROVE ListHolds(w)'
  BY DEF ListHolds
<1>1. /\ GroupsOf(q.who)' \subseteq belonged'[w]
      /\ p \in Watch /\ p.was = desk /\ p.always = Inner(w)' /\ p.ever = Outer(w)'
  BY Looks
<1>2. Inner(w)' \subseteq Outer(w)'
  BY <1>1, InnerOuterNext
<1>3. AnswerOK(q, p, belonged'[w])
  BY <1>1, <1>2 DEF AnswerOK, CountsOK, AskedFor
<1>4. q.about.by = "counts" /\ q.step = "count" => Inner(w)' \subseteq CountScope(q)'
  <2>1. RoleOf[q.who] \in {"user", "staff", "admin"}
    BY ListAssumption DEF ListRequest
  <2> QED BY <2>1 DEF Inner, Scope, CountScope
<1> HIDE DEF Inner, Outer, CountScope
<1>5. SeenOK(w)'
  BY <1>1, <1>4 DEF SeenOK
<1> QED BY <1>3, <1>5 DEF ListHolds

\* One request moves, the desk and the groups stay.
LEMMA OneListMoves ==
  ASSUME ListInv, ObserversMove, NEW w \in Workers, NEW q \in ListRequest \cup {Nil},
         listReq' = [listReq EXCEPT ![w] = q], UNCHANGED <<desk, member>>,
         lists' \in 0..MaxLists, moves' = moves,
         listReq[w] # Nil /\ q # Nil => q.who = listReq[w].who,
         TablesOK' => ListHolds(w)'
  PROVE  ListInv'
<1>1. TablesOK'
  BY DEF ListInv, ListTypeOK, TablesOK
<1>2. \A v \in Workers : listReq'[v] = IF v = w THEN q ELSE listReq[v]
  BY DEF ListInv, ListTypeOK
<1>3. \A v \in Workers \ {w} : ListHolds(v)'
  BY <1>1, <1>2, OtherHolds
<1>4. ListTypeOK'
  BY <1>1, <1>2, ObserverTypes
<1> QED BY <1>1, <1>3, <1>4 DEF ListInv

LEMMA AsksKeeps ==
  ASSUME ListInv, ObserversMove, NEW w \in Workers, NEW u \in Users, NEW q \in Terms \cup {Nil},
         NEW about \in Query, NEW asked \in SUBSET Query, NEW step \in {"query", "groups", "count"},
         \A k \in asked : \/ k = about /\ k.by \in {"reporter", "group", "unassigned", "all"}
                          \/ about.by = "mine" /\ k = Ask("user", u),
         about.by = "counts" =>
           q = Nil /\ asked = {} /\ step # "query" /\ (step = "count" => RoleOf[u] # "staff"),
         Asks(w, u, q, about, asked, step)
  PROVE  ListInv'
<1> DEFINE r == [who |-> u, about |-> about, term |-> q, step |-> step, ask |-> asked, joined |-> FALSE,
                 times |-> [t \in ListTickets |-> 0], groups |-> {}, left |-> Shelves,
                 counts |-> [s \in Shelves |-> Nil]]
<1>1. r \in ListRequest
  BY DEF ListRequest
<1>2. /\ listReq[w] = Nil /\ listReq' = [listReq EXCEPT ![w] = r] /\ UNCHANGED <<desk, member>>
      /\ lists' \in 0..MaxLists /\ moves' = moves
  BY ListAssumption DEF Asks, ListInv, ListTypeOK
<1>3. listReq'[w] = r
  BY <1>2 DEF ListInv, ListTypeOK
<1>4. \A k \in r.ask : AskedFor(r, k, {})
  BY DEF AskedFor
<1>5. ASSUME TablesOK' PROVE ListHolds(w)'
  BY <1>1, <1>2, <1>3, <1>4, <1>5, AskHolds
<1> QED BY <1>1, <1>2, <1>5, OneListMoves

LEMMA ArrivalsKeepLists ==
  ASSUME ListInv, ObserversMove, NEW w \in Workers, NEW u \in Users,
         \/ \E q \in Terms \cup {Nil} :
              \/ HandleListOfReporter(w, u, q) \/ HandleListOfGroup(w, u, q)
              \/ HandleListQueue(w, u, q) \/ HandleListTickets(w, u, q)
         \/ HandleListStatuses(w, u)
  PROVE  ListInv'
<1>1. ASSUME NEW q \in Terms \cup {Nil}, NEW k \in Query,
             k.by \in {"reporter", "group", "unassigned", "all"}, AsksFor(w, u, q, k)
      PROVE  ListInv'
  BY <1>1, AsksKeeps DEF AsksFor
<1>2. \A v \in Users \cup Groups \cup {Nil} :
        \A by \in {"reporter", "user", "group", "unassigned", "all", "mine", "counts"} :
          Ask(by, v) \in Query /\ Ask(by, v).by = by
  BY DEF Query, Ask
<1>3. ASSUME NEW q \in Terms \cup {Nil}, HandleListOfReporter(w, u, q) PROVE ListInv'
  BY <1>1, <1>2, <1>3 DEF HandleListOfReporter
<1>4. ASSUME NEW q \in Terms \cup {Nil}, HandleListOfGroup(w, u, q) PROVE ListInv'
  BY <1>1, <1>2, <1>4 DEF HandleListOfGroup
<1>5. ASSUME NEW q \in Terms \cup {Nil}, HandleListQueue(w, u, q) PROVE ListInv'
  BY <1>1, <1>2, <1>5 DEF HandleListQueue
<1>6. ASSUME NEW q \in Terms \cup {Nil}, HandleListTickets(w, u, q) PROVE ListInv'
  <2>1. CASE RoleOf[u] = "user"
    BY <1>1, <1>2, <1>6, <2>1 DEF HandleListTickets
  <2>2. CASE RoleOf[u] # "user"
    <3>1. Asks(w, u, q, Ask("mine", u), {Ask("user", u)}, "query")
      BY <1>6, <2>2 DEF HandleListTickets
    <3> QED BY <1>2, <3>1, AsksKeeps
  <2> QED BY <2>1, <2>2
<1>7. CASE HandleListStatuses(w, u)
  <2> DEFINE step == IF RoleOf[u] = "staff" THEN "groups" ELSE "count"
  <2>1. Asks(w, u, Nil, Ask("counts", u), {}, step)
    BY <1>7 DEF HandleListStatuses
  <2>2. step \in {"query", "groups", "count"} /\ step # "query" /\ (step = "count" => RoleOf[u] # "staff")
    OBVIOUS
  <2> HIDE DEF step
  <2> QED BY <1>2, <2>1, <2>2, AsksKeeps
<1> QED BY <1>3, <1>4, <1>5, <1>6, <1>7

\* A request goes on.
LEMMA ListGoesKeeps ==
  ASSUME ListInv, ObserversMove, NEW w \in Workers, NEW q \in ListRequest,
         listReq[w] # Nil, listReq[w].step # "done", listReq' = [listReq EXCEPT ![w] = q],
         UNCHANGED <<desk, member, lists, moves>>,
         q.who = listReq[w].who, q.about = listReq[w].about, q.term = listReq[w].term,
         q.groups \subseteq belonged[w],
         \A k \in q.ask : AskedFor(q, k, belonged[w]),
         \A t \in ListTickets :
           q.times[t] =< 1 /\ (q.times[t] > 0 => listReq[w].times[t] > 0 \/ t \in Outer(w)),
         q.about.by = "counts" => q.ask = {} /\ q.step # "query",
         q.about.by = "counts" => \A s \in Shelves : q.counts[s] # Nil =>
           \/ q.counts[s] = listReq[w].counts[s]
           \/ \E C : /\ q.counts[s] = Cardinality(C)
                     /\ Stayed(watch[w], s) \subseteq C /\ C \subseteq Possible(watch[w], s),
         q.about.by = "counts" /\ q.step = "count" => watch[w].always \subseteq CountScope(q)
  PROVE  ListInv'
<1>1. listReq'[w] = q /\ lists' \in 0..MaxLists
  BY DEF ListInv, ListTypeOK
<1>2. ASSUME TablesOK' PROVE ListHolds(w)'
  BY <1>1, <1>2, StepHolds
<1> QED BY <1>1, <1>2, OneListMoves

LEMMA RunQueryKeeps ==
  ASSUME ListInv, ObserversMove, NEW w \in Workers, RunQuery(w)
  PROVE  ListInv'
<1> DEFINE r == listReq[w]
<1>1. /\ r \in ListRequest /\ r # Nil /\ r.step = "query"
      /\ AnswerOK(r, watch[w], belonged[w]) /\ SeenOK(w) /\ belonged[w] \subseteq Groups
  BY DEF RunQuery, ListInv, ListTypeOK, ListHolds
<1>2. PICK k \in r.ask :
        LET n == [r EXCEPT !.ask = @ \ {k}, !.times = Merged(@, Page(k, r.term))]
        IN listReq' = [listReq EXCEPT ![w] = [n EXCEPT !.step = After(n)]]
  BY DEF RunQuery
<1> DEFINE n == [r EXCEPT !.ask = @ \ {k}, !.times = Merged(@, Page(k, r.term))]
           q == [n EXCEPT !.step = After(n)]
<1>3. listReq' = [listReq EXCEPT ![w] = q] /\ UNCHANGED <<desk, member, lists, moves>>
  BY <1>2 DEF RunQuery
<1>4. k \in Query /\ AskedFor(r, k, belonged[w]) /\ r.about.by # "counts"
  BY <1>1 DEF ListRequest, AnswerOK, CountsOK
<1>5. Page(k, r.term) \subseteq Outer(w)
  BY <1>1, <1>4, AskedWithin DEF Outer, ListInv
<1>6. /\ Merged(r.times, Page(k, r.term)) \in [ListTickets -> Nat]
      /\ \A t \in ListTickets :
           /\ Merged(r.times, Page(k, r.term))[t] =< 1
           /\ Merged(r.times, Page(k, r.term))[t] > 0 => r.times[t] > 0 \/ t \in Outer(w)
  <2> HIDE DEF Outer, Page
  <2> QED BY <1>1, <1>5 DEF Merged, AnswerOK, ListRequest
<1>7. After(n) \in {"query", "groups", "count", "done"}
  BY DEF After
<1> HIDE DEF After, Merged, Page
<1>8. /\ n \in ListRequest /\ n.times = Merged(r.times, Page(k, r.term)) /\ n.ask = r.ask \ {k}
      /\ n.who = r.who /\ n.about = r.about /\ n.term = r.term /\ n.groups = r.groups
  BY <1>1, <1>6 DEF ListRequest
<1> HIDE DEF n
<1>9. /\ q \in ListRequest /\ q.times = n.times /\ q.ask = n.ask
      /\ q.who = r.who /\ q.about = r.about /\ q.term = r.term /\ q.groups = r.groups
  BY <1>7, <1>8 DEF ListRequest
<1>10. q.groups \subseteq belonged[w] /\ \A j \in q.ask : AskedFor(q, j, belonged[w])
  BY <1>1, <1>8, <1>9 DEF AnswerOK, AskedFor
<1> HIDE DEF q
<1>11. \A t \in ListTickets :
         q.times[t] =< 1 /\ (q.times[t] > 0 => r.times[t] > 0 \/ t \in Outer(w))
  BY <1>6, <1>8, <1>9
<1>12. q.about.by # "counts" /\ r.step # "done"
  BY <1>1, <1>4, <1>9
<1> HIDE DEF Outer, r
<1> QED BY <1>1, <1>3, <1>9, <1>10, <1>11, <1>12, ListGoesKeeps DEF r

LEMMA ReadGroupsKeeps ==
  ASSUME ListInv, ObserversMove, NEW w \in Workers, ReadGroups(w)
  PROVE  ListInv'
<1> DEFINE r == listReq[w]
           o == watch[w]
           gs == GroupsOf(r.who)
           asked == IF r.about.by = "mine" THEN {Ask("group", g) : g \in gs} ELSE {}
           n == [r EXCEPT !.groups = gs, !.joined = TRUE, !.ask = asked]
           q == [n EXCEPT !.step = After(n)]
<1>1. /\ r \in ListRequest /\ r # Nil /\ r.step = "groups"
      /\ AnswerOK(r, o, belonged[w]) /\ SeenOK(w)
      /\ listReq' = [listReq EXCEPT ![w] = q] /\ UNCHANGED <<desk, member, lists, moves>>
  BY DEF ReadGroups, ListInv, ListTypeOK, ListHolds
<1>2. gs \subseteq Groups /\ gs \subseteq belonged[w] /\ asked \subseteq Query
  <2>1. gs \subseteq Groups
    BY DEF GroupsOf
  <2>2. gs \subseteq belonged[w]
    BY <1>1 DEF SeenOK
  <2> HIDE DEF gs
  <2> QED BY <2>1, <2>2 DEF Ask, Query
<1>3. After(n) \in {"query", "groups", "count", "done"}
  BY DEF After
<1> HIDE DEF gs, asked
<1>4. /\ n \in ListRequest /\ n.times = r.times /\ n.ask = asked /\ n.counts = r.counts
      /\ n.who = r.who /\ n.about = r.about /\ n.term = r.term /\ n.groups = gs
  BY <1>1, <1>2 DEF ListRequest
<1>5. n.about.by = "counts" => After(n) = "count"
  BY DEF After
<1> HIDE DEF n, After
<1>6. /\ q \in ListRequest /\ q.times = r.times /\ q.ask = asked /\ q.counts = r.counts
      /\ q.who = r.who /\ q.about = r.about /\ q.term = r.term /\ q.groups = gs
      /\ q.about.by = "counts" => q.step = "count"
  BY <1>3, <1>4, <1>5 DEF ListRequest
<1> HIDE DEF q
<1>7. \A k \in q.ask : AskedFor(q, k, belonged[w])
  BY <1>2, <1>6 DEF AskedFor, asked
<1>8. \A t \in ListTickets : q.times[t] =< 1
  BY <1>1, <1>6 DEF AnswerOK
<1>9. q.about.by = "counts" => q.ask = {} /\ q.step # "query"
  BY <1>6 DEF asked
<1>10. ASSUME q.about.by = "counts" PROVE o.always \subseteq CountScope(q)
  <2>1. r.term = Nil /\ o.always \subseteq Inner(w)
    BY <1>1, <1>6, <1>10 DEF AnswerOK, CountsOK, SeenOK
  <2>2. RoleOf[r.who] \in {"user", "staff", "admin"}
    BY <1>1, ListAssumption DEF ListRequest
  <2>3. Inner(w) \subseteq CountScope(q)
    BY <1>6, <1>10, <2>1, <2>2 DEF Inner, Scope, CountScope, ListByAssigneeUser, ListByAssigneeGroup, gs
  <2> QED BY <2>1, <2>3
<1> QED BY <1>1, <1>2, <1>6, <1>7, <1>8, <1>9, <1>10, ListGoesKeeps

LEMMA CountNextKeeps ==
  ASSUME ListInv, ObserversMove, NEW w \in Workers, CountNext(w)
  PROVE  ListInv'
<1> DEFINE r == listReq[w]
           o == watch[w]
<1>1. /\ r \in ListRequest /\ r # Nil /\ r.step = "count"
      /\ AnswerOK(r, o, belonged[w]) /\ SeenOK(w) /\ UNCHANGED <<desk, member, lists, moves>>
  BY DEF CountNext, ListInv, ListTypeOK, ListHolds
<1>a. PICK s \in r.left : \E n \in {CountFor(r, s), Nil} :
        listReq' = [listReq EXCEPT ![w].left = @ \ {s}, ![w].counts[s] = n,
                                   ![w].step = IF r.left = {s} THEN "done" ELSE @]
  BY DEF CountNext
<1>2. PICK n \in {CountFor(r, s), Nil} :
        listReq' = [listReq EXCEPT ![w].left = @ \ {s}, ![w].counts[s] = n,
                                   ![w].step = IF r.left = {s} THEN "done" ELSE @]
  BY <1>a
<1> DEFINE C == {t \in CountScope(r) : desk[t].status = s}
           q == [r EXCEPT !.left = @ \ {s}, !.counts = [r.counts EXCEPT ![s] = n],
                          !.step = IF r.left = {s} THEN "done" ELSE @]
<1>3. RoleOf[r.who] \in {"user", "staff", "admin"} /\ s \in Shelves
  BY <1>1, <1>2, ListAssumption DEF ListRequest
<1>4. CountFor(r, s) = Cardinality(C)
  <2>1. CASE RoleOf[r.who] = "admin"
    BY <2>1 DEF CountFor, CountScope, CountTicketsByStatus
  <2>2. CASE RoleOf[r.who] = "staff"
    <3>1. C = {t \in ListAll : desk[t].status = s /\ (desk[t].user = r.who \/ desk[t].group \in r.groups)}
      BY <2>2 DEF CountScope
    <3> QED BY <2>2, <3>1 DEF CountFor, CountTicketsByStatusForAssignee
  <2>3. CASE RoleOf[r.who] = "user"
    <3>1. C = {t \in ListAll : desk[t].status = s /\ desk[t].reporter = r.who}
      BY <2>3 DEF CountScope, ListByReporter
    <3> QED BY <2>3, <3>1 DEF CountFor, CountTicketsByStatusForReporter
  <2> QED BY <1>3, <2>1, <2>2, <2>3
<1>5. C \subseteq ListTickets
  BY <1>3 DEF CountScope, ListAll, ListByReporter
<1>6. Cardinality(C) \in Nat
  BY <1>5, ListAssumption, FS_Subset, FS_CardinalityType
<1> HIDE DEF C
<1>7. /\ q \in ListRequest /\ q.times = r.times /\ q.ask = r.ask
      /\ q.who = r.who /\ q.about = r.about /\ q.term = r.term /\ q.groups = r.groups
      /\ q.counts = [r.counts EXCEPT ![s] = n] /\ q.step \in {"count", "done"}
  BY <1>1, <1>2, <1>3, <1>4, <1>6 DEF ListRequest
<1>8. listReq' = [listReq EXCEPT ![w] = q]
  BY <1>2 DEF ListInv, ListTypeOK
<1> HIDE DEF q
<1>9. /\ q.groups \subseteq belonged[w]
      /\ \A k \in q.ask : AskedFor(q, k, belonged[w])
      /\ \A t \in ListTickets : q.times[t] =< 1
      /\ q.about.by = "counts" => q.ask = {}
  BY <1>1, <1>7 DEF AnswerOK, AskedFor, CountsOK
<1>10. q.about.by = "counts" => o.always \subseteq CountScope(q) /\ o.always \subseteq CountScope(r)
  BY <1>1, <1>7 DEF SeenOK, CountScope
<1>11. ASSUME q.about.by = "counts", NEW x \in Shelves, q.counts[x] # Nil
       PROVE  \/ q.counts[x] = r.counts[x]
              \/ \E D : /\ q.counts[x] = Cardinality(D)
                        /\ Stayed(o, x) \subseteq D /\ D \subseteq Possible(o, x)
  <2>1. CASE x # s
    BY <1>1, <1>7, <2>1 DEF ListRequest
  <2>2. CASE x = s
    <3>1. q.counts[x] = Cardinality(C)
      BY <1>1, <1>2, <1>3, <1>4, <1>7, <1>11, <2>2 DEF ListRequest
    <3>2. \A t \in o.always : desk[t] = o.was[t]
      BY <1>1, <1>7, <1>11 DEF SeenOK
    <3>3. Stayed(o, x) \subseteq C
      BY <1>10, <1>11, <2>2, <3>2 DEF Stayed, C
    <3>4. CountScope(r) \subseteq Outer(w)
      <4>1. r.term = Nil /\ r.groups \subseteq belonged[w] /\ r.about.by = "counts"
        BY <1>1, <1>7, <1>11 DEF AnswerOK, CountsOK
      <4>2. r.groups \subseteq Groups
        BY <1>1 DEF ListRequest
      <4> QED BY <1>3, <4>1, <4>2 DEF Outer, Scope, CountScope, ListByAssigneeUser, ListByAssigneeGroup
    <3>5. CountScope(r) \subseteq o.ever
      BY <1>1, <3>4 DEF SeenOK
    <3>6. C \subseteq Possible(o, x)
      BY <2>2, <3>2, <3>5 DEF Possible, C
    <3> QED BY <3>1, <3>3, <3>6
  <2> QED BY <2>1, <2>2
<1> QED BY <1>1, <1>7, <1>8, <1>9, <1>10, <1>11, ListGoesKeeps

\* The desk goes on, or nothing happens.
LEMMA MovesKeepLists ==
  ASSUME ListInv, ObserversMove, UNCHANGED listReq,
         desk' \in [ListTickets -> Filed \cup {Nil}], member' \subseteq Users \X Groups,
         lists' \in 0..MaxLists, moves' \in 0..MaxMoves
  PROVE  ListInv'
<1>1. TablesOK'
  BY DEF ListInv, ListTypeOK, TablesOK
<1>2. \A w \in Workers : ListHolds(w)'
  BY <1>1, OtherHolds
<1>3. ListTypeOK'
  BY <1>1, ObserverTypes
<1> QED BY <1>2, <1>3 DEF ListInv

LEMMA ListInductive ==
  ASSUME ListInv, [ListNext]_listVars
  PROVE  ListInv'
<1>t. ListTypeOK
  BY DEF ListInv
<1>1. CASE UNCHANGED listVars
  <2>1. UNCHANGED <<desk, member, listReq, belonged, watch, lists, moves>>
    BY <1>1 DEF listVars
  <2>2. ListTypeOK'
    BY <1>t, <2>1 DEF ListTypeOK
  <2>3. ASSUME NEW w \in Workers PROVE ListHolds(w)'
    <3>1. Inner(w)' = Inner(w) /\ Outer(w)' = Outer(w)
      BY <2>1 DEF Inner, Outer, Scope, GroupsOf, ListAll, ListByReporter, ListByAssigneeUser,
         ListByAssigneeGroup, Rows, ListUnassigned, SearchAll, SearchByReporter,
         SearchByAssigneeUser, SearchByAssigneeGroup, SearchUnassigned
    <3>2. CountScope(listReq[w])' = CountScope(listReq[w])
          /\ GroupsOf(listReq[w].who)' = GroupsOf(listReq[w].who)
      BY <2>1 DEF CountScope, ListAll, ListByReporter, GroupsOf
    <3>3. ListHolds(w)
      BY DEF ListInv
    <3> HIDE DEF Inner, Outer, CountScope, GroupsOf
    <3> QED BY <2>1, <3>1, <3>2, <3>3 DEF ListHolds, SeenOK
  <2> QED BY <2>2, <2>3 DEF ListInv
<1>2. CASE ListNext
  <2>o. ObserversMove
    BY <1>2 DEF ListNext, ObserversMove
  <2>1. ASSUME NEW w \in Workers, NEW u \in Users,
               \/ \E q \in Terms \cup {Nil} :
                    \/ HandleListOfReporter(w, u, q) \/ HandleListOfGroup(w, u, q)
                    \/ HandleListQueue(w, u, q) \/ HandleListTickets(w, u, q)
               \/ HandleListStatuses(w, u)
        PROVE  ListInv'
    BY <2>o, <2>1, ArrivalsKeepLists
  <2>2. ASSUME NEW w \in Workers, RunQuery(w) \/ ReadGroups(w) \/ CountNext(w) PROVE ListInv'
    BY <2>o, <2>2, RunQueryKeeps, ReadGroupsKeeps, CountNextKeeps
  <2>3. ASSUME NEW w \in Workers, ListAnswered(w) PROVE ListInv'
    <3>1. /\ listReq' = [listReq EXCEPT ![w] = Nil] /\ UNCHANGED <<desk, member>>
          /\ lists' \in 0..MaxLists /\ moves' = moves
      BY <1>t, <2>3 DEF ListAnswered, Ended, ListTypeOK
    <3>2. ListHolds(w)'
      BY <1>t, <3>1 DEF ListHolds, ListTypeOK
    <3> QED BY <2>o, <3>1, <3>2, OneListMoves
  <2>4. ASSUME NEW t \in ListTickets, CreateTicket(t) PROVE ListInv'
    <3>1. /\ UNCHANGED <<listReq, member, lists>> /\ moves \in Nat /\ moves' \in 0..MaxMoves
      BY <1>t, <2>4, ListAssumption DEF CreateTicket, Moves, ListTypeOK
    <3>2. desk' \in [ListTickets -> Filed \cup {Nil}]
      BY <1>t, <2>4, <3>1 DEF CreateTicket, ListTypeOK, Filed
    <3> QED BY <1>t, <2>o, <3>1, <3>2, MovesKeepLists DEF ListTypeOK
  <2>5. ASSUME NEW t \in ListTickets, UpdateTicket(t) PROVE ListInv'
    <3>1. UNCHANGED <<listReq, member, lists>> /\ moves' \in 0..MaxMoves
      BY <1>t, <2>5, ListAssumption DEF UpdateTicket, Moves, ListTypeOK
    <3>2. desk' \in [ListTickets -> Filed \cup {Nil}]
      <4>1. desk[t] \in Filed
        BY <1>t, <2>5 DEF UpdateTicket, ListTypeOK
      <4>2. PICK row \in Filed : desk' = [desk EXCEPT ![t] = row]
        <5>1. ASSUME NEW u \in Users \cup {Nil}, NEW g \in Groups \cup {Nil},
                     desk' = [desk EXCEPT ![t].user = u, ![t].group = g]
              PROVE  \E row \in Filed : desk' = [desk EXCEPT ![t] = row]
          <6>1. [desk[t] EXCEPT !.user = u, !.group = g] \in Filed
            BY <4>1 DEF Filed
          <6>2. desk' = [desk EXCEPT ![t] = [desk[t] EXCEPT !.user = u, !.group = g]]
            BY <1>t, <5>1 DEF ListTypeOK
          <6> QED BY <6>1, <6>2
        <5>2. ASSUME NEW s \in Shelves, desk' = [desk EXCEPT ![t].status = s]
              PROVE  \E row \in Filed : desk' = [desk EXCEPT ![t] = row]
          <6>1. [desk[t] EXCEPT !.status = s] \in Filed
            BY <4>1 DEF Filed
          <6> QED BY <5>2, <6>1
        <5> QED BY <2>5, <5>1, <5>2 DEF UpdateTicket
      <4> QED BY <1>t, <4>2 DEF ListTypeOK
    <3> QED BY <1>t, <2>o, <3>1, <3>2, MovesKeepLists DEF ListTypeOK
  <2>6. ASSUME NEW u \in Users, NEW g \in Groups, AddGroupMember(u, g) \/ RemoveGroupMember(u, g)
        PROVE  ListInv'
    <3>1. /\ UNCHANGED <<listReq, desk, lists>> /\ moves' \in 0..MaxMoves
          /\ member' \subseteq Users \X Groups
      BY <1>t, <2>6, ListAssumption DEF AddGroupMember, RemoveGroupMember, Moves, ListTypeOK
    <3> QED BY <1>t, <2>o, <3>1, MovesKeepLists DEF ListTypeOK
  <2>7. CASE ListExhausted
    BY <1>t, <2>o, <2>7, MovesKeepLists DEF ListExhausted, ListTypeOK
  <2> QED BY <1>2, <2>1, <2>2, <2>3, <2>4, <2>5, <2>6, <2>7 DEF ListNext, ListStep
<1> QED BY <1>1, <1>2

LEMMA ListInitially == ListInit => ListInv
<1> SUFFICES ASSUME ListInit PROVE ListInv
  OBVIOUS
<1>1. ListTypeOK
  BY ListAssumption, SeedAssumption DEF ListInit, ListTypeOK
<1> QED BY <1>1 DEF ListInv, ListInit, ListHolds

LEMMA ListInvariant == ListSpec => []ListInv
<1>1. ListInv /\ [ListNext]_listVars => ListInv'
  BY ListInductive
<1> QED BY <1>1, ListInitially, PTL DEF ListSpec

\* Every state of the lists has its types: each statement finds its caller, its scope and
\* its term, and every count is one, for any number of tickets and requests.
THEOREM ListTypes == ListSpec => []ListTypeOK
<1>1. ListInv => ListTypeOK
  BY DEF ListInv
<1> QED BY <1>1, ListInvariant, PTL

\* No ticket is listed twice, however many groups the caller is in and wherever tickets go
\* between the statements of handleListTickets.
THEOREM NothingListedTwice == ListSpec => []ListedOnce
<1>1. ListInv => ListedOnce
  BY DEF ListInv, ListHolds, AnswerOK, ListedOnce, Shown
<1> QED BY <1>1, ListInvariant, PTL

\* What is listed was in the scope the caller asked for at some moment of the request.
THEOREM ListedTicketsWereInScope == ListSpec => []ListedWasInScope
<1>1. ListInv => ListedWasInScope
  BY DEF ListInv, ListHolds, AnswerOK, ListedWasInScope, Shown
<1> QED BY <1>1, ListInvariant, PTL

\* The count of a status lies between the tickets that stayed in it and in the scope of
\* the caller, and those together with the ones that moved (handleListStatuses).
THEOREM CountsAreBracketed == ListSpec => []CountsBracketed
<1>1. ASSUME ListInv, NEW w \in Workers, listReq[w] # Nil, listReq[w].about.by = "counts",
             NEW s \in Shelves, listReq[w].counts[s] # Nil
      PROVE  LET o == watch[w]
                 stayed == {t \in o.always : o.was[t].status = s}
                 moved == o.ever \ o.always
             IN  /\ listReq[w].counts[s] >= Cardinality(stayed)
                 /\ listReq[w].counts[s] =< Cardinality(stayed) + Cardinality(moved)
  <2> DEFINE o == watch[w]
             n == listReq[w].counts[s]
             moved == o.ever \ o.always
  <2>1. /\ o \in Watch /\ o.always \subseteq o.ever /\ n \in Nat
        /\ Cardinality(Stayed(o, s)) =< n /\ n =< Cardinality(Possible(o, s))
    BY <1>1 DEF ListInv, ListHolds, AnswerOK, CountsOK
  <2>2. /\ Stayed(o, s) \subseteq ListTickets /\ moved \subseteq ListTickets
        /\ Possible(o, s) = Stayed(o, s) \cup moved /\ Stayed(o, s) \cap moved = {}
    BY <2>1 DEF Stayed, Possible, Watch
  <2>3. IsFiniteSet(Stayed(o, s)) /\ IsFiniteSet(moved)
    BY <2>2, ListAssumption, FS_Subset
  <2>4. /\ Cardinality(Stayed(o, s)) \in Nat /\ Cardinality(moved) \in Nat
        /\ Cardinality(Possible(o, s)) = Cardinality(Stayed(o, s)) + Cardinality(moved)
    <3>1. Cardinality(Stayed(o, s)) \in Nat /\ Cardinality(moved) \in Nat
      BY <2>3, FS_CardinalityType
    <3>2. Cardinality(Stayed(o, s) \cup moved)
            = Cardinality(Stayed(o, s)) + Cardinality(moved) - Cardinality(Stayed(o, s) \cap moved)
      BY <2>3, FS_Union
    <3>3. Cardinality(Stayed(o, s) \cap moved) = 0
      BY <2>2, FS_EmptySet
    <3> HIDE DEF moved
    <3> QED BY <2>2, <3>1, <3>2, <3>3
  <2> HIDE DEF moved, n
  <2>5. n >= Cardinality(Stayed(o, s)) /\ n =< Cardinality(Stayed(o, s)) + Cardinality(moved)
    BY <2>1, <2>4
  <2> QED BY <2>5 DEF Stayed, moved, n
<1>2. ListInv => CountsBracketed
  BY <1>1 DEF CountsBracketed
<1> QED BY <1>2, ListInvariant, PTL

-----------------------------------------------------------------------------
(* Nothing that stays is left out.                                         *)

LEMMA HasMinimal ==
  ASSUME NEW S, NEW T \in SUBSET FiniteSubsetsOf(S), T # {}
  PROVE  \E A \in T : \A B \in T : ~(B \subseteq A /\ B # A)
<1>1. \E A \in T : \A B \in T : <<B, A>> \notin StrictSubsetOrdering(S)
  BY FS_StrictSubsetOrderingWellFounded, WFMin
<1> QED BY <1>1 DEF StrictSubsetOrdering, FiniteSubsetsOf

\* Where a list leaves a ticket out, it is full: the first one left out has as many
\* tickets before it as a page holds, and they are on the page.
LEMMA PageFillsUp ==
  ASSUME ListTypeOK, NEW k \in Query, k.by \notin {"mine", "counts"}, NEW q \in Terms \cup {Nil},
         NEW t \in Rows(k, q), t \notin Page(k, q)
  PROVE  Cardinality(Page(k, q)) >= Limit
<1> DEFINE rows == Rows(k, q)
           before(x) == {u \in rows : Precedes(q, u, x)}
           later == {before(x) : x \in rows \ Page(k, q)}
<1>1. rows \subseteq ListTickets /\ IsFiniteSet(rows) /\ rows \subseteq ListAll
  <2>1. rows \subseteq ListAll
    BY DEF Query, Rows, ListAll, ListByReporter, ListByAssigneeUser, ListByAssigneeGroup,
       ListUnassigned, SearchAll, SearchByReporter, SearchByAssigneeUser, SearchByAssigneeGroup,
       SearchUnassigned
  <2> QED BY <2>1, ListAssumption, FS_Subset DEF ListAll
<1>2. \A x \in rows : IsFiniteSet(before(x)) /\ Cardinality(before(x)) \in Nat
  BY <1>1, FS_Subset, FS_CardinalityType
<1>3. \A x, y, z \in rows :
        ~Precedes(q, x, x) /\ (Precedes(q, x, y) /\ Precedes(q, y, z) => Precedes(q, x, z))
  <2> DEFINE rank(x) == IF q = Nil \/ q \in Wordless THEN 0 ELSE Relevance[q][x]
  <2>1. \A x \in rows : rank(x) \in Nat /\ desk[x].created \in Int
    BY <1>1, ListAssumption DEF ListTypeOK, Filed, ListAll
  <2>2. \A x, y : Precedes(q, x, y) <=>
          rank(x) > rank(y) \/ (rank(x) = rank(y) /\ desk[x].created > desk[y].created)
    BY DEF Precedes
  <2> HIDE DEF rank, rows
  <2> QED BY <2>1, <2>2
<1>4. \A x \in rows : x \in Page(k, q) <=> Cardinality(before(x)) < Limit
  BY DEF Page
<1> HIDE DEF rows
<1>5. later \in SUBSET FiniteSubsetsOf(rows) /\ later # {}
  BY <1>2 DEF rows, FiniteSubsetsOf
<1>6. PICK A \in later : \A B \in later : ~(B \subseteq A /\ B # A)
  <2> HIDE DEF later
  <2> QED BY <1>5, HasMinimal
<1>7. PICK x \in rows \ Page(k, q) : A = before(x)
  OBVIOUS
<1>8. ASSUME NEW u \in before(x) PROVE u \in Page(k, q)
  <2>1. before(u) \subseteq before(x) /\ before(u) # before(x) /\ u \in rows
    BY <1>3, <1>7, <1>8
  <2>2. before(u) \notin later
    BY <1>6, <1>7, <2>1
  <2> QED BY <2>1, <2>2
<1>9. Page(k, q) \subseteq rows
  BY DEF Page, rows
<1>10. /\ IsFiniteSet(Page(k, q)) /\ Cardinality(before(x)) <= Cardinality(Page(k, q))
       /\ Cardinality(Page(k, q)) \in Nat
  BY <1>1, <1>8, <1>9, FS_Subset, FS_CardinalityType
<1>11. Cardinality(before(x)) >= Limit /\ Cardinality(before(x)) \in Nat
  <2>1. Cardinality(before(x)) \in Nat /\ ~(Cardinality(before(x)) < Limit)
    BY <1>2, <1>4, <1>7
  <2> HIDE DEF before
  <2> QED BY <2>1, ListAssumption
<1> HIDE DEF before
<1> QED BY <1>10, <1>11, ListAssumption

ListedSoFar(r) == {t \in ListTickets : r.times[t] > 0}

\* A statement to come finds t: the one the list is of; with "mine" the one for the
\* caller, the groups, or the one for the group of t.
StillToCome(r, t) ==
  \/ r.about.by # "mine" /\ r.ask = {r.about}
  \/ r.about.by = "mine" /\ ~r.joined /\ (desk[t].user = r.who => Ask("user", r.who) \in r.ask)
  \/ r.about.by = "mine" /\ r.joined /\ Ask("group", desk[t].group) \in r.ask

Phase(r) ==
  /\ r.step # "count"
  /\ r.step = "groups" => r.about.by = "mine" /\ ~r.joined /\ r.ask = {}
  /\ r.step = "done" => r.ask = {} /\ (r.about.by = "mine" => r.joined)

SteadyHolds(w) ==
  LET r == listReq[w] IN
  r # Nil /\ r.about.by # "counts" =>
    /\ Phase(r)
    /\ \/ Cardinality(ListedSoFar(r)) >= Limit
       \/ \A t \in watch[w].always : t \in ListedSoFar(r) \/ StillToCome(r, t)

SteadyInv == ListInv /\ \A w \in Workers : SteadyHolds(w)

LEMMA ListedGrows ==
  ASSUME NEW r \in ListRequest, NEW q \in ListRequest,
         \A t \in ListTickets : r.times[t] > 0 => q.times[t] > 0
  PROVE  /\ ListedSoFar(r) \subseteq ListedSoFar(q)
         /\ Cardinality(ListedSoFar(r)) >= Limit => Cardinality(ListedSoFar(q)) >= Limit
<1>1. ListedSoFar(r) \subseteq ListedSoFar(q) /\ ListedSoFar(q) \subseteq ListTickets
  BY DEF ListedSoFar
<1>2. /\ IsFiniteSet(ListedSoFar(q)) /\ IsFiniteSet(ListedSoFar(r))
      /\ Cardinality(ListedSoFar(r)) =< Cardinality(ListedSoFar(q))
      /\ Cardinality(ListedSoFar(r)) \in Nat /\ Cardinality(ListedSoFar(q)) \in Nat
  BY <1>1, ListAssumption, FS_Subset, FS_CardinalityType
<1> QED BY <1>1, <1>2, ListAssumption

\* A request that is not at a statement.
LEMMA OtherSteady ==
  ASSUME ListInv, TablesOK', ObserversMove, NEW w \in Workers, SteadyHolds(w),
         listReq'[w] = listReq[w]
  PROVE  SteadyHolds(w)'
<1> DEFINE r == listReq[w]
<1> SUFFICES ASSUME r # Nil, r.about.by # "counts" PROVE SteadyHolds(w)'
  BY DEF SteadyHolds
<1>1. CASE r.step = "done"
  <2>1. watch'[w] = watch[w]
    BY <1>1, Sees
  <2> QED BY <1>1, <2>1 DEF SteadyHolds, Phase, StillToCome, ListedSoFar
<1>2. CASE r.step # "done"
  <2>1. \A t \in watch'[w].always : t \in watch[w].always /\ desk'[t] = desk[t]
    BY <1>2, Sees
  <2> QED BY <2>1 DEF SteadyHolds, Phase, StillToCome, ListedSoFar
<1> QED BY <1>1, <1>2

\* A request runs a statement.
LEMMA StepSteady ==
  ASSUME ListInv, TablesOK', ObserversMove, NEW w \in Workers, SteadyHolds(w),
         listReq[w] # Nil, listReq[w].step # "done", listReq[w].about.by # "counts",
         NEW q \in ListRequest, listReq'[w] = q, desk' = desk,
         q.who = listReq[w].who, q.about = listReq[w].about, Phase(q),
         \A t \in ListTickets : listReq[w].times[t] > 0 => q.times[t] > 0,
         \/ Cardinality(ListedSoFar(q)) >= Limit
         \/ \A t \in watch[w].always :
              StillToCome(listReq[w], t) => t \in ListedSoFar(q) \/ StillToCome(q, t)
  PROVE  SteadyHolds(w)'
<1> DEFINE r == listReq[w]
<1>1. r \in ListRequest
  BY DEF ListInv, ListTypeOK
<1>2. /\ ListedSoFar(r) \subseteq ListedSoFar(q)
      /\ Cardinality(ListedSoFar(r)) >= Limit => Cardinality(ListedSoFar(q)) >= Limit
  BY <1>1, ListedGrows
<1>3. q # Nil => watch'[w].always \subseteq watch[w].always
  BY Sees
<1>4. \A t : StillToCome(q, t)' <=> StillToCome(q, t)
  BY DEF StillToCome
<1> QED BY <1>2, <1>3, <1>4 DEF SteadyHolds

\* A statement lists the tickets it is asked for, or as many as a page holds.
LEMMA QueryFinds ==
  ASSUME ListInv, NEW w \in Workers, SteadyHolds(w), listReq[w] # Nil, listReq[w].step = "query",
         NEW k \in listReq[w].ask, NEW q \in ListRequest,
         q.who = listReq[w].who, q.about = listReq[w].about, q.joined = listReq[w].joined,
         q.ask = listReq[w].ask \ {k},
         \A t \in Page(k, listReq[w].term) : t \in ListTickets => q.times[t] > 0
  PROVE  \/ Cardinality(ListedSoFar(q)) >= Limit
         \/ \A t \in watch[w].always :
              StillToCome(listReq[w], t) => t \in ListedSoFar(q) \/ StillToCome(q, t)
<1> DEFINE r == listReq[w]
           page == Page(k, r.term)
<1>1. /\ r \in ListRequest /\ k \in Query /\ AskedFor(r, k, belonged[w]) /\ SeenOK(w)
      /\ r.term \in Terms \cup {Nil} /\ r.about.by # "counts"
  BY DEF ListInv, ListTypeOK, ListHolds, AnswerOK, CountsOK, ListRequest
<1>2. k.by \notin {"mine", "counts"}
  BY <1>1 DEF AskedFor, Ask
<1>3. page \subseteq Rows(k, r.term) /\ Rows(k, r.term) \subseteq ListTickets
  BY <1>1, <1>2, RowsWithin DEF Page
<1>4. page \subseteq ListedSoFar(q)
  BY <1>3 DEF ListedSoFar
<1>5. CASE page # Rows(k, r.term)
  <2>1. PICK t \in Rows(k, r.term) : t \notin page
    BY <1>3, <1>5
  <2>2. Cardinality(page) >= Limit
    BY <1>1, <1>2, <2>1, PageFillsUp DEF ListInv
  <2>3. /\ Cardinality(page) =< Cardinality(ListedSoFar(q))
        /\ Cardinality(page) \in Nat /\ Cardinality(ListedSoFar(q)) \in Nat
    <3>1. IsFiniteSet(ListedSoFar(q)) /\ IsFiniteSet(page)
      BY <1>4, ListAssumption, FS_Subset DEF ListedSoFar
    <3> QED BY <1>4, <3>1, FS_Subset, FS_CardinalityType
  <2> HIDE DEF page
  <2> QED BY <2>2, <2>3, ListAssumption
<1>6. CASE page = Rows(k, r.term)
  <2> SUFFICES ASSUME NEW t \in watch[w].always, StillToCome(r, t), ~StillToCome(q, t)
               PROVE  t \in Rows(k, r.term)
    BY <1>4, <1>6
  <2>1. t \in Inner(w)
    BY <1>1 DEF SeenOK
  <2>2. Rows(k, r.term) = IF r.term = Nil THEN Rows(k, Nil) ELSE Rows(k, Nil) \cap Matches(r.term)
    BY <1>1, <1>2, RowsWithin
  <2>3. r.term # Nil => t \in Matches(r.term)
    BY <2>1 DEF Inner, Scope
  <2>4. CASE r.about.by # "mine"
    <3>1. k = r.about
      BY <2>4 DEF StillToCome
    <3>2. t \in Rows(r.about, Nil)
      BY <1>1, <2>1, <2>4 DEF Inner, Scope
    <3> QED BY <2>2, <2>3, <3>1, <3>2
  <2>5. CASE r.about.by = "mine"
    <3>1. t \in ListAll
      BY <2>1, <2>5 DEF Inner, Scope, ListByAssigneeUser, ListByAssigneeGroup
    <3>2. \/ k = Ask("user", r.who) /\ desk[t].user = r.who
          \/ k = Ask("group", desk[t].group)
      BY <2>5 DEF StillToCome
    <3>3. t \in Rows(k, Nil)
      BY <3>1, <3>2 DEF Rows, Ask, ListByAssigneeUser, ListByAssigneeGroup
    <3> QED BY <2>2, <2>3, <3>3
  <2> QED BY <2>4, <2>5
<1> QED BY <1>5, <1>6

\* Where a list is when it goes on.
LEMMA AfterPhase ==
  ASSUME NEW n \in ListRequest, n.about.by # "counts"
  PROVE  /\ [n EXCEPT !.step = After(n)] \in ListRequest
         /\ Phase([n EXCEPT !.step = After(n)])
<1>1. /\ After(n) \in {"query", "groups", "done"}
      /\ After(n) = "groups" => n.ask = {} /\ n.about.by = "mine" /\ ~n.joined
      /\ After(n) = "done" => n.ask = {} /\ (n.about.by = "mine" => n.joined)
  BY DEF After
<1> HIDE DEF After
<1>2. [n EXCEPT !.step = After(n)] \in ListRequest
  BY <1>1 DEF ListRequest
<1> QED BY <1>1, <1>2 DEF Phase, ListRequest

LEMMA RunQuerySteady ==
  ASSUME ListInv, TablesOK', ObserversMove, NEW w \in Workers, SteadyHolds(w), RunQuery(w)
  PROVE  SteadyHolds(w)'
<1> DEFINE r == listReq[w]
<1>1. /\ r \in ListRequest /\ r # Nil /\ r.step = "query" /\ AnswerOK(r, watch[w], belonged[w])
  BY DEF RunQuery, ListInv, ListTypeOK, ListHolds
<1>2. PICK k \in r.ask :
        LET n == [r EXCEPT !.ask = @ \ {k}, !.times = Merged(@, Page(k, r.term))]
        IN listReq' = [listReq EXCEPT ![w] = [n EXCEPT !.step = After(n)]]
  BY DEF RunQuery
<1> DEFINE times == Merged(r.times, Page(k, r.term))
           n == [r EXCEPT !.ask = @ \ {k}, !.times = times]
           q == [n EXCEPT !.step = After(n)]
<1>3. listReq'[w] = q /\ desk' = desk
  BY <1>2 DEF RunQuery, ListInv, ListTypeOK
<1>4. /\ times \in [ListTickets -> Nat]
      /\ \A t \in ListTickets : (r.times[t] > 0 \/ t \in Page(k, r.term)) => times[t] > 0
  <2> HIDE DEF r
  <2>1. \A t \in ListTickets : r.times[t] \in Nat
    BY <1>1 DEF ListRequest
  <2> QED BY <2>1 DEF Merged
<1> HIDE DEF times
<1>5. /\ n \in ListRequest /\ n.who = r.who /\ n.about = r.about /\ n.joined = r.joined
      /\ n.ask = r.ask \ {k} /\ n.times = times /\ n.about.by # "counts"
  BY <1>1, <1>4 DEF ListRequest, AnswerOK, CountsOK
<1> HIDE DEF n
<1>6. /\ q \in ListRequest /\ Phase(q)
      /\ q.who = r.who /\ q.about = r.about /\ q.joined = r.joined
      /\ q.ask = r.ask \ {k} /\ q.times = times /\ q.about.by # "counts"
  <2>1. q \in ListRequest /\ Phase(q)
    BY <1>5, AfterPhase
  <2> QED BY <1>5, <2>1 DEF ListRequest
<1> HIDE DEF q
<1>7. \/ Cardinality(ListedSoFar(q)) >= Limit
      \/ \A t \in watch[w].always : StillToCome(r, t) => t \in ListedSoFar(q) \/ StillToCome(q, t)
  BY <1>1, <1>2, <1>4, <1>6, QueryFinds
<1> QED BY <1>1, <1>3, <1>4, <1>6, <1>7, StepSteady

LEMMA ReadGroupsSteady ==
  ASSUME ListInv, TablesOK', ObserversMove, NEW w \in Workers, SteadyHolds(w), ReadGroups(w),
         listReq[w].about.by # "counts"
  PROVE  SteadyHolds(w)'
<1> DEFINE r == listReq[w]
           gs == GroupsOf(r.who)
<1>1. /\ r \in ListRequest /\ r # Nil /\ r.step = "groups" /\ SeenOK(w)
      /\ r.about.by = "mine" /\ ~r.joined /\ r.ask = {} /\ gs \subseteq Groups
  BY DEF ReadGroups, ListInv, ListTypeOK, ListHolds, SteadyHolds, Phase, GroupsOf
<1> DEFINE asked == {Ask("group", g) : g \in gs}
           n == [r EXCEPT !.groups = gs, !.joined = TRUE, !.ask = asked]
           q == [n EXCEPT !.step = After(n)]
<1>2. listReq'[w] = q /\ desk' = desk
  BY <1>1 DEF ReadGroups, ListInv, ListTypeOK
<1> HIDE DEF gs
<1>3. asked \subseteq Query
  BY <1>1 DEF Ask, Query
<1> HIDE DEF asked
<1>4. /\ n \in ListRequest /\ n.who = r.who /\ n.about = r.about /\ n.joined
      /\ n.ask = asked /\ n.times = r.times /\ n.about.by # "counts"
  BY <1>1, <1>3 DEF ListRequest
<1> HIDE DEF n
<1>5. /\ q \in ListRequest /\ Phase(q)
      /\ q.who = r.who /\ q.about = r.about /\ q.joined
      /\ q.ask = asked /\ q.times = r.times
  <2>1. q \in ListRequest /\ Phase(q)
    BY <1>4, AfterPhase
  <2> QED BY <1>4, <2>1 DEF ListRequest
<1> HIDE DEF q
<1>6. ASSUME NEW t \in watch[w].always, StillToCome(r, t) PROVE StillToCome(q, t)
  <2>1. t \in Inner(w) /\ desk[t].user # r.who
    BY <1>1, <1>6 DEF SeenOK, StillToCome
  <2>2. desk[t].group \in gs
    BY <1>1, <2>1 DEF Inner, Scope, ListByAssigneeUser, ListByAssigneeGroup, gs
  <2> QED BY <1>1, <1>5, <2>2 DEF StillToCome, asked
<1> QED BY <1>1, <1>2, <1>5, <1>6, StepSteady

\* A request begins.
LEMMA AskSteady ==
  ASSUME ListInv, NEW w \in Workers, NEW u \in Users, NEW q, NEW about \in Query,
         NEW asked \in SUBSET Query, NEW step \in {"query", "groups", "count"},
         about.by # "counts" => step = "query",
         \/ about.by = "counts"
         \/ about.by # "mine" /\ asked = {about}
         \/ about.by = "mine" /\ asked = {Ask("user", u)},
         Asks(w, u, q, about, asked, step)
  PROVE  SteadyHolds(w)' /\ \A v \in Workers \ {w} : listReq'[v] = listReq[v]
<1> DEFINE r == [who |-> u, about |-> about, term |-> q, step |-> step, ask |-> asked, joined |-> FALSE,
                 times |-> [t \in ListTickets |-> 0], groups |-> {}, left |-> Shelves,
                 counts |-> [s \in Shelves |-> Nil]]
<1>1. listReq' = [listReq EXCEPT ![w] = r]
  BY DEF Asks
<1>2. listReq'[w] = r /\ \A v \in Workers \ {w} : listReq'[v] = listReq[v]
  BY <1>1 DEF ListInv, ListTypeOK
<1> QED BY <1>2 DEF SteadyHolds, Phase, StillToCome

LEMMA ArrivalsSteady ==
  ASSUME ListInv, NEW w \in Workers, NEW u \in Users,
         \/ \E q \in Terms \cup {Nil} :
              \/ HandleListOfReporter(w, u, q) \/ HandleListOfGroup(w, u, q)
              \/ HandleListQueue(w, u, q) \/ HandleListTickets(w, u, q)
         \/ HandleListStatuses(w, u)
  PROVE  SteadyHolds(w)' /\ \A v \in Workers \ {w} : listReq'[v] = listReq[v]
<1>1. ASSUME NEW q, NEW k \in Query, k.by \notin {"mine", "counts"}, AsksFor(w, u, q, k)
      PROVE  SteadyHolds(w)' /\ \A v \in Workers \ {w} : listReq'[v] = listReq[v]
  BY <1>1, AskSteady DEF AsksFor
<1>2. \A v \in Users \cup Groups \cup {Nil} :
        \A by \in {"reporter", "user", "group", "unassigned", "all", "mine", "counts"} :
          Ask(by, v) \in Query /\ Ask(by, v).by = by
  BY DEF Query, Ask
<1>3. CASE \E q \in Terms \cup {Nil} : HandleListOfReporter(w, u, q)
  BY <1>1, <1>2, <1>3 DEF HandleListOfReporter
<1>4. CASE \E q \in Terms \cup {Nil} : HandleListOfGroup(w, u, q)
  BY <1>1, <1>2, <1>4 DEF HandleListOfGroup
<1>5. CASE \E q \in Terms \cup {Nil} : HandleListQueue(w, u, q)
  BY <1>1, <1>2, <1>5 DEF HandleListQueue
<1>6. ASSUME NEW q \in Terms \cup {Nil}, HandleListTickets(w, u, q)
      PROVE  SteadyHolds(w)' /\ \A v \in Workers \ {w} : listReq'[v] = listReq[v]
  <2>1. CASE RoleOf[u] = "user"
    BY <1>1, <1>2, <1>6, <2>1 DEF HandleListTickets
  <2>2. CASE RoleOf[u] # "user"
    <3>1. Asks(w, u, q, Ask("mine", u), {Ask("user", u)}, "query")
      BY <1>6, <2>2 DEF HandleListTickets
    <3> QED BY <1>2, <3>1, AskSteady
  <2> QED BY <2>1, <2>2
<1>7. CASE HandleListStatuses(w, u)
  <2> DEFINE step == IF RoleOf[u] = "staff" THEN "groups" ELSE "count"
  <2>1. Asks(w, u, Nil, Ask("counts", u), {}, step) /\ step \in {"groups", "count"}
    BY <1>7 DEF HandleListStatuses
  <2> HIDE DEF step
  <2> QED BY <1>2, <2>1, AskSteady
<1> QED BY <1>3, <1>4, <1>5, <1>6, <1>7

LEMMA ReadGroupsAbout ==
  ASSUME ListInv, NEW w \in Workers, ReadGroups(w)
  PROVE  listReq'[w].about = listReq[w].about
<1> DEFINE r == listReq[w]
           gs == GroupsOf(r.who)
           asked == IF r.about.by = "mine" THEN {Ask("group", g) : g \in gs} ELSE {}
           n == [r EXCEPT !.groups = gs, !.joined = TRUE, !.ask = asked]
           q == [n EXCEPT !.step = After(n)]
<1>1. r \in ListRequest /\ listReq'[w] = q
  BY DEF ReadGroups, ListInv, ListTypeOK
<1> HIDE DEF gs, asked, After
<1> QED BY <1>1 DEF ListRequest

LEMMA CountNextAbout ==
  ASSUME ListInv, NEW w \in Workers, CountNext(w)
  PROVE  listReq'[w].about = listReq[w].about
<1>1. listReq[w] \in ListRequest /\ listReq[w] # Nil
  BY DEF CountNext, ListInv, ListTypeOK
<1>2. PICK s \in listReq[w].left : \E n \in {CountFor(listReq[w], s), Nil} :
        listReq' = [listReq EXCEPT ![w].left = @ \ {s}, ![w].counts[s] = n,
                                   ![w].step = IF listReq[w].left = {s} THEN "done" ELSE @]
  BY DEF CountNext
<1>3. PICK n \in {CountFor(listReq[w], s), Nil} :
        listReq' = [listReq EXCEPT ![w].left = @ \ {s}, ![w].counts[s] = n,
                                   ![w].step = IF listReq[w].left = {s} THEN "done" ELSE @]
  BY <1>2
<1> QED BY <1>1, <1>3 DEF ListInv, ListTypeOK, ListRequest

LEMMA SteadyInductive ==
  ASSUME SteadyInv, [ListNext]_listVars
  PROVE  SteadyInv'
<1>1. ListInv /\ ListInv'
  BY ListInductive DEF SteadyInv
<1>2. CASE UNCHANGED listVars
  <2>1. ASSUME NEW w \in Workers PROVE SteadyHolds(w)'
    BY <1>2 DEF listVars, SteadyInv, SteadyHolds, Phase, StillToCome, ListedSoFar
  <2> QED BY <1>1, <2>1 DEF SteadyInv
<1>3. CASE ListNext
  <2>1. TablesOK' /\ ObserversMove
    BY <1>1, <1>3 DEF ListInv, ListTypeOK, TablesOK, ListNext, ObserversMove
  <2> SUFFICES ASSUME NEW v \in Workers PROVE SteadyHolds(v)'
    BY <1>1 DEF SteadyInv
  <2>2. SteadyHolds(v)
    BY DEF SteadyInv
  <2>3. listReq'[v] = listReq[v] => SteadyHolds(v)'
    BY <1>1, <2>1, <2>2, OtherSteady
  <2>4. ASSUME NEW w \in Workers, NEW u \in Users,
               \/ \E q \in Terms \cup {Nil} :
                    \/ HandleListOfReporter(w, u, q) \/ HandleListOfGroup(w, u, q)
                    \/ HandleListQueue(w, u, q) \/ HandleListTickets(w, u, q)
               \/ HandleListStatuses(w, u)
        PROVE  SteadyHolds(v)'
    BY <1>1, <2>3, <2>4, ArrivalsSteady
  <2>5. ASSUME NEW w \in Workers, RunQuery(w) PROVE SteadyHolds(v)'
    <3>1. CASE v = w
      BY <1>1, <2>1, <2>2, <2>5, <3>1, RunQuerySteady
    <3>2. CASE v # w
      BY <1>1, <2>3, <2>5, <3>2 DEF RunQuery, ListInv, ListTypeOK
    <3> QED BY <3>1, <3>2
  <2>6. ASSUME NEW w \in Workers, ReadGroups(w) PROVE SteadyHolds(v)'
    <3>1. CASE v = w /\ listReq[w].about.by # "counts"
      BY <1>1, <2>1, <2>2, <2>6, <3>1, ReadGroupsSteady
    <3>2. CASE v = w /\ listReq[w].about.by = "counts"
      <4>1. listReq'[w].about = listReq[w].about
        BY <1>1, <2>6, ReadGroupsAbout
      <4> QED BY <3>2, <4>1 DEF SteadyHolds
    <3>3. CASE v # w
      BY <1>1, <2>3, <2>6, <3>3 DEF ReadGroups, ListInv, ListTypeOK
    <3> QED BY <3>1, <3>2, <3>3
  <2>7. ASSUME NEW w \in Workers, CountNext(w) PROVE SteadyHolds(v)'
    <3>1. CASE v = w
      <4>1. listReq[w].about.by = "counts"
        BY <2>2, <2>7, <3>1 DEF CountNext, SteadyHolds, Phase
      <4>2. listReq'[w].about = listReq[w].about
        BY <1>1, <2>7, CountNextAbout
      <4> QED BY <3>1, <4>1, <4>2 DEF SteadyHolds
    <3>2. CASE v # w
      BY <1>1, <2>3, <2>7, <3>2 DEF CountNext, ListInv, ListTypeOK
    <3> QED BY <3>1, <3>2
  <2>8. ASSUME NEW w \in Workers, ListAnswered(w) PROVE SteadyHolds(v)'
    BY <1>1, <2>3, <2>8 DEF ListAnswered, Ended, SteadyHolds, ListInv, ListTypeOK
  <2>9. ASSUME UNCHANGED listReq PROVE SteadyHolds(v)'
    BY <2>3, <2>9
  <2>10. (\E t \in ListTickets : CreateTicket(t) \/ UpdateTicket(t)) => UNCHANGED listReq
    BY DEF CreateTicket, UpdateTicket, Moves
  <2>11. (\E u \in Users, g \in Groups : AddGroupMember(u, g) \/ RemoveGroupMember(u, g))
           => UNCHANGED listReq
    BY DEF AddGroupMember, RemoveGroupMember, Moves
  <2>12. ListExhausted => UNCHANGED listReq
    BY DEF ListExhausted
  <2> QED BY <1>3, <2>4, <2>5, <2>6, <2>7, <2>8, <2>9, <2>10, <2>11, <2>12 DEF ListNext, ListStep
<1> QED BY <1>2, <1>3

\* A ticket that stays in the scope of a list and is not touched is in its answer, unless
\* the answer holds as many tickets as a page: however the statements of handleListTickets
\* and the changes to other tickets and to the groups interleave.
THEOREM NothingSteadyIsMissed == ListSpec => []SteadyIsListed
<1>1. ListInit => SteadyInv
  <2>1. ListInit => ListInv
    BY ListInitially
  <2> QED BY <2>1 DEF SteadyInv, SteadyHolds, ListInit
<1>2. SteadyInv /\ [ListNext]_listVars => SteadyInv'
  BY SteadyInductive
<1>3. SteadyInv => SteadyIsListed
  <2> SUFFICES ASSUME SteadyInv, NEW w \in Workers, Shown(w)
               PROVE  \/ watch[w].always \subseteq ListedSoFar(listReq[w])
                      \/ Cardinality(ListedSoFar(listReq[w])) >= Limit
    BY DEF SteadyIsListed, ListedSoFar
  <2>1. SteadyHolds(w) /\ listReq[w] # Nil /\ listReq[w].step = "done" /\ listReq[w].about.by # "counts"
    BY DEF SteadyInv, Shown
  <2> QED BY <2>1 DEF SteadyHolds, Phase, StillToCome
<1> QED BY <1>1, <1>2, <1>3, PTL DEF ListSpec
=============================================================================
