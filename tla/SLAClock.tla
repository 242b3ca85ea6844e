------------------------------ MODULE SLAClock ------------------------------
(***************************************************************************)
(* Service levels: policies set targets for tickets of a priority, of one  *)
(* category or of all; a ticket gets a record under the policy that fits   *)
(* it best when it is created, the first staff reply is noted in it, and   *)
(* an evaluation stamps the targets that were missed.                      *)
(*                                                                         *)
(* Policies are edited while records are attached to them.  Records are    *)
(* read, changed in memory and written whole.  Nothing in the program      *)
(* calls EvaluateBreaches yet, and nothing sets resolved_at of a record:   *)
(* the first is modelled as the schedule its comment speaks of, the second *)
(* column is left out.  Any statement may fail: the creation of a ticket   *)
(* and the storing of a reply go on without what it was for.               *)
(*                                                                         *)
(* Times are minutes.  Integers have the width Go and the columns give     *)
(* them: Half32 and Half64 stand for 2^31 and 2^63, Minute for the         *)
(* nanoseconds of a minute.                                                *)
(***************************************************************************)
EXTENDS DeskBase, Integers

CONSTANTS
  SLATickets,     \* ids of rows of tickets that may get a record
  Policies,       \* ids of rows of sla_policies
  Categories,     \* ids of rows of categories
  Priorities,     \* priorities clients send ...
  Known,          \* ... and those the columns accept
  Targets,        \* targets administrators send
  SeededPolicies, \* the policies administrators had set before
  Drafts,         \* what they send to create a policy ...
  Patches,        \* ... and to edit one: Nil for a field that is left out
  Half32, Half64, Minute,
  MaxSLARequests, \* bound on the number of requests
  MaxSLAFaults,   \* bound on the number of statements that fail
  MaxMinute       \* bound on the clock

ASSUME SLAAssumption ==
  /\ Known \subseteq Priorities
  /\ Targets \subseteq Int
  /\ {Half32, Half64, Minute} \subseteq Nat \ {0}
  /\ MaxSLARequests \in Nat /\ MaxSLAFaults \in Nat /\ MaxMinute \in Nat

Times == 0..MaxMinute

\* Two's complement: what is left of n in an INTEGER column, and of a
\* time.Duration of m minutes.
Int32(n)    == ((n + Half32) % (2 * Half32)) - Half32
Duration(m) == ((m * Minute + Half64) % (2 * Half64)) - Half64

\* The rows of sla_policies and sla_records, and what a ticket's row says here.
Policy == [priority : Priorities, category : Categories \cup {Nil}, response : Int, resolution : Int]
Record ==
  [policy : Policies, first : Times \cup {Nil},
   response : Times \cup {Nil}, resolution : Times \cup {Nil}]
Opened == [priority : Known, category : Categories, at : Times]

Patch ==
  [priority : Priorities \cup {Nil}, category : Categories \cup {Nil}, clear : BOOLEAN,
   response : Targets \cup {Nil}, resolution : Targets \cup {Nil}]

ASSUME SentAssumption ==
  /\ SeededPolicies \in [Policies -> [priority : Known, category : Categories \cup {Nil},
                                     response : Int, resolution : Int] \cup {Nil}]
  /\ Drafts \subseteq [priority : Priorities, category : Categories \cup {Nil},
                      response : Targets, resolution : Targets]
  /\ Patches \subseteq Patch

SLAOps == {"open", "reply", "evaluate", "create", "patch", "delete"}
SLASteps ==
  {"insertTicket", "find", "insertRecord", "getRecord", "readPolicy", "putRecord",
   "insertPolicy", "getPolicy", "putPolicy", "deletePolicy"}

\* A request: its parameters, and the values it holds between its statements.
SLARequest ==
  [op     : SLAOps,
   step   : SLASteps,
   ticket : SLATickets \cup {Nil},
   policy : Policies \cup {Nil},
   draft  : Policy \cup {Nil},     \* the policy to be written
   patch  : Patches \cup {Nil},    \* the fields sent
   record : Record \cup {Nil},     \* the record to be written
   at     : Times]                 \* the clock when the request began

ASSUME SLANilAssumption ==
  Nil \notin Policies \cup SLATickets \cup Categories \cup Policy \cup Record \cup Opened
             \cup Patch \cup SLARequest \cup Int

VARIABLES
  category,   \* table categories
  policy,     \* table sla_policies
  record,     \* table sla_records
  opened,     \* table tickets
  slaReq,     \* the requests in progress
  minute,     \* the clock
  replied,    \* replied[t]: when staff answered t (observer)
  unrecorded, \* unrecorded[t]: those of these answers that a failure kept from the record (observer)
  slaFaults,  \* number of statements that failed
  overlap,    \* whether the requests of this behaviour overlap
  slaCount    \* number of requests so far

slaVars ==
  <<category, policy, record, opened, slaReq, minute, replied, unrecorded, slaFaults, overlap, slaCount>>
tables  == <<category, policy, record, opened>>

SLATypeOK ==
  /\ category \subseteq Categories
  /\ policy \in [Policies -> Policy \cup {Nil}]
  /\ record \in [SLATickets -> Record \cup {Nil}]
  /\ opened \in [SLATickets -> Opened \cup {Nil}]
  /\ slaReq \in [Workers -> SLARequest \cup {Nil}]
  /\ minute \in Times
  /\ replied \in [SLATickets -> SUBSET Times]
  /\ unrecorded \in [SLATickets -> SUBSET Times]
  /\ slaFaults \in 0..MaxSLAFaults
  /\ overlap \in BOOLEAN
  /\ slaCount \in 0..MaxSLARequests

SLAInit ==
  /\ category = Categories
  /\ policy = SeededPolicies
  /\ record = [t \in SLATickets |-> Nil]
  /\ opened = [t \in SLATickets |-> Nil]
  /\ slaReq = [w \in Workers |-> Nil]
  /\ minute = 0
  /\ replied = [t \in SLATickets |-> {}]
  /\ unrecorded = [t \in SLATickets |-> {}]
  /\ slaFaults = 0
  /\ overlap \in BOOLEAN
  /\ slaCount = 0

-----------------------------------------------------------------------------
(* Requests arrive.                                                        *)

Begin(w, r) ==
  /\ slaReq[w] = Nil
  /\ overlap \/ \A v \in Workers : slaReq[v] = Nil
  /\ slaCount < MaxSLARequests /\ slaCount' = slaCount + 1
  /\ slaReq' = [slaReq EXCEPT ![w] = r]

Asked(op, step) ==
  [op |-> op, step |-> step, ticket |-> Nil, policy |-> Nil, draft |-> Nil, patch |-> Nil,
   record |-> Nil, at |-> minute]

\* A ticket of a priority and a category (the draft borrows a policy's shape).
OpenTicket(w) ==
  \E t \in {u \in SLATickets : opened[u] = Nil}, x \in Priorities, c \in Categories :
    /\ \A v \in Workers : slaReq[v] # Nil => slaReq[v].ticket # t   \* a fresh id
    /\ Begin(w, [Asked("open", "insertTicket") EXCEPT !.ticket = t,
                   !.draft = [priority |-> x, category |-> c, response |-> 0, resolution |-> 0]])
    /\ UNCHANGED <<tables, minute, replied, unrecorded, slaFaults, overlap>>

\* A staff reply was stored; its created_at is the response.
StaffReply(w) ==
  \E t \in {u \in SLATickets : opened[u] # Nil} :
    /\ Begin(w, [Asked("reply", "getRecord") EXCEPT !.ticket = t])
    /\ replied' = [replied EXCEPT ![t] = @ \cup {minute}]
    /\ UNCHANGED <<tables, minute, unrecorded, slaFaults, overlap>>

EvaluateBreaches(w) ==
  \E t \in {u \in SLATickets : opened[u] # Nil} :
    /\ Begin(w, [Asked("evaluate", "getRecord") EXCEPT !.ticket = t])
    /\ UNCHANGED <<tables, minute, replied, unrecorded, slaFaults, overlap>>

\* CreatePolicy refuses targets that are not positive.
HandleCreateSLAPolicy(w) ==
  \E d \in Drafts, p \in {q \in Policies : policy[q] = Nil} :
    /\ d.response > 0 /\ d.resolution > 0
    /\ \A v \in Workers : slaReq[v] # Nil => slaReq[v].policy # p   \* a fresh id
    /\ Begin(w, [Asked("create", "insertPolicy") EXCEPT !.policy = p, !.draft = d])
    /\ UNCHANGED <<tables, minute, replied, unrecorded, slaFaults, overlap>>

HandleUpdateSLAPolicy(w) ==
  \E p \in Policies, d \in Patches :
    /\ Begin(w, [Asked("patch", "getPolicy") EXCEPT !.policy = p, !.patch = d])
    /\ UNCHANGED <<tables, minute, replied, unrecorded, slaFaults, overlap>>

HandleDeleteSLAPolicy(w) ==
  \E p \in Policies :
    /\ Begin(w, [Asked("delete", "deletePolicy") EXCEPT !.policy = p])
    /\ UNCHANGED <<tables, minute, replied, unrecorded, slaFaults, overlap>>

-----------------------------------------------------------------------------
(* A record is attached when a ticket is created.                          *)

\* CHECK of the priority and foreign key of the category.
Insertable(d) == d.priority \in Known /\ (d.category # Nil => d.category \in category)

InsertTicket(w) ==
  LET r == slaReq[w] IN
  /\ r # Nil /\ r.step = "insertTicket"
  /\ IF Insertable(r.draft)
     THEN /\ opened' = [opened EXCEPT ![r.ticket] =
               [priority |-> r.draft.priority, category |-> r.draft.category, at |-> r.at]]
          /\ slaReq' = GoesTo(slaReq, w, "find")
     ELSE slaReq' = Ended(slaReq, w) /\ UNCHANGED opened
  /\ UNCHANGED <<category, policy, record, minute, replied, unrecorded, slaFaults, overlap, slaCount>>

\* The policies FindSLAPolicy may return: ORDER BY category_id NULLS LAST.
Fits(p, x, c) == policy[p] # Nil /\ policy[p].priority = x /\ policy[p].category \in {c, Nil}

\* Mutant of Found: NULLs come first.
FoundNullsFirst(x, c) ==
  {p \in Policies : /\ Fits(p, x, c)
                    /\ \A q \in Policies : Fits(q, x, c) => policy[p].category = Nil \/ policy[q].category # Nil}

Found(x, c) ==
  {p \in Policies : /\ Fits(p, x, c)
                    /\ \A q \in Policies : Fits(q, x, c) => policy[p].category # Nil \/ policy[q].category = Nil}

FindPolicy(w) ==
  LET r == slaReq[w]
      found == Found(r.draft.priority, r.draft.category)
  IN
  /\ r # Nil /\ r.step = "find"
  /\ \/ found = {} /\ slaReq' = Ended(slaReq, w)
     \/ \E p \in found : slaReq' = [slaReq EXCEPT ![w].policy = p, ![w].step = "insertRecord"]
  /\ UNCHANGED <<tables, minute, replied, unrecorded, slaFaults, overlap, slaCount>>

\* Mutant of PolicyIsThere: no foreign key on sla_records(policy_id).
PolicyMayBeGone(p) == TRUE

\* sla_records(policy_id) REFERENCES sla_policies.
PolicyIsThere(p) == policy[p] # Nil

\* AttachPolicy: a failure is dropped, the ticket stays without a record.
CreateRecord(w) ==
  LET r == slaReq[w] IN
  /\ r # Nil /\ r.step = "insertRecord"
  /\ slaReq' = Ended(slaReq, w)
  /\ record' = IF PolicyIsThere(r.policy) /\ record[r.ticket] = Nil
               THEN [record EXCEPT ![r.ticket] =
                       [policy |-> r.policy, first |-> Nil, response |-> Nil, resolution |-> Nil]]
               ELSE record
  /\ UNCHANGED <<category, policy, opened, minute, replied, unrecorded, slaFaults, overlap, slaCount>>

-----------------------------------------------------------------------------
(* Records are read, changed and written whole.                            *)

\* Mutant of Answered: a later reply takes the place of the first.
AnsweredAgain(k, at) == [k EXCEPT !.first = at]

\* RecordFirstResponse: the first answer stays.
Answered(k, at) == IF k.first # Nil THEN k ELSE [k EXCEPT !.first = at]

GetRecord(w) ==
  LET r == slaReq[w]
      k == record[r.ticket]
  IN
  /\ r # Nil /\ r.step = "getRecord"
  /\ slaReq' =
       IF k = Nil THEN Ended(slaReq, w)
       ELSE IF r.op = "evaluate"
            THEN [slaReq EXCEPT ![w].record = k, ![w].step = "readPolicy"]
            ELSE IF Answered(k, r.at) = k THEN Ended(slaReq, w)
                 ELSE [slaReq EXCEPT ![w].record = Answered(k, r.at), ![w].step = "putRecord"]
  /\ UNCHANGED <<tables, minute, replied, unrecorded, slaFaults, overlap, slaCount>>

Late(opened_at, target, at) == at * Minute > opened_at * Minute + Duration(target)

\* Mutant of Evaluated: IsResponseBreached does not ask for an answer.
EvaluatedUnasked(k, p, since, at) ==
  [k EXCEPT !.response = IF @ = Nil /\ Late(since, p.response, at) THEN at ELSE @,
            !.resolution = IF @ = Nil /\ Late(since, p.resolution, at) THEN at ELSE @]

\* IsResponseBreached and IsResolutionBreached stamp what is not stamped yet.
Evaluated(k, p, since, at) ==
  [k EXCEPT !.response = IF @ = Nil /\ k.first = Nil /\ Late(since, p.response, at) THEN at ELSE @,
            !.resolution = IF @ = Nil /\ Late(since, p.resolution, at) THEN at ELSE @]

ReadPolicy(w) ==
  LET r == slaReq[w]
      p == policy[r.record.policy]
      k == Evaluated(r.record, p, opened[r.ticket].at, r.at)
  IN
  /\ r # Nil /\ r.step = "readPolicy"
  /\ slaReq' = IF p = Nil \/ k = r.record THEN Ended(slaReq, w)
               ELSE [slaReq EXCEPT ![w].record = k, ![w].step = "putRecord"]
  /\ UNCHANGED <<tables, minute, replied, unrecorded, slaFaults, overlap, slaCount>>

\* UPDATE sla_records writes every column but the policy's.
PutRecord(w) ==
  LET r == slaReq[w] IN
  /\ r # Nil /\ r.step = "putRecord"
  /\ slaReq' = Ended(slaReq, w)
  /\ record' = [record EXCEPT ![r.ticket] =
                  [policy |-> @.policy, first |-> r.record.first,
                   response |-> r.record.response, resolution |-> r.record.resolution]]
  /\ UNCHANGED <<category, policy, opened, minute, replied, unrecorded, slaFaults, overlap, slaCount>>

-----------------------------------------------------------------------------
(* Policies.                                                               *)

\* The columns of a policy are 32 bits wide.
PolicyRow(d) == [d EXCEPT !.response = Int32(@), !.resolution = Int32(@)]

InsertPolicy(w) ==
  LET r == slaReq[w] IN
  /\ r # Nil /\ r.step = "insertPolicy"
  /\ slaReq' = Ended(slaReq, w)
  /\ policy' = IF Insertable(r.draft) THEN [policy EXCEPT ![r.policy] = PolicyRow(r.draft)]
               ELSE policy
  /\ UNCHANGED <<category, record, opened, minute, replied, unrecorded, slaFaults, overlap, slaCount>>

\* The policy PATCH makes of the one it has read: each field that was sent.
Patched(old, d) ==
  [priority   |-> IF d.priority = Nil THEN old.priority ELSE d.priority,
   category   |-> IF d.clear THEN Nil ELSE IF d.category = Nil THEN old.category ELSE d.category,
   response   |-> IF d.response = Nil THEN old.response ELSE d.response,
   resolution |-> IF d.resolution = Nil THEN old.resolution ELSE d.resolution]

GetPolicy(w) ==
  LET r == slaReq[w]
      new == Patched(policy[r.policy], r.patch)
  IN
  /\ r # Nil /\ r.step = "getPolicy"
  /\ slaReq' = IF policy[r.policy] = Nil \/ new.response =< 0 \/ new.resolution =< 0
               THEN Ended(slaReq, w)
               ELSE [slaReq EXCEPT ![w].step = "putPolicy", ![w].draft = new]
  /\ UNCHANGED <<tables, minute, replied, unrecorded, slaFaults, overlap, slaCount>>

\* The update of a policy that is gone changes no row and is answered 200.
PutPolicy(w) ==
  LET r == slaReq[w] IN
  /\ r # Nil /\ r.step = "putPolicy"
  /\ slaReq' = Ended(slaReq, w)
  /\ policy' = IF policy[r.policy] # Nil /\ Insertable(r.draft)
               THEN [policy EXCEPT ![r.policy] = PolicyRow(r.draft)]
               ELSE policy
  /\ UNCHANGED <<category, record, opened, minute, replied, unrecorded, slaFaults, overlap, slaCount>>

\* sla_records(policy_id) ... ON DELETE RESTRICT.
InForce(p) == \E t \in SLATickets : record[t] # Nil /\ record[t].policy = p

DeletePolicy(w) ==
  LET r == slaReq[w] IN
  /\ r # Nil /\ r.step = "deletePolicy"
  /\ slaReq' = Ended(slaReq, w)
  /\ policy' = IF InForce(r.policy) THEN policy ELSE [policy EXCEPT ![r.policy] = Nil]
  /\ UNCHANGED <<category, record, opened, minute, replied, unrecorded, slaFaults, overlap, slaCount>>

\* An administrator deletes a category: its policies go with it (CASCADE), unless
\* a ticket or a record under one of them holds it (RESTRICT).
DeleteCategory(c) ==
  LET gone == {p \in Policies : policy[p] # Nil /\ policy[p].category = c} IN
  /\ c \in category
  /\ \A t \in SLATickets : opened[t] # Nil => opened[t].category # c
  /\ \A p \in gone : ~InForce(p)
  /\ category' = category \ {c}
  /\ policy' = [p \in Policies |-> IF p \in gone THEN Nil ELSE policy[p]]
  /\ UNCHANGED <<record, opened, slaReq, minute, replied, unrecorded, slaFaults, overlap, slaCount>>

\* A statement fails.  Every request ends there: it returns the error, or, where it creates a
\* ticket or stores a reply, drops it; RecordFirstResponse takes it for the lack of a record.
SLAFails(w) ==
  LET r == slaReq[w] IN
  /\ r # Nil /\ slaFaults < MaxSLAFaults /\ slaFaults' = slaFaults + 1
  /\ slaReq' = Ended(slaReq, w)
  /\ unrecorded' = IF r.op = "reply" THEN [unrecorded EXCEPT ![r.ticket] = @ \cup {r.at}]
                   ELSE unrecorded
  /\ UNCHANGED <<tables, minute, replied, overlap, slaCount>>

SLATick ==
  /\ minute < MaxMinute /\ minute' = minute + 1
  /\ UNCHANGED <<tables, slaReq, replied, unrecorded, slaFaults, overlap, slaCount>>

SLAArrive(w) ==
  OpenTicket(w) \/ StaffReply(w) \/ EvaluateBreaches(w)
  \/ HandleCreateSLAPolicy(w) \/ HandleUpdateSLAPolicy(w) \/ HandleDeleteSLAPolicy(w)

SLAStep(w) ==
  InsertTicket(w) \/ FindPolicy(w) \/ CreateRecord(w) \/ GetRecord(w) \/ ReadPolicy(w)
  \/ PutRecord(w) \/ InsertPolicy(w) \/ GetPolicy(w) \/ PutPolicy(w) \/ DeletePolicy(w)
  \/ SLAFails(w)

\* The bounds are used up and nothing is in progress.
SLAExhausted ==
  /\ slaCount = MaxSLARequests /\ minute = MaxMinute
  /\ \A w \in Workers : slaReq[w] = Nil
  /\ UNCHANGED slaVars

SLANext ==
  \/ \E w \in Workers : SLAArrive(w) \/ SLAStep(w)
  \/ \E c \in Categories : DeleteCategory(c)
  \/ SLATick \/ SLAExhausted

SLASpec == SLAInit /\ [][SLANext]_slaVars

-----------------------------------------------------------------------------
(* What must hold.                                                         *)

\* A record is of a ticket that exists and under a policy that exists, although
\* policies and categories are deleted between the choice of a policy and the
\* insertion of the record.  (AttachPolicy, DeletePolicy)
RecordRefs ==
  \A t \in SLATickets : record[t] # Nil => opened[t] # Nil /\ policy[record[t].policy] # Nil

\* The policies a ticket may be under, after the section on matching in DESIGN.md.
Best(x, c) ==
  LET of(k) == {p \in Policies : policy[p] # Nil /\ policy[p].priority = x /\ policy[p].category = k}
  IN IF of(c) # {} THEN of(c) ELSE of(Nil)

\* While requests do not overlap, a new ticket comes under the policy of its own
\* category, or else under one of all categories, or else under none, unless a statement
\* of its creation failed: then it stays without a record.  (AttachPolicy)
BestPolicyAttached ==
  [][\A w \in Workers :
       LET r == slaReq[w] IN
       /\ ~overlap /\ slaFaults' = slaFaults
       /\ r # Nil /\ r.op = "open" /\ opened[r.ticket] # Nil /\ slaReq'[w] = Nil
       => LET best == Best(opened[r.ticket].priority, opened[r.ticket].category)
          IN IF best = {} THEN record'[r.ticket] = Nil
             ELSE record'[r.ticket] # Nil /\ record'[r.ticket].policy \in best]_slaVars

\* The staff replies to t whose recording met no failure.
Recordable(t) == replied[t] \ unrecorded[t]

\* While requests do not overlap, the first response of a record is a staff reply, none
\* that could be recorded came before it, and it is there once such a reply was answered.
\* A reply whose recording failed is lost to the record: a later one may be the first.
\* (RecordFirstResponse)
AnswerIsFirst ==
  ~overlap => \A t \in SLATickets : record[t] # Nil =>
    /\ record[t].first # Nil =>
         record[t].first \in replied[t] /\ \A m \in Recordable(t) : record[t].first =< m
    /\ Recordable(t) # {} /\ (\A w \in Workers : slaReq[w] = Nil) => record[t].first # Nil

\* While requests do not overlap, a response stamped as missed was missed: every staff
\* reply whose recording met no failure came at that time or later.  (EvaluateBreaches)
BreachIsTrue ==
  ~overlap => \A t \in SLATickets : record[t] # Nil /\ record[t].response # Nil =>
    \A m \in Recordable(t) : m >= record[t].response
=============================================================================
