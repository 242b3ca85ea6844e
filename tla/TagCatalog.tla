----------------------------- MODULE TagCatalog -----------------------------
(***************************************************************************)
(* Tags: labels with unique lower-case names that staff attach to tickets. *)
(* A tag comes into being when it is first named; administrators take tags *)
(* out of use and put them back, and the tickets keep theirs.              *)
(*                                                                         *)
(* A name is looked up in one statement, created in a second and attached  *)
(* in a third; any error of the look-up is taken for "there is none".      *)
(***************************************************************************)
EXTENDS DeskBase, Integers

CONSTANTS
  TagIds,          \* ids of rows of tags, present and future
  Spellings,       \* what clients type
  TagName,         \* TagName[s]: s in lower case without blanks around it, Nil for ""
  FiledTickets,    \* rows of tickets
  MaxTagRequests,  \* bound on the number of requests
  MaxTagFaults     \* bound on the number of statements that fail

TagNames == {TagName[s] : s \in Spellings} \ {Nil}

ASSUME TagAssumption ==
  /\ DOMAIN TagName = Spellings
  /\ FiledTickets \subseteq Tickets
  /\ MaxTagRequests \in Nat /\ MaxTagFaults \in Nat

TagRow == [name : TagNames, deleted : BOOLEAN]

TagSteps == {"find", "insert", "attach", "detach", "softDelete", "restore"}

TagRequest ==
  [step   : TagSteps,
   name   : TagNames \cup {Nil},
   ticket : Tickets \cup {Nil},    \* Nil: an administrator adds the tag to the catalog
   tag    : TagIds \cup {Nil}]

ASSUME TagNilAssumption == Nil \notin TagIds \cup Tickets \cup TagRow \cup TagRequest

VARIABLES
  tag,         \* table tags
  tagged,      \* table ticket_tags
  tagReq,      \* the requests in progress
  inUse,       \* the tags that were in use since a request began (observer)
  tagCount, tagFaults

tagVars == <<tag, tagged, tagReq, inUse, tagCount, tagFaults>>

TagTypeOK ==
  /\ tag \in [TagIds -> TagRow \cup {Nil}]
  /\ tagged \subseteq FiledTickets \X TagIds
  /\ \A p \in tagged : tag[p[2]] # Nil
  /\ tagReq \in [Workers -> TagRequest \cup {Nil}]
  /\ inUse \in [Workers -> SUBSET TagIds]
  /\ tagCount \in 0..MaxTagRequests /\ tagFaults \in 0..MaxTagFaults

TagInit ==
  /\ tag = [g \in TagIds |-> Nil]
  /\ tagged = {}
  /\ tagReq = [w \in Workers |-> Nil]
  /\ inUse = [w \in Workers |-> {}]
  /\ tagCount = 0 /\ tagFaults = 0

-----------------------------------------------------------------------------
(* Requests arrive.                                                        *)

TagBegins(w, step, name, t, g) ==
  /\ tagReq[w] = Nil /\ tagCount < MaxTagRequests /\ tagCount' = tagCount + 1
  /\ tagReq' = [tagReq EXCEPT ![w] = [step |-> step, name |-> name, ticket |-> t, tag |-> g]]
  /\ UNCHANGED <<tag, tagged, tagFaults>>

HandleAdminCreateTag(w) ==
  \E s \in Spellings : TagName[s] # Nil /\ TagBegins(w, "find", TagName[s], Nil, Nil)

HandleAddTicketTag(w) ==
  \E s \in Spellings, t \in Tickets :
    TagName[s] # Nil /\ TagBegins(w, "find", TagName[s], t, Nil)

HandleRemoveTicketTag(w) ==
  \E t \in Tickets, g \in TagIds : TagBegins(w, "detach", Nil, t, g)

HandleAdminDeleteTag(w) == \E g \in TagIds : TagBegins(w, "softDelete", Nil, Nil, g)
HandleAdminRestoreTag(w) == \E g \in TagIds : TagBegins(w, "restore", Nil, Nil, g)

-----------------------------------------------------------------------------
(* Their statements.                                                       *)

TagGoes(w, step, g) == tagReq' = [tagReq EXCEPT ![w].step = step, ![w].tag = g]

TagEnds(w) == tagReq' = Ended(tagReq, w)

\* AddToTicket goes on with the tag that Resolve returns; administrators are answered.
Resolved(w, g) == IF tagReq[w].ticket = Nil THEN TagEnds(w) ELSE TagGoes(w, "attach", g)

Named(n) == {g \in TagIds : tag[g] # Nil /\ tag[g].name = n}

\* Mutant of Resolvable: a deleted tag is resolved like any other.
ResolvableDeleted(g) == TRUE

\* ErrDeleted: only administrators restore a tag.
Resolvable(g) == ~tag[g].deleted

GetTagByName(w) ==
  LET r == tagReq[w] IN
  /\ r # Nil /\ r.step = "find"
  /\ \/ /\ Named(r.name) = {}
        /\ TagGoes(w, "insert", Nil)
     \/ \E g \in Named(r.name) : IF Resolvable(g) THEN Resolved(w, g) ELSE TagEnds(w)
  /\ UNCHANGED <<tag, tagged, tagCount, tagFaults>>

\* An error of the look-up, whatever it is, leads to the creation.
GetTagFails(w) ==
  /\ tagReq[w] # Nil /\ tagReq[w].step = "find"
  /\ tagFaults < MaxTagFaults /\ tagFaults' = tagFaults + 1
  /\ TagGoes(w, "insert", Nil)
  /\ UNCHANGED <<tag, tagged, tagCount>>

\* Mutant of NameFree: names are unique among the tags in use only.
NameFreeInUse(n) == \A g \in Named(n) : tag[g].deleted

\* tags.name UNIQUE.
NameFree(n) == Named(n) = {}

CreateTag(w) ==
  LET r == tagReq[w] IN
  /\ r # Nil /\ r.step = "insert"
  /\ \/ /\ NameFree(r.name)
        /\ \E g \in TagIds :
             /\ tag[g] = Nil
             /\ tag' = [tag EXCEPT ![g] = [name |-> r.name, deleted |-> FALSE]]
             /\ Resolved(w, g)
     \/ ~NameFree(r.name) /\ TagEnds(w) /\ UNCHANGED tag
  /\ UNCHANGED <<tagged, tagCount, tagFaults>>

\* ON CONFLICT DO NOTHING; the foreign key refuses a ticket there is not.
AddTicketTag(w) ==
  LET r == tagReq[w] IN
  /\ r # Nil /\ r.step = "attach"
  /\ tagged' = IF r.ticket \in FiledTickets THEN tagged \cup {<<r.ticket, r.tag>>} ELSE tagged
  /\ TagEnds(w)
  /\ UNCHANGED <<tag, tagCount, tagFaults>>

RemoveTicketTag(w) ==
  LET r == tagReq[w] IN
  /\ r # Nil /\ r.step = "detach"
  /\ tagged' = tagged \ {<<r.ticket, r.tag>>}
  /\ TagEnds(w)
  /\ UNCHANGED <<tag, tagCount, tagFaults>>

Marked(g, deleted) == IF tag[g] = Nil THEN tag ELSE [tag EXCEPT ![g].deleted = deleted]

SoftDeleteTag(w) ==
  LET r == tagReq[w] IN
  /\ r # Nil /\ r.step = "softDelete"
  /\ tag' = Marked(r.tag, TRUE)
  /\ TagEnds(w)
  /\ UNCHANGED <<tagged, tagCount, tagFaults>>

RestoreTag(w) ==
  LET r == tagReq[w] IN
  /\ r # Nil /\ r.step = "restore"
  /\ tag' = Marked(r.tag, FALSE)
  /\ TagEnds(w)
  /\ UNCHANGED <<tagged, tagCount, tagFaults>>

TagExhausted ==
  /\ tagCount = MaxTagRequests /\ \A w \in Workers : tagReq[w] = Nil
  /\ UNCHANGED <<tag, tagged, tagReq, tagCount, tagFaults>>

TagStep ==
  \/ \E w \in Workers :
       \/ HandleAdminCreateTag(w) \/ HandleAddTicketTag(w) \/ HandleRemoveTicketTag(w)
       \/ HandleAdminDeleteTag(w) \/ HandleAdminRestoreTag(w)
       \/ GetTagByName(w) \/ GetTagFails(w) \/ CreateTag(w) \/ AddTicketTag(w)
       \/ RemoveTicketTag(w) \/ SoftDeleteTag(w) \/ RestoreTag(w)
  \/ TagExhausted

Used == {g \in TagIds : tag[g] # Nil /\ ~tag[g].deleted}

TagNext ==
  /\ TagStep
  /\ inUse' = [w \in Workers |-> IF tagReq'[w] = Nil THEN {}
                                 ELSE IF tagReq[w] = Nil THEN Used ELSE inUse[w] \cup Used']

TagSpec == TagInit /\ [][TagNext]_tagVars

-----------------------------------------------------------------------------
(* What must hold.                                                         *)

\* Whatever look-ups overlap or fail, a name has one tag, deleted or not.  (Resolve)
OneTagPerName ==
  \A g, h \in TagIds : g # h /\ tag[g] # Nil /\ tag[h] # Nil => tag[g].name # tag[h].name

\* A tag that was out of use all through a request is not attached by it, although the
\* catalog is asked before and the tag attached after others changed it.  (AddToTicket)
AttachedWasInUse ==
  [][\A w \in Workers : tagReq[w] # Nil /\ tagReq'[w] = Nil =>
       \A p \in tagged' \ tagged : p[2] \in inUse[w]]_tagVars
=============================================================================
