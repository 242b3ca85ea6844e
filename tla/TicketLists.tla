---------------------------- MODULE TicketLists -----------------------------
(***************************************************************************)
(* What people see of the table of tickets: the lists and searches of      *)
(* their scope and the counts beside the statuses.  A list of "mine" is    *)
(* put together from one statement for the caller's own tickets, one for   *)
(* his groups and one for each group; the counts are one statement for     *)
(* each status.  Between two statements tickets are filed, moved and       *)
(* assigned, and members come and go.                                      *)
(*                                                                         *)
(* What a term matches is data: the tickets whose number fits its pattern, *)
(* and those whose text holds its words.                                   *)
(***************************************************************************)
EXTENDS DeskBase, Integers, FiniteSets

CONSTANTS
  ListTickets,     \* ids of rows of tickets, present and future
  Users, RoleOf,   \* people and their roles
  Groups,          \* ids of rows of groups
  Shelves,         \* ids of rows of statuses
  Terms,           \* search terms
  ByNumber,        \* ByNumber[q]: tickets whose number is ILIKE searchPattern(q)
  ByWords,         \* ByWords[q]: tickets whose text matches buildSearchTSQuery(q)
  Wordless,        \* terms without an indexable token
  Relevance,       \* Relevance[q][t]: ts_rank of the text of t
  SeededDesk, SeededMembers,   \* the tickets and members there are before
  Limit,           \* 100 in the program
  MaxLists,        \* bound on the number of lists asked for
  MaxMoves         \* bound on the number of changes

ASSUME ListAssumption ==
  /\ IsFiniteSet(ListTickets)
  /\ RoleOf \in [Users -> {"user", "staff", "admin"}]
  /\ ByNumber \in [Terms -> SUBSET ListTickets] /\ ByWords \in [Terms -> SUBSET ListTickets]
  /\ Relevance \in [Terms -> [ListTickets -> Nat]]
  /\ Wordless \subseteq Terms
  /\ Nil \notin Terms \cup Users \cup Groups
  /\ Limit \in Nat \ {0} /\ MaxLists \in Nat /\ MaxMoves \in Nat

\* A row of tickets; created_at is the number of the change that filed it, and not
\* positive for those that are there before.
Filed == [reporter : Users, user : Users \cup {Nil}, group : Groups \cup {Nil},
          status : Shelves, created : Int]

\* The tickets one statement asks for, or the whole of a list.
Query == [by : {"reporter", "user", "group", "unassigned", "all", "mine", "counts"},
          id : Users \cup Groups \cup {Nil}]
Ask(by, id) == [by |-> by, id |-> id]

ListRequest ==
  [who    : Users,
   about  : Query,
   term   : Terms \cup {Nil},
   step   : {"query", "groups", "count", "done"},
   ask    : SUBSET Query,         \* statements to come
   joined : BOOLEAN,              \* the caller's groups were read
   times  : [ListTickets -> Nat],     \* how often a ticket is in the answer
   groups : SUBSET Groups,        \* the caller's groups, as read
   left   : SUBSET Shelves,       \* statuses to be counted
   counts : [Shelves -> Nat \cup {Nil}]]   \* Nil: not counted, 0 is shown

ASSUME SeedAssumption ==
  /\ SeededDesk \in [ListTickets -> Filed \cup {Nil}] /\ SeededMembers \subseteq Users \X Groups
  /\ \A t \in ListTickets : SeededDesk[t] # Nil => SeededDesk[t].created =< 0

VARIABLES
  desk,      \* table tickets
  member,    \* table group_members
  listReq,   \* the lists in progress
  belonged,  \* the groups the caller of a list was in since he asked for it (observer)
  watch,     \* what happened to the tickets of a list since it was asked for (observer)
  lists, moves

listVars == <<desk, member, listReq, belonged, watch, lists, moves>>

Watch == [was : [ListTickets -> Filed \cup {Nil}], always : SUBSET ListTickets, ever : SUBSET ListTickets]

ListTypeOK ==
  /\ desk \in [ListTickets -> Filed \cup {Nil}]
  /\ member \subseteq Users \X Groups
  /\ listReq \in [Workers -> ListRequest \cup {Nil}]
  /\ belonged \in [Workers -> SUBSET Groups]
  /\ watch \in [Workers -> Watch \cup {Nil}]
  /\ lists \in 0..MaxLists /\ moves \in 0..MaxMoves

ListInit ==
  /\ desk = SeededDesk
  /\ member = SeededMembers
  /\ listReq = [w \in Workers |-> Nil]
  /\ belonged = [w \in Workers |-> {}]
  /\ watch = [w \in Workers |-> Nil]
  /\ lists = 0 /\ moves = 0

-----------------------------------------------------------------------------
(* The statements.                                                         *)

ListAll == {t \in ListTickets : desk[t] # Nil}
ListByReporter(u) == {t \in ListAll : desk[t].reporter = u}
ListByAssigneeUser(u) == {t \in ListAll : desk[t].user = u}
ListByAssigneeGroup(g) == {t \in ListAll : desk[t].group = g}
ListUnassigned == {t \in ListAll : desk[t].user = Nil /\ desk[t].group = Nil}

\* The text is asked only where the term has words.
Matches(q) == ByNumber[q] \cup (IF q \in Wordless THEN {} ELSE ByWords[q])

SearchAll(q) == ListAll \cap Matches(q)
SearchByReporter(u, q) == ListByReporter(u) \cap Matches(q)
SearchByAssigneeUser(u, q) == ListByAssigneeUser(u) \cap Matches(q)

\* Mutant of SearchByAssigneeGroup: AND binds stronger than OR.
SearchByGroupUnbracketed(g, q) ==
  (ListByAssigneeGroup(g) \cap ByNumber[q]) \cup (ListAll \cap (Matches(q) \ ByNumber[q]))

SearchByAssigneeGroup(g, q) == ListByAssigneeGroup(g) \cap Matches(q)
SearchUnassigned(q) == ListUnassigned \cap Matches(q)

\* With a term or without, as the handler chooses.
Rows(k, q) ==
  CASE k.by = "all"        -> IF q = Nil THEN ListAll ELSE SearchAll(q)
    [] k.by = "reporter"   -> IF q = Nil THEN ListByReporter(k.id) ELSE SearchByReporter(k.id, q)
    [] k.by = "user"       -> IF q = Nil THEN ListByAssigneeUser(k.id) ELSE SearchByAssigneeUser(k.id, q)
    [] k.by = "group"      -> IF q = Nil THEN ListByAssigneeGroup(k.id) ELSE SearchByAssigneeGroup(k.id, q)
    [] k.by = "unassigned" -> IF q = Nil THEN ListUnassigned ELSE SearchUnassigned(q)

\* ORDER BY relevance, then the newest first.
Precedes(q, t, u) ==
  LET rank(x) == IF q = Nil \/ q \in Wordless THEN 0 ELSE Relevance[q][x]
  IN rank(t) > rank(u) \/ (rank(t) = rank(u) /\ desk[t].created > desk[u].created)

\* LIMIT.
Page(k, q) ==
  LET rows == Rows(k, q)
  IN {t \in rows : Cardinality({u \in rows : Precedes(q, u, t)}) < Limit}

CountTicketsByStatus(s) == Cardinality({t \in ListAll : desk[t].status = s})
CountTicketsByStatusForReporter(s, u) ==
  Cardinality({t \in ListAll : desk[t].status = s /\ desk[t].reporter = u})

\* Mutant of CountTicketsByStatusForAssignee: AND binds stronger than OR.
CountForAssigneeUnbracketed(s, u, gs) ==
  Cardinality({t \in ListAll : (desk[t].status = s /\ desk[t].user = u) \/ desk[t].group \in gs})

CountTicketsByStatusForAssignee(s, u, gs) ==
  Cardinality({t \in ListAll : desk[t].status = s /\ (desk[t].user = u \/ desk[t].group \in gs)})

-----------------------------------------------------------------------------
(* Lists are asked for.                                                    *)

Asks(w, u, q, about, asked, step) ==
  /\ listReq[w] = Nil /\ lists < MaxLists /\ lists' = lists + 1
  /\ listReq' = [listReq EXCEPT ![w] =
       [who |-> u, about |-> about, term |-> q, step |-> step, ask |-> asked, joined |-> FALSE,
        times |-> [t \in ListTickets |-> 0], groups |-> {}, left |-> Shelves,
        counts |-> [s \in Shelves |-> Nil]]]
  /\ UNCHANGED <<desk, member, moves>>

AsksFor(w, u, q, k) == Asks(w, u, q, k, {k}, "query")

\* reporter_id, for administrators.
HandleListOfReporter(w, u, q) ==
  /\ RoleOf[u] = "admin"
  /\ \E v \in Users : AsksFor(w, u, q, Ask("reporter", v))

\* assignee_group_id, for staff and administrators, of their group or not.
HandleListOfGroup(w, u, q) ==
  /\ RoleOf[u] # "user"
  /\ \E g \in Groups : AsksFor(w, u, q, Ask("group", g))

\* scope=unassigned and scope=all, for administrators.
HandleListQueue(w, u, q) ==
  /\ RoleOf[u] = "admin"
  /\ \E by \in {"unassigned", "all"} : AsksFor(w, u, q, Ask(by, Nil))

\* Users get the tickets they reported; others the list of "mine".
HandleListTickets(w, u, q) ==
  IF RoleOf[u] = "user" THEN AsksFor(w, u, q, Ask("reporter", u))
  ELSE Asks(w, u, q, Ask("mine", u), {Ask("user", u)}, "query")

\* The statuses are read, for staff the groups, and a count for each status.
HandleListStatuses(w, u) ==
  Asks(w, u, Nil, Ask("counts", u), {}, IF RoleOf[u] = "staff" THEN "groups" ELSE "count")

-----------------------------------------------------------------------------
(* Their statements run.                                                   *)

\* Mutant of Merged: a group's list is appended as it is.
MergedUnseen(times, page) == [t \in ListTickets |-> times[t] + IF t \in page THEN 1 ELSE 0]

\* `seen` keeps a ticket from being listed again.
Merged(times, page) == [t \in ListTickets |-> IF t \in page /\ times[t] = 0 THEN 1 ELSE times[t]]

\* Mutant of After: an empty list of one's own ends the request.
AfterEmptyHanded(r) ==
  IF r.about.by = "counts" THEN "count"
  ELSE IF r.ask # {} THEN "query"
  ELSE IF r.about.by = "mine" /\ ~r.joined /\ \E t \in ListTickets : r.times[t] > 0 THEN "groups"
  ELSE "done"

\* Where a list goes on: with its counts, its next statement, the groups or the answer.
After(r) ==
  IF r.about.by = "counts" THEN "count"
  ELSE IF r.ask # {} THEN "query"
  ELSE IF r.about.by = "mine" /\ ~r.joined THEN "groups"
  ELSE "done"

RunQuery(w) ==
  LET r == listReq[w] IN
  /\ r # Nil /\ r.step = "query"
  /\ \E k \in r.ask :
       LET n == [r EXCEPT !.ask = @ \ {k}, !.times = Merged(@, Page(k, r.term))]
       IN listReq' = [listReq EXCEPT ![w] = [n EXCEPT !.step = After(n)]]
  /\ UNCHANGED <<desk, member, lists, moves>>

\* ListGroupsForUser.
GroupsOf(u) == {g \in Groups : <<u, g>> \in member}

ReadGroups(w) ==
  LET r == listReq[w]
      gs == GroupsOf(r.who)
      n == [r EXCEPT !.groups = gs, !.joined = TRUE,
                     !.ask = IF r.about.by = "mine" THEN {Ask("group", g) : g \in gs} ELSE {}]
  IN
  /\ r # Nil /\ r.step = "groups"
  /\ listReq' = [listReq EXCEPT ![w] = [n EXCEPT !.step = After(n)]]
  /\ UNCHANGED <<desk, member, lists, moves>>

\* The count the caller's role is shown.
CountFor(r, s) ==
  CASE RoleOf[r.who] = "admin" -> CountTicketsByStatus(s)
    [] RoleOf[r.who] = "staff" -> CountTicketsByStatusForAssignee(s, r.who, r.groups)
    [] RoleOf[r.who] = "user"  -> CountTicketsByStatusForReporter(s, r.who)

\* The error of a count is dropped.
CountNext(w) ==
  LET r == listReq[w] IN
  /\ r # Nil /\ r.step = "count"
  /\ \E s \in r.left : \E n \in {CountFor(r, s), Nil} :
       listReq' = [listReq EXCEPT ![w].left = @ \ {s}, ![w].counts[s] = n,
                                  ![w].step = IF r.left = {s} THEN "done" ELSE @]
  /\ UNCHANGED <<desk, member, lists, moves>>

ListAnswered(w) ==
  /\ listReq[w] # Nil /\ listReq[w].step = "done"
  /\ listReq' = Ended(listReq, w)
  /\ UNCHANGED <<desk, member, lists, moves>>

-----------------------------------------------------------------------------
(* The desk goes on meanwhile.                                             *)

Moves == moves < MaxMoves /\ moves' = moves + 1 /\ UNCHANGED <<listReq, lists>>

CreateTicket(t) ==
  /\ desk[t] = Nil
  /\ \E u \in Users, s \in Shelves :
       desk' = [desk EXCEPT ![t] =
                  [reporter |-> u, user |-> Nil, group |-> Nil, status |-> s, created |-> moves + 1]]
  /\ Moves /\ UNCHANGED member

\* Assign, and the moves of a ticket between statuses.
UpdateTicket(t) ==
  /\ desk[t] # Nil
  /\ \/ \E u \in Users \cup {Nil}, g \in Groups \cup {Nil} :
          desk' = [desk EXCEPT ![t].user = u, ![t].group = g]
     \/ \E s \in Shelves : desk' = [desk EXCEPT ![t].status = s]
  /\ desk' # desk /\ Moves /\ UNCHANGED member

AddGroupMember(u, g) == member' = member \cup {<<u, g>>} /\ Moves /\ UNCHANGED desk
RemoveGroupMember(u, g) ==
  <<u, g>> \in member /\ member' = member \ {<<u, g>>} /\ Moves /\ UNCHANGED desk

ListExhausted ==
  /\ lists = MaxLists /\ moves = MaxMoves /\ \A w \in Workers : listReq[w] = Nil
  /\ UNCHANGED <<desk, member, listReq, lists, moves>>

ListStep ==
  \/ \E w \in Workers, u \in Users :
       \/ \E q \in Terms \cup {Nil} :
            \/ HandleListOfReporter(w, u, q) \/ HandleListOfGroup(w, u, q)
            \/ HandleListQueue(w, u, q) \/ HandleListTickets(w, u, q)
       \/ HandleListStatuses(w, u)
  \/ \E w \in Workers : RunQuery(w) \/ ReadGroups(w) \/ CountNext(w) \/ ListAnswered(w)
  \/ \E t \in ListTickets : CreateTicket(t) \/ UpdateTicket(t)
  \/ \E u \in Users, g \in Groups : AddGroupMember(u, g) \/ RemoveGroupMember(u, g)
  \/ ListExhausted

-----------------------------------------------------------------------------
(* What must hold.                                                         *)

\* The tickets the request of w is about at this moment, the caller being of groups gs.
Scope(w, gs) ==
  LET r == listReq[w]
      mine == ListByAssigneeUser(r.who) \cup UNION {ListByAssigneeGroup(g) : g \in gs}
      all == CASE r.about.by = "mine" -> mine
               [] r.about.by = "counts" -> (CASE RoleOf[r.who] = "admin" -> ListAll
                                              [] RoleOf[r.who] = "staff" -> mine
                                              [] RoleOf[r.who] = "user" -> ListByReporter(r.who))
               [] OTHER -> Rows(r.about, Nil)
  IN IF r.term = Nil THEN all ELSE all \cap Matches(r.term)

Inner(w) == Scope(w, GroupsOf(listReq[w].who))
Outer(w) == Scope(w, belonged[w])

\* The observers: the rows at the beginning, the tickets that were in the scope all the
\* time and untouched, and those that were in it at some time, for a group the caller was
\* in at some time.
Belonged(w) ==
  IF listReq'[w] = Nil THEN {}
  ELSE GroupsOf(listReq[w].who)' \cup belonged[w]
Observed(w) ==
  IF listReq'[w] = Nil THEN Nil
  ELSE IF listReq[w] = Nil THEN [was |-> desk, always |-> Inner(w)', ever |-> Outer(w)']
  ELSE IF listReq[w].step = "done" THEN watch[w]
  ELSE [watch[w] EXCEPT !.always = @ \cap {t \in Inner(w)' : desk'[t] = desk[t]},
                        !.ever = @ \cup Outer(w)']

ListNext ==
  /\ ListStep
  /\ belonged' = [w \in Workers |-> Belonged(w)]
  /\ watch' = [w \in Workers |-> Observed(w)]

ListSpec == ListInit /\ [][ListNext]_listVars

Shown(w) == listReq[w] # Nil /\ listReq[w].step = "done" /\ listReq[w].about.by # "counts"

\* No ticket is listed twice, also when it moves from a person to his group, or is
\* assigned to both.  (handleListTickets, `seen`)
ListedOnce == \A w \in Workers : Shown(w) => \A t \in ListTickets : listReq[w].times[t] =< 1

\* What is listed was, at some moment of the request, in the scope the caller asked for,
\* for a group he was in at some moment of it, and matched his term.  (the WHERE clauses)
ListedWasInScope ==
  \A w \in Workers : Shown(w) =>
    \A t \in ListTickets : listReq[w].times[t] > 0 => t \in watch[w].ever

\* A ticket that stays in the scope, untouched, is listed, unless as many as a page holds
\* are listed.  (handleListTickets)
SteadyIsListed ==
  \A w \in Workers : Shown(w) =>
    LET listed == {t \in ListTickets : listReq[w].times[t] > 0}
    IN watch[w].always \subseteq listed \/ Cardinality(listed) >= Limit

\* The count of a status is at least the tickets that stayed in it and in the caller's
\* scope, and at most those and the ones that were moved meanwhile.  (handleListStatuses)
CountsBracketed ==
  \A w \in Workers :
    LET r == listReq[w]
        o == watch[w]
    IN r # Nil /\ r.step = "done" /\ r.about.by = "counts" => \A s \in Shelves :
         LET stayed == {t \in o.always : o.was[t].status = s}
             moved == o.ever \ o.always
         IN r.counts[s] # Nil =>
              /\ r.counts[s] >= Cardinality(stayed)
              /\ r.counts[s] =< Cardinality(stayed) + Cardinality(moved)
=============================================================================
