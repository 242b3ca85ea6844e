------------------------- MODULE TicketBoard_proofs -------------------------
(***************************************************************************)
(* The promises of TicketBoard, for any number of tickets, statuses and    *)
(* days.  The inductive invariant is the conjunction of the type invariant *)
(* and the two promises: the chain needs the types, and the guard of       *)
(* Closed needs the chain to say what the `from` of an entry was.          *)
(***************************************************************************)
EXTENDS TicketBoard, TLAPS

-----------------------------------------------------------------------------
(* The rows of a ticket.                                                   *)

LEMMA CreatedRowIsRow ==
  ASSUME NEW s \in Statuses
  PROVE  CreatedRow(s) \in Row /\ CreatedRow(s).status = s
  BY DEF Row, CreatedRow, Never

LEMMA AssignedRowIsRow ==
  ASSUME NEW r \in Row, NEW a \in Assignees \cup {Nil}
  PROVE  AssignedRow(r, a) \in Row /\ AssignedRow(r, a).status = r.status
  BY DEF Row, AssignedRow

\* The rows the operations compute are rows, and carry the status they are given.
LEMMA RowsAreRows ==
  ASSUME NEW r \in Row, NEW s \in Statuses, NEW n \in Nat
  PROVE  /\ MovedRow(r, s) \in Row /\ MovedRow(r, s).status = s
         /\ ResolvedRow(r, s, n) \in Row /\ ResolvedRow(r, s, n).status = s
         /\ ClosedRow(r, s, n) \in Row /\ ClosedRow(r, s, n).status = s
         /\ ReopenedRow(r, s) \in Row /\ ReopenedRow(r, s).status = s
         /\ ReplyReopenedRow(r, s) \in Row /\ ReplyReopenedRow(r, s).status = s
  BY DEF Row, MovedRow, ResolvedRow, ClosedRow, ReopenedRow, ReplyReopenedRow, Never

-----------------------------------------------------------------------------
(* The invariant.                                                          *)

BoardInv == TypeOK /\ HistoryChain /\ ClosedIsGuarded

LEMMA InitBoard == Init => BoardInv
  BY StatusAssumption, DayAssumption
     DEF Init, BoardInv, TypeOK, HistoryChain, ClosedIsGuarded, Row

\* What every operation that writes a row and records it has in common.
LEMMA WriteKeeps ==
  ASSUME BoardInv, NEW t \in Tickets, NEW r \in Row, NEW by \in Actors, Write(t, r, by),
         r.status = ClosedStatus => by \in {"admin", "system"},
         ticket[t].status = ClosedStatus => by # "user",
         granted' \subseteq Tickets
  PROVE  BoardInv'
<1> DEFINE e == [from |-> ticket[t].status, to |-> r.status, by |-> by]
<1>1. ticket[t] \in Row /\ ticket[t] # Nil /\ r # Nil /\ history[t] \in Seq(Entry)
  BY NilAssumption DEF BoardInv, TypeOK, Write, Created
<1>2. e \in Entry
  BY <1>1 DEF Row, Entry
<1>3. /\ ticket' = [ticket EXCEPT ![t] = r]
      /\ history' = [history EXCEPT ![t] = Append(@, e)]
      /\ now' = now
  BY DEF Write
<1>4. TypeOK'
  BY <1>1, <1>2, <1>3 DEF BoardInv, TypeOK
<1>5. HistoryChain'
  <2> SUFFICES ASSUME NEW u \in Tickets
               PROVE  LET h == history'[u] IN
                      IF ticket'[u] = Nil
                      THEN h = <<>>
                      ELSE /\ h # <<>>
                           /\ h[1].from = Nil
                           /\ \A i \in 1..(Len(h) - 1) : h[i + 1].from = h[i].to
                           /\ h[Len(h)].to = ticket'[u].status
    BY DEF HistoryChain
  <2>1. CASE u # t
    BY <2>1, <1>3 DEF BoardInv, TypeOK, HistoryChain
  <2>2. CASE u = t
    <3> DEFINE h == history[t]
    <3>1. /\ h # <<>> /\ h[1].from = Nil
          /\ \A i \in 1..(Len(h) - 1) : h[i + 1].from = h[i].to
          /\ h[Len(h)].to = ticket[t].status
      BY <1>1 DEF BoardInv, HistoryChain
    <3>2. history'[t] = Append(h, e) /\ ticket'[t] = r
      BY <1>3 DEF BoardInv, TypeOK
    <3>3. /\ Len(Append(h, e)) = Len(h) + 1 /\ Len(h) \in Nat \ {0}
          /\ \A i \in 1..Len(h) : Append(h, e)[i] = h[i]
          /\ Append(h, e)[Len(h) + 1] = e
          /\ Append(h, e) # <<>>
      BY <1>1, <1>2, <3>1
    <3> HIDE DEF h, e
    <3>4. \A i \in 1..(Len(h) + 1 - 1) : Append(h, e)[i + 1].from = Append(h, e)[i].to
      <4> TAKE i \in 1..(Len(h) + 1 - 1)
      <4>1. CASE i = Len(h)
        BY <4>1, <3>1, <3>3 DEF e
      <4>2. CASE i # Len(h)
        <5>1. i \in 1..(Len(h) - 1) /\ i + 1 \in 1..Len(h) /\ i \in 1..Len(h)
          BY <4>2, <3>3
        <5> QED BY <5>1, <3>1, <3>3
      <4> QED BY <4>1, <4>2
    <3>5. Append(h, e)[1].from = Nil
      BY <3>1, <3>3
    <3>6. Append(h, e)[Len(Append(h, e))].to = r.status
      BY <3>3 DEF e
    <3> QED BY <2>2, <1>1, <3>2, <3>3, <3>4, <3>5, <3>6
  <2> QED BY <2>1, <2>2
<1>6. ClosedIsGuarded'
  <2> SUFFICES ASSUME NEW u \in Tickets, NEW i \in DOMAIN history'[u]
               PROVE  /\ history'[u][i].to = ClosedStatus
                           => history'[u][i].by \in {"admin", "system"}
                      /\ history'[u][i].from = ClosedStatus => history'[u][i].by # "user"
    BY DEF ClosedIsGuarded
  <2>1. CASE u # t
    BY <2>1, <1>3 DEF BoardInv, TypeOK, ClosedIsGuarded
  <2>2. CASE u = t
    <3>1. history'[t] = Append(history[t], e)
      BY <1>3 DEF BoardInv, TypeOK
    <3>2. \/ i \in DOMAIN history[t] /\ history'[t][i] = history[t][i]
          \/ history'[t][i] = e
      BY <3>1, <1>1, <1>2, <2>2
    <3> QED BY <2>2, <3>2 DEF BoardInv, ClosedIsGuarded
  <2> QED BY <2>1, <2>2
<1> QED BY <1>4, <1>5, <1>6 DEF BoardInv

LEMMA CreateKeeps ==
  ASSUME BoardInv, NEW t \in Tickets, NEW by \in Roles, Create(t, by)
  PROVE  BoardInv'
<1> DEFINE e == [from |-> Nil, to |-> NewStatus, by |-> by]
<1>1. CreatedRow(NewStatus) \in Row /\ CreatedRow(NewStatus).status = NewStatus
  BY StatusAssumption, CreatedRowIsRow DEF SystemStatuses
<1>2. e \in Entry
  BY StatusAssumption DEF Entry, Actors, SystemStatuses
<1>3. /\ ticket' = [ticket EXCEPT ![t] = CreatedRow(NewStatus)]
      /\ history' = [history EXCEPT ![t] = <<e>>]
      /\ granted' = granted /\ now' = now
  BY DEF Create
<1> HIDE DEF e
<1>4. TypeOK'
  <2>1. <<e>> \in Seq(Entry)
    BY <1>2
  <2> QED BY <2>1, <1>1, <1>3 DEF BoardInv, TypeOK
<1>5. /\ <<e>> # <<>> /\ Len(<<e>>) = 1 /\ <<e>>[1] = e /\ DOMAIN <<e>> = {1}
      /\ e.from = Nil /\ e.to = NewStatus /\ Nil # CreatedRow(NewStatus)
      /\ NewStatus # ClosedStatus /\ Nil # ClosedStatus
  BY <1>1, NilAssumption, StatusAssumption DEF e, SystemStatuses
<1>6. /\ ticket'[t] = CreatedRow(NewStatus) /\ history'[t] = <<e>>
      /\ \A u \in Tickets \ {t} : ticket'[u] = ticket[u] /\ history'[u] = history[u]
  BY <1>3 DEF BoardInv, TypeOK
<1>7. HistoryChain'
  <2> DEFINE Chain(h, r) == IF r = Nil
                            THEN h = <<>>
                            ELSE /\ h # <<>>
                                 /\ h[1].from = Nil
                                 /\ \A i \in 1..(Len(h) - 1) : h[i + 1].from = h[i].to
                                 /\ h[Len(h)].to = r.status
  <2>1. \A u \in Tickets : Chain(history[u], ticket[u])
    BY DEF BoardInv, HistoryChain
  <2>2. Chain(<<e>>, CreatedRow(NewStatus))
    BY <1>1, <1>5
  <2>3. (\A u \in Tickets : Chain(history'[u], ticket'[u])) => HistoryChain'
    BY DEF HistoryChain
  <2> HIDE DEF Chain
  <2>4. ASSUME NEW u \in Tickets PROVE Chain(history'[u], ticket'[u])
    <3>1. CASE u # t
      BY ONLY <3>1, <1>6, <2>1, u \in Tickets
    <3>2. CASE u = t
      BY ONLY <3>2, <1>6, <2>2
    <3> QED BY ONLY <3>1, <3>2
  <2> QED BY ONLY <2>3, <2>4
<1>8. ClosedIsGuarded'
  <2> SUFFICES ASSUME NEW u \in Tickets, NEW i \in DOMAIN history'[u]
               PROVE  /\ history'[u][i].to = ClosedStatus
                           => history'[u][i].by \in {"admin", "system"}
                      /\ history'[u][i].from = ClosedStatus => history'[u][i].by # "user"
    BY DEF ClosedIsGuarded
  <2>1. CASE u # t
    BY <2>1, <1>6 DEF BoardInv, ClosedIsGuarded
  <2>2. CASE u = t
    BY <2>2, <1>5, <1>6
  <2> QED BY <2>1, <2>2
<1> QED BY <1>4, <1>7, <1>8 DEF BoardInv

LEMMA AssignKeeps ==
  ASSUME BoardInv, NEW t \in Tickets, NEW a \in Assignees \cup {Nil}, Assign(t, a)
  PROVE  BoardInv'
<1> DEFINE row == AssignedRow(ticket[t], a)
<1>1. /\ row \in Row /\ row.status = ticket[t].status /\ row # Nil /\ ticket[t] # Nil
  BY NilAssumption, AssignedRowIsRow DEF BoardInv, TypeOK, Assign, Created
<1>2. /\ ticket' = [ticket EXCEPT ![t] = row]
      /\ history' = history /\ granted' = granted /\ now' = now
  BY DEF Assign
<1> HIDE DEF row
<1>3. TypeOK'
  BY <1>1, <1>2 DEF BoardInv, TypeOK
<1>4. \A u \in Tickets : u # t => ticket'[u] = ticket[u]
  BY <1>2 DEF BoardInv, TypeOK
<1>5. ticket'[t] = row
  BY <1>2 DEF BoardInv, TypeOK
<1>6. HistoryChain'
  BY <1>1, <1>2, <1>4, <1>5 DEF BoardInv, HistoryChain
<1>7. ClosedIsGuarded'
  BY <1>2 DEF BoardInv, ClosedIsGuarded
<1> QED BY <1>3, <1>6, <1>7 DEF BoardInv

LEMMA NextBoard == BoardInv /\ [Next]_vars => BoardInv'
<1> SUFFICES ASSUME BoardInv, [Next]_vars PROVE BoardInv'
  OBVIOUS
<1> USE DEF WriteOnly
<1>types. /\ \A t \in Tickets : ticket[t] \in Row \cup {Nil}
          /\ granted \subseteq Tickets /\ now \in Nat /\ 0 \in Nat
          /\ SystemStatuses \subseteq Statuses /\ ClosedStatus # ResolvedStatus
          /\ Roles \subseteq Actors /\ {"user", "system", "admin"} \subseteq Actors
  BY StatusAssumption DEF BoardInv, TypeOK, Actors, Roles
<1>1. ASSUME NEW t \in Tickets, NEW by \in Roles, Create(t, by) PROVE BoardInv'
  BY <1>1, CreateKeeps
<1>2. ASSUME NEW t \in Tickets, NEW by \in Roles, Resolve(t, by) PROVE BoardInv'
  <2> DEFINE row == ResolvedRow(ticket[t], ResolvedStatus, now)
  <2>1. /\ ticket[t] \in Row /\ by \in Actors /\ by # "user"
        /\ Write(t, row, by) /\ granted' = granted
    BY <1>2, <1>types DEF Resolve, Write, Created
  <2>2. row \in Row /\ row.status = ResolvedStatus
    BY <2>1, <1>types, RowsAreRows DEF SystemStatuses
  <2> QED BY <2>1, <2>2, <1>types, WriteKeeps
<1>3. ASSUME NEW t \in Tickets, NEW by \in Roles, NEW s \in Statuses, UpdateStatus(t, s, by)
      PROVE BoardInv'
  <2> DEFINE row == MovedRow(ticket[t], s)
  <2>1. /\ ticket[t] \in Row /\ by \in Actors /\ by # "user" /\ (s = ClosedStatus => by = "admin")
        /\ Write(t, row, by) /\ granted' = granted
    BY <1>3, <1>types DEF UpdateStatus, Write, Created
  <2>2. row \in Row /\ row.status = s
    BY <2>1, <1>types, RowsAreRows
  <2> QED BY <2>1, <2>2, <1>types, WriteKeeps
<1>4. ASSUME NEW t \in Tickets, NEW by \in Roles, NEW s \in Statuses, Reopen(t, s, by)
      PROVE BoardInv'
  <2> DEFINE row == ReopenedRow(ticket[t], s)
  <2>1. /\ ticket[t] \in Row /\ by \in Actors /\ by # "user" /\ s # ClosedStatus
        /\ Write(t, row, by) /\ granted' = granted
    BY <1>4, <1>types DEF Reopen, Write, Created
  <2>2. row \in Row /\ row.status = s
    BY <2>1, <1>types, RowsAreRows
  <2> QED BY <2>1, <2>2, <1>types, WriteKeeps
<1>5. ASSUME NEW t \in Tickets, NEW s \in Statuses, ReplyReopens(t, s) PROVE BoardInv'
  <2> DEFINE row == ReplyReopenedRow(ticket[t], s)
  <2>1. /\ ticket[t] \in Row /\ ticket[t].status = ResolvedStatus /\ s # ClosedStatus
        /\ Write(t, row, "user") /\ granted' \subseteq Tickets
    BY <1>5, <1>types DEF ReplyReopens, Write, Created
  <2>2. row \in Row /\ row.status = s
    BY <2>1, <1>types, RowsAreRows
  <2> QED BY <2>1, <2>2, <1>types, WriteKeeps
<1>6. ASSUME NEW t \in Tickets, NEW a \in Assignees \cup {Nil}, Assign(t, a) PROVE BoardInv'
  BY <1>6, AssignKeeps
<1>7. ASSUME NEW t \in Tickets, Close(t) PROVE BoardInv'
  <2> DEFINE row == ClosedRow(ticket[t], ClosedStatus, now)
  <2>1. ticket[t] \in Row /\ Write(t, row, "system") /\ granted' = granted
    BY <1>7, <1>types DEF Close, Write, Created
  <2>2. row \in Row /\ row.status = ClosedStatus
    BY <2>1, <1>types, RowsAreRows DEF SystemStatuses
  <2> QED BY <2>1, <2>2, <1>types, WriteKeeps
<1>8. ASSUME NEW t \in Tickets, AcceptReply(t) PROVE BoardInv'
  BY <1>8 DEF AcceptReply, BoardInv, TypeOK, HistoryChain, ClosedIsGuarded
<1>9. ASSUME Tick PROVE BoardInv'
  BY <1>9, DayAssumption DEF Tick, BoardInv, TypeOK, HistoryChain, ClosedIsGuarded
<1>10. ASSUME UNCHANGED vars PROVE BoardInv'
  BY <1>10 DEF vars, BoardInv, TypeOK, HistoryChain, ClosedIsGuarded
<1> QED
  BY <1>1, <1>2, <1>3, <1>4, <1>5, <1>6, <1>7, <1>8, <1>9, <1>10 DEF Next

\* Every state of the board is well typed.
THEOREM BoardTypes == Spec => []TypeOK
<1>1. BoardInv => TypeOK
  BY DEF BoardInv
<1> QED BY InitBoard, NextBoard, <1>1, PTL DEF Spec

\* The history of a ticket is its whole life, whatever the sequence of operations
\* of the ticket service (atomic here).
THEOREM BoardChain == Spec => []HistoryChain
<1>1. BoardInv => HistoryChain
  BY DEF BoardInv
<1> QED BY InitBoard, NextBoard, <1>1, PTL DEF Spec

\* Only administrators and the system close, and no reporter takes a ticket out of
\* Closed: CanTransitionStatus, Close and Reopen together.
THEOREM BoardGuard == Spec => []ClosedIsGuarded
<1>1. BoardInv => ClosedIsGuarded
  BY DEF BoardInv
<1> QED BY InitBoard, NextBoard, <1>1, PTL DEF Spec
=============================================================================
