------------------------- MODULE UserAccounts_proofs -------------------------
(***************************************************************************)
(* What holds of the accounts for any number of users, requests, failures  *)
(* and spellings of addresses.                                             *)
(*                                                                         *)
(* AccountInv is the type invariant with what a request holds at each of   *)
(* its statements (WorkerOK); it is inductive.                             *)
(***************************************************************************)
EXTENDS AccountServiceVersions, TLAPS

UserOps == {"setPassword", "enroll", "confirm", "edit", "delete"}

\* The statements a request of op runs through.
StepsOf(op) ==
  CASE op = "create"   -> {"insert"}
    [] op = "setup"    -> {"count", "insert"}
    [] op = "register" -> {"upsert", "mail"}
    [] op = "verify"   -> {"getPending", "insert", "deletePending"}
    [] op = "saml"     -> {"getSubject", "insert", "update"}
    [] op = "oidc"     -> {"getSubject", "getByEmail", "insert", "update"}
    [] op = "edit"     -> {"toggle", "reset", "get", "update"}
    [] op = "delete"   -> {"softDelete"}
    [] op \in {"setPassword", "enroll", "confirm"} -> {"get", "update"}

\* What a request carries, by its operation.
WellFormed(c) ==
  /\ c \in Call
  /\ c.op \in UserOps => c.user \in Users
  /\ c.op \in {"enroll", "confirm"} => c.secret \in Secrets
  /\ c.op = "edit" => c.edit \in Edits
  /\ c.op \in {"setup", "register"} => c.email \in Emails
  /\ c.op \in {"register", "verify"} => c.token \in Tokens
  /\ c.op \in {"saml", "oidc"} => c.subject \in Subjects /\ c.email \in Asserts[c.subject]

\* A worker in the middle of a request.
WorkerOK(w) ==
  pc[w] # "idle" =>
    /\ WellFormed(call[w])
    /\ pc[w] \in StepsOf(call[w].op)
    /\ call[w].op \in UserOps => Exists(call[w].user)
    /\ pc[w] \in {"insert", "update"} => row[w] \in Row
    /\ pc[w] = "update" => uid[w] \in Users /\ Exists(uid[w])
    /\ pc[w] = "toggle" => call[w].edit.toggle # Nil
    /\ call[w].op = "verify" /\ pc[w] \in {"insert", "deletePending"} => reg[w] \in PendingRow

WorkersOK == \A w \in Workers : WorkerOK(w)

AccountInv == TypeOK /\ WorkersOK

-----------------------------------------------------------------------------
(* What the assumptions say of addresses.                                  *)

LEMMA LowerFacts ==
  /\ \A e \in Emails : Lower[e] \in Emails /\ Lower[Lower[e]] = Lower[e] /\ Lower[e] \in Addresses
  /\ \A e \in Addresses : e \in Emails /\ Lower[e] = e
  /\ \A s \in Subjects : Asserts[s] \subseteq Emails
  BY LowerAssumption, AddressAssumption DEF Addresses

LEMMA NewRowFacts ==
  ASSUME NEW e \in Emails, NEW r \in Roles
  PROVE  /\ NewRow(e, r) \in Row
         /\ \A s \in Subjects : /\ [NewRow(e, r) EXCEPT !.saml = s] \in Row
                                /\ [NewRow(e, r) EXCEPT !.oidc = s] \in Row
  BY LowerFacts DEF NewRow, Row

LEMMA RolesFacts == {"user", "staff", "admin"} \subseteq Roles
  BY DEF Roles

-----------------------------------------------------------------------------
(* The two halves of the type invariant: what workers hold, and the rest.  *)

LocalTypes ==
  /\ pc \in [Workers -> Steps]
  /\ call \in [Workers -> Call \cup {Nil}]
  /\ uid \in [Workers -> Users \cup {Nil}]
  /\ row \in [Workers -> Row \cup {Nil}]
  /\ reg \in [Workers -> PendingRow \cup {Nil}]

GlobalTypes ==
  /\ account \in [Users -> Row \cup {Nil}]
  /\ pending \in [Addresses -> PendingRow \cup {Nil}]
  /\ mailed \subseteq Mail
  /\ issued \subseteq Secrets
  /\ versions \in [Users -> SUBSET Row]
  /\ now \in 1..MaxDay
  /\ requests \in 0..MaxRequests
  /\ faults \in 0..MaxFaults

\* No row of users ever goes.
AccountsStay == \A u \in Users : account[u] # Nil => account'[u] # Nil

\* A worker that does not move stays as it should be.
LEMMA StillOK ==
  ASSUME AccountInv, AccountsStay, NEW v \in Workers,
         pc'[v] = pc[v], call'[v] = call[v], uid'[v] = uid[v],
         row'[v] = row[v], reg'[v] = reg[v]
  PROVE  WorkerOK(v)'
  BY DEF AccountInv, WorkersOK, WorkerOK, WellFormed, AccountsStay, Exists

\* A request that ends leaves its worker idle.
LEMMA IdleKeeps ==
  ASSUME AccountInv, AccountsStay, NEW w \in Workers, Idle(w)
  PROVE  LocalTypes' /\ WorkersOK'
<1>1. LocalTypes'
  BY DEF AccountInv, TypeOK, LocalTypes, Idle, Steps
<1>2. /\ pc'[w] = "idle"
      /\ \A v \in Workers \ {w} : /\ pc'[v] = pc[v] /\ call'[v] = call[v] /\ uid'[v] = uid[v]
                                  /\ row'[v] = row[v] /\ reg'[v] = reg[v]
  BY DEF AccountInv, TypeOK, Idle
<1>3. WorkerOK(w)'
  BY <1>2 DEF WorkerOK
<1>4. ASSUME NEW v \in Workers \ {w} PROVE WorkerOK(v)'
  BY <1>2, StillOK
<1> QED BY <1>1, <1>3, <1>4 DEF WorkersOK

\* A request that goes on to a statement that needs nothing more.
LEMMA ProceedKeeps ==
  ASSUME AccountInv, AccountsStay, NEW w \in Workers, pc[w] # "idle",
         NEW step \in Steps \ {"insert", "update", "toggle"}, Proceed(w, step),
         step # "idle" => step \in StepsOf(call[w].op),
         step = "deletePending" => reg[w] \in PendingRow
  PROVE  LocalTypes' /\ WorkersOK'
<1>1. CASE step = "idle"
  BY <1>1, IdleKeeps DEF Proceed
<1>2. CASE step # "idle"
  <2>1. pc' = [pc EXCEPT ![w] = step] /\ UNCHANGED <<call, uid, row, reg>>
    BY <1>2 DEF Proceed
  <2>2. LocalTypes'
    BY <2>1 DEF AccountInv, TypeOK, LocalTypes
  <2>3. pc'[w] = step /\ \A v \in Workers \ {w} : pc'[v] = pc[v]
    BY <2>1 DEF AccountInv, TypeOK
  <2>4. WorkerOK(w)'
    <3>1. WorkerOK(w) /\ WellFormed(call[w])'
      BY <2>1 DEF AccountInv, WorkersOK, WorkerOK, WellFormed
    <3> QED BY <3>1, <2>1, <2>3, <1>2 DEF WorkerOK, WellFormed, AccountsStay, Exists, UserOps
  <2>5. ASSUME NEW v \in Workers \ {w} PROVE WorkerOK(v)'
    BY <2>1, <2>3, StillOK
  <2> QED BY <2>2, <2>4, <2>5 DEF WorkersOK
<1> QED BY <1>1, <1>2

\* A request that goes on to create an account.
LEMMA GoInsertKeeps ==
  ASSUME AccountInv, AccountsStay, NEW w \in Workers, pc[w] # "idle", NEW r \in Row,
         GoInsert(w, r), "insert" \in StepsOf(call[w].op),
         NEW x \in PendingRow \cup {Nil}, reg' = [reg EXCEPT ![w] = x],
         call[w].op = "verify" => x \in PendingRow
  PROVE  LocalTypes' /\ WorkersOK'
<1>1. LocalTypes'
  BY DEF AccountInv, TypeOK, LocalTypes, GoInsert, Steps
<1>2. /\ pc'[w] = "insert" /\ row'[w] = r /\ call' = call /\ uid' = uid /\ reg'[w] = x
      /\ \A v \in Workers \ {w} : pc'[v] = pc[v] /\ row'[v] = row[v] /\ reg'[v] = reg[v]
  BY DEF AccountInv, TypeOK, GoInsert
<1>3. WorkerOK(w)'
  <2>1. WorkerOK(w) /\ WellFormed(call[w])'
    BY <1>2 DEF AccountInv, WorkersOK, WorkerOK, WellFormed
  <2> QED BY <2>1, <1>2 DEF WorkerOK, WellFormed, AccountsStay, Exists
<1>4. ASSUME NEW v \in Workers \ {w} PROVE WorkerOK(v)'
  BY <1>2, StillOK
<1> QED BY <1>1, <1>3, <1>4 DEF WorkersOK

\* A request that goes on to write the account it has read.
LEMMA GoUpdateKeeps ==
  ASSUME AccountInv, AccountsStay, NEW w \in Workers, pc[w] # "idle",
         NEW u \in Users, Exists(u), NEW r \in Row,
         GoUpdate(w, u, r), "update" \in StepsOf(call[w].op)
  PROVE  LocalTypes' /\ WorkersOK'
<1>1. LocalTypes'
  BY DEF AccountInv, TypeOK, LocalTypes, GoUpdate, Steps
<1>2. /\ pc'[w] = "update" /\ row'[w] = r /\ call' = call /\ uid'[w] = u /\ reg' = reg
      /\ \A v \in Workers \ {w} : pc'[v] = pc[v] /\ row'[v] = row[v] /\ uid'[v] = uid[v]
  BY DEF AccountInv, TypeOK, GoUpdate
<1>3. WorkerOK(w)'
  <2>1. WorkerOK(w) /\ WellFormed(call[w])'
    BY <1>2 DEF AccountInv, WorkersOK, WorkerOK, WellFormed
  <2> QED BY <2>1, <1>2 DEF WorkerOK, WellFormed, AccountsStay, Exists
<1>4. ASSUME NEW v \in Workers \ {w} PROVE WorkerOK(v)'
  BY <1>2, StillOK
<1> QED BY <1>1, <1>3, <1>4 DEF WorkersOK

\* A request that may arrive, with its first statement.
Acceptable(c, step) ==
  /\ WellFormed(c)
  /\ step \in StepsOf(c.op)
  /\ step \in Steps \ {"idle", "update", "deletePending"}
  /\ c.op \in UserOps => Exists(c.user)
  /\ step = "toggle" => c.edit.toggle # Nil

\* A request that arrives.
LEMMA AcceptKeeps ==
  ASSUME AccountInv, NEW w \in Workers, NEW c, NEW step, Accept(w, c, step), Acceptable(c, step),
         row' \in [Workers -> Row \cup {Nil}],
         \A v \in Workers \ {w} : row'[v] = row[v],
         step = "insert" => row'[w] \in Row /\ c.op # "verify"
  PROVE  AccountInv'
<1>1. /\ pc' = [pc EXCEPT ![w] = step] /\ call' = [call EXCEPT ![w] = c]
      /\ requests < MaxRequests /\ requests' = requests + 1
      /\ UNCHANGED <<account, pending, uid, reg, mailed, issued, versions, now, faults>>
  BY DEF Accept, dbVars
<1>2. c \in Call
  BY DEF Acceptable, WellFormed
<1>3. TypeOK'
  BY <1>1, <1>2, AccountAssumption DEF AccountInv, TypeOK, Acceptable
<1>4. /\ pc'[w] = step /\ call'[w] = c
      /\ \A v \in Workers \ {w} : pc'[v] = pc[v] /\ call'[v] = call[v]
  BY <1>1 DEF AccountInv, TypeOK
<1>5. WorkerOK(w)'
  <2>1. WellFormed(call[w])'
    BY <1>4 DEF WellFormed, Acceptable
  <2> QED BY <2>1, <1>1, <1>4 DEF WorkerOK, Exists, Acceptable
<1>6. ASSUME NEW v \in Workers \ {w} PROVE WorkerOK(v)'
  BY <1>1, <1>4, StillOK DEF AccountsStay
<1> QED BY <1>3, <1>5, <1>6 DEF AccountInv, WorkersOK

\* A request that begins with another statement than an insertion.
LEMMA AcceptCallKeeps ==
  ASSUME AccountInv, NEW w \in Workers, NEW c, NEW step, AcceptCall(w, c, step),
         Acceptable(c, step), step # "insert"
  PROVE  AccountInv'
  BY AcceptKeeps DEF AcceptCall, AccountInv, TypeOK

-----------------------------------------------------------------------------
(* The first state and the arriving requests.                              *)

LEMMA InitAccountInv ==
  Init => AccountInv
<1> SUFFICES ASSUME Init PROVE AccountInv
  OBVIOUS
<1>0. \A u \in Users : SeededRow(u) \in Row \cup {Nil}
  BY SeededAssumption, LowerFacts, NewRowFacts, RolesFacts DEF SeededRow
<1>1. account \in [Users -> Row \cup {Nil}]
  BY <1>0 DEF Init
<1>2. versions \in [Users -> SUBSET Row]
  BY <1>0 DEF Init
<1>3. TypeOK
  BY <1>1, <1>2, AccountAssumption DEF Init, TypeOK, Steps
<1>4. WorkersOK
  BY DEF Init, WorkersOK, WorkerOK
<1> QED BY <1>3, <1>4 DEF AccountInv

\* What the environment has seen to: tokens and secrets that are new or come from where
\* the users know them from.
Vouched(c) ==
  /\ c.op = "register" =>
       /\ Lower[c.email] \in MaySignUp
       /\ \A e \in Addresses : pending[e] # Nil => pending[e].token # c.token
       /\ \A m \in mailed : m.token # c.token
       /\ \A v \in Workers : call[v] # Nil => call[v].token # c.token
  /\ c.op = "verify" => \E m \in mailed : m.token = c.token
  /\ c.op = "enroll" => /\ c.secret \notin issued
                        /\ \A v \in Workers : call[v] # Nil => call[v].secret # c.secret
  /\ c.op = "confirm" => c.secret \in issued

\* Every handler but that of the creation of an account begins like this.
Arrives(w) ==
  \E c \in Call, step \in Steps \ {"insert"} :
    /\ AcceptCall(w, c, step) /\ Acceptable(c, step) /\ Vouched(c)
    /\ step = "upsert" => HandleSignup(w)

LEMMA ArrivesBy ==
  ASSUME NEW w \in Workers, NEW c, NEW step, AcceptCall(w, c, step), Acceptable(c, step),
         Vouched(c), step # "insert", step = "upsert" => HandleSignup(w)
  PROVE  Arrives(w)
  BY DEF Arrives, Acceptable, WellFormed

LEMMA Arrivals ==
  ASSUME AccountInv, NEW w \in Workers, Handle(w)
  PROVE  HandleCreateUser(w) \/ Arrives(w)
<1>0. mailed \subseteq Mail /\ issued \subseteq Secrets
  BY DEF AccountInv, TypeOK
<1>2. CASE HandleSetup(w)
  <2>1. PICK e \in Emails :
           AcceptCall(w, [NoCall EXCEPT !.op = "setup", !.email = e], "count")
    BY <1>2 DEF HandleSetup
  <2> DEFINE c == [NoCall EXCEPT !.op = "setup", !.email = e]
  <2>2. Acceptable(c, "count") /\ "count" # "insert"
    BY <1>0 DEF Acceptable, WellFormed, StepsOf, UserOps, Steps, NoCall, Call, AllOps, Exists
  <2>3. Vouched(c)
    BY <2>1 DEF Vouched, NoCall
  <2> QED BY <2>1, <2>2, <2>3, ArrivesBy
<1>3. CASE HandleSignup(w)
  <2>1. PICK e \in Emails, k \in Tokens :
           /\ Lower[e] \in MaySignUp
           /\ \A f \in Addresses : pending[f] # Nil => pending[f].token # k
           /\ \A v \in Workers : call[v] # Nil => call[v].token # k
           /\ \A m \in mailed : m.token # k
           /\ AcceptCall(w, [NoCall EXCEPT !.op = "register", !.email = e, !.token = k], "upsert")
    BY <1>3 DEF HandleSignup
  <2> DEFINE c == [NoCall EXCEPT !.op = "register", !.email = e, !.token = k]
  <2>2. Acceptable(c, "upsert") /\ "upsert" # "insert"
    BY <1>0 DEF Acceptable, WellFormed, StepsOf, UserOps, Steps, NoCall, Call, AllOps, Exists
  <2>3. Vouched(c)
    BY <2>1 DEF Vouched, NoCall
  <2> QED BY <1>3, <2>1, <2>2, <2>3, ArrivesBy
<1>4. CASE HandleVerifyEmail(w)
  <2>1. PICK m \in mailed :
           AcceptCall(w, [NoCall EXCEPT !.op = "verify", !.token = m.token], "getPending")
    BY <1>4 DEF HandleVerifyEmail
  <2> DEFINE c == [NoCall EXCEPT !.op = "verify", !.token = m.token]
  <2>0. m.token \in Tokens
    BY <1>0 DEF Mail
  <2>2. Acceptable(c, "getPending") /\ "getPending" # "insert"
    BY <2>0 DEF Acceptable, WellFormed, StepsOf, UserOps, Steps, NoCall, Call, AllOps, Exists
  <2>3. Vouched(c)
    BY <2>1 DEF Vouched, NoCall
  <2> QED BY <2>1, <2>2, <2>3, ArrivesBy
<1>5. CASE HandleChangePassword(w)
  <2>1. PICK u \in {v \in Users : Exists(v)} :
           AcceptCall(w, [NoCall EXCEPT !.op = "setPassword", !.user = u], "get")
    BY <1>5 DEF HandleChangePassword
  <2> DEFINE c == [NoCall EXCEPT !.op = "setPassword", !.user = u]
  <2>2. Acceptable(c, "get") /\ "get" # "insert"
    BY <1>0 DEF Acceptable, WellFormed, StepsOf, UserOps, Steps, NoCall, Call, AllOps, Exists
  <2>3. Vouched(c)
    BY <2>1 DEF Vouched, NoCall
  <2> QED BY <2>1, <2>2, <2>3, ArrivesBy
<1>6. CASE HandleMFAEnrollStart(w)
  <2>1. PICK u \in {v \in Users : Exists(v)}, x \in Secrets \ issued :
           /\ \A v \in Workers : call[v] # Nil => call[v].secret # x
           /\ AcceptCall(w, [NoCall EXCEPT !.op = "enroll", !.user = u, !.secret = x], "get")
    BY <1>6 DEF HandleMFAEnrollStart
  <2> DEFINE c == [NoCall EXCEPT !.op = "enroll", !.user = u, !.secret = x]
  <2>2. Acceptable(c, "get") /\ "get" # "insert"
    BY <1>0 DEF Acceptable, WellFormed, StepsOf, UserOps, Steps, NoCall, Call, AllOps, Exists
  <2>3. Vouched(c)
    BY <2>1 DEF Vouched, NoCall
  <2> QED BY <2>1, <2>2, <2>3, ArrivesBy
<1>7. CASE HandleMFAEnrollConfirm(w)
  <2>1. PICK u \in {v \in Users : Exists(v)}, x \in issued :
           AcceptCall(w, [NoCall EXCEPT !.op = "confirm", !.user = u, !.secret = x], "get")
    BY <1>7 DEF HandleMFAEnrollConfirm
  <2> DEFINE c == [NoCall EXCEPT !.op = "confirm", !.user = u, !.secret = x]
  <2>2. Acceptable(c, "get") /\ "get" # "insert"
    BY <1>0 DEF Acceptable, WellFormed, StepsOf, UserOps, Steps, NoCall, Call, AllOps, Exists
  <2>3. Vouched(c)
    BY <2>1 DEF Vouched, NoCall
  <2> QED BY <2>1, <2>2, <2>3, ArrivesBy
<1>8. CASE HandleSAMLSession(w)
  <2>1. PICK s \in Subjects : \E e \in Asserts[s] :
           AcceptCall(w, [NoCall EXCEPT !.op = "saml", !.subject = s, !.email = e], "getSubject")
    BY <1>8 DEF HandleSAMLSession
  <2>0. PICK e \in Asserts[s] :
           AcceptCall(w, [NoCall EXCEPT !.op = "saml", !.subject = s, !.email = e], "getSubject")
    BY <2>1
  <2> DEFINE c == [NoCall EXCEPT !.op = "saml", !.subject = s, !.email = e]
  <2>2. Acceptable(c, "getSubject") /\ "getSubject" # "insert"
    BY <1>0, LowerFacts DEF Acceptable, WellFormed, StepsOf, UserOps, Steps, NoCall, Call, AllOps, Exists
  <2>3. Vouched(c)
    BY <2>0 DEF Vouched, NoCall
  <2> QED BY <2>0, <2>2, <2>3, ArrivesBy
<1>9. CASE HandleOIDCCallback(w)
  <2>1. PICK s \in Subjects : \E e \in Asserts[s] :
           AcceptCall(w, [NoCall EXCEPT !.op = "oidc", !.subject = s, !.email = e], "getSubject")
    BY <1>9 DEF HandleOIDCCallback
  <2>0. PICK e \in Asserts[s] :
           AcceptCall(w, [NoCall EXCEPT !.op = "oidc", !.subject = s, !.email = e], "getSubject")
    BY <2>1
  <2> DEFINE c == [NoCall EXCEPT !.op = "oidc", !.subject = s, !.email = e]
  <2>2. Acceptable(c, "getSubject") /\ "getSubject" # "insert"
    BY <1>0, LowerFacts DEF Acceptable, WellFormed, StepsOf, UserOps, Steps, NoCall, Call, AllOps, Exists
  <2>3. Vouched(c)
    BY <2>0 DEF Vouched, NoCall
  <2> QED BY <2>0, <2>2, <2>3, ArrivesBy
<1>10. CASE HandleUpdateUser(w)
  <2>1. PICK u \in {v \in Users : Exists(v)}, d \in {x \in Edits : FirstPart(x) # "idle"} :
           AcceptCall(w, [NoCall EXCEPT !.op = "edit", !.user = u, !.edit = d], FirstPart(d))
    BY <1>10 DEF HandleUpdateUser
  <2> DEFINE c == [NoCall EXCEPT !.op = "edit", !.user = u, !.edit = d]
  <2>0. FirstPart(d) \in {"toggle", "reset", "get"} /\ (FirstPart(d) = "toggle" => d.toggle # Nil)
    BY DEF FirstPart, ResetPart, ProfilePart
  <2>2. Acceptable(c, FirstPart(d)) /\ FirstPart(d) # "insert"
    BY <1>0, <2>0 DEF Acceptable, WellFormed, StepsOf, UserOps, Steps, NoCall, Call, AllOps, Exists
  <2>3. Vouched(c)
    BY <2>1 DEF Vouched, NoCall
  <2> QED BY <2>0, <2>1, <2>2, <2>3, ArrivesBy
<1>11. CASE HandleDeleteUser(w)
  <2>1. PICK u \in {v \in Users : Exists(v)} :
           AcceptCall(w, [NoCall EXCEPT !.op = "delete", !.user = u], "softDelete")
    BY <1>11 DEF HandleDeleteUser
  <2> DEFINE c == [NoCall EXCEPT !.op = "delete", !.user = u]
  <2>2. Acceptable(c, "softDelete") /\ "softDelete" # "insert"
    BY <1>0 DEF Acceptable, WellFormed, StepsOf, UserOps, Steps, NoCall, Call, AllOps, Exists
  <2>3. Vouched(c)
    BY <2>1 DEF Vouched, NoCall
  <2> QED BY <2>1, <2>2, <2>3, ArrivesBy
<1> QED BY <1>2, <1>3, <1>4, <1>5, <1>6, <1>7, <1>8, <1>9, <1>10, <1>11 DEF Handle

LEMMA HandleKeeps ==
  ASSUME AccountInv, NEW w \in Workers, Handle(w)
  PROVE  AccountInv'
<1>0. row \in [Workers -> Row \cup {Nil}]
  BY DEF AccountInv, TypeOK
<1>1. CASE HandleCreateUser(w)
  <2>1. PICK e \in Emails, r \in Roles :
           /\ Accept(w, [NoCall EXCEPT !.op = "create", !.email = e, !.role = r], "insert")
           /\ row' = [row EXCEPT ![w] = NewRow(e, r)]
    BY <1>1, AccountAssumption DEF HandleCreateUser
  <2> DEFINE c == [NoCall EXCEPT !.op = "create", !.email = e, !.role = r]
  <2>2. Acceptable(c, "insert") /\ c.op = "create"
    BY DEF Acceptable, WellFormed, StepsOf, UserOps, Steps, NoCall, Call, AllOps
  <2>3. /\ row' \in [Workers -> Row \cup {Nil}] /\ row'[w] \in Row
        /\ \A v \in Workers \ {w} : row'[v] = row[v]
    BY <1>0, <2>1, NewRowFacts
  <2> HIDE DEF c
  <2> QED BY <2>1, <2>2, <2>3, AcceptKeeps DEF c
<1>2. CASE Arrives(w)
  BY <1>2, AcceptCallKeeps DEF Arrives
<1> QED BY <1>1, <1>2, Arrivals

-----------------------------------------------------------------------------
(* The statements, one by one.                                             *)

\* What a worker holds at a statement other than an arrival.
LEMMA Holds ==
  ASSUME AccountInv, NEW w \in Workers, pc[w] # "idle"
  PROVE  WorkerOK(w) /\ WellFormed(call[w]) /\ call[w] \in Call /\ pc[w] \in StepsOf(call[w].op)
  BY DEF AccountInv, WorkersOK, WorkerOK, WellFormed

\* The other half of the types, from the two.
LEMMA HalvesMakeInv ==
  ASSUME GlobalTypes', LocalTypes', WorkersOK'
  PROVE  AccountInv'
  BY DEF AccountInv, TypeOK, GlobalTypes, LocalTypes

\* A row that an operation changes stays a row.
LEMMA ChangedType ==
  ASSUME NEW c, WellFormed(c), NEW r \in Row,
         c.op \in {"setPassword", "enroll", "confirm", "saml", "oidc", "edit"}
  PROVE  Changed(c, r) \in Row
<1>1. CASE c.op \in {"setPassword", "enroll", "confirm"}
  BY <1>1 DEF Changed, WellFormed, Row
<1>2. CASE c.op \in {"saml", "oidc"}
  <2>1. Lower[c.email] \in Emails
    BY <1>2, LowerFacts DEF WellFormed
  <2> QED BY <1>2, <2>1 DEF Changed, LoggedIn, Row
<1>3. CASE c.op = "edit"
  <2>1. c.edit \in Edit
    BY <1>3, AddressAssumption DEF WellFormed
  <2>2. /\ c.edit.email \in Emails \cup {Nil} /\ c.edit.role \in Roles \cup {Nil}
    BY <2>1 DEF Edit
  <2>3. Changed(c, r) = [r EXCEPT
                           !.email = IF c.edit.email = Nil THEN @ ELSE c.edit.email,
                           !.role = IF c.edit.role = Nil THEN @ ELSE c.edit.role]
    BY <1>3 DEF Changed, Edited
  <2> QED BY <2>2, <2>3 DEF Row
<1> QED BY <1>1, <1>2, <1>3

\* A look-up that brings no row.
LEMMA AbsentKeeps ==
  ASSUME AccountInv, AccountsStay, NEW w \in Workers, pc[w] \in {"getSubject", "getByEmail"},
         Absent(w)
  PROVE  LocalTypes' /\ WorkersOK'
<1> DEFINE s == call[w].subject
           e == call[w].email
<1>1. /\ WellFormed(call[w]) /\ call[w].op \in {"saml", "oidc"} /\ s \in Subjects /\ e \in Emails
      /\ (pc[w] = "getByEmail" => call[w].op = "oidc")
      /\ "insert" \in StepsOf(call[w].op) /\ (call[w].op = "oidc" => "getByEmail" \in StepsOf(call[w].op))
      /\ reg[w] \in PendingRow \cup {Nil} /\ (UNCHANGED reg => reg' = [reg EXCEPT ![w] = reg[w]])
  BY Holds, LowerFacts DEF WellFormed, Call, AllOps, StepsOf, AccountInv, TypeOK
<1>2. /\ [NewRow(e, "staff") EXCEPT !.oidc = s] \in Row
      /\ [NewRow(e, "user") EXCEPT !.saml = s] \in Row
  BY <1>1, NewRowFacts, RolesFacts
<1>3. CASE pc[w] = "getByEmail"
  <2>1. GoInsert(w, [NewRow(e, "staff") EXCEPT !.oidc = s]) /\ UNCHANGED reg
    BY <1>3 DEF Absent
  <2> HIDE DEF s, e
  <2> QED BY <1>1, <1>2, <1>3, <2>1, GoInsertKeeps
<1>4. CASE pc[w] # "getByEmail" /\ call[w].op = "oidc"
  <2>1. Proceed(w, "getByEmail") /\ "getByEmail" \in Steps \ {"insert", "update", "toggle"}
    BY <1>4 DEF Absent, Steps
  <2> HIDE DEF s, e
  <2> QED BY <1>1, <1>4, <2>1, ProceedKeeps
<1>5. CASE pc[w] # "getByEmail" /\ call[w].op # "oidc"
  <2>1. CASE Lower[e] \in MayFederate
    <3>1. GoInsert(w, [NewRow(e, "user") EXCEPT !.saml = s]) /\ UNCHANGED reg
      BY <1>5, <2>1 DEF Absent
    <3> HIDE DEF s, e
    <3> QED BY <1>1, <1>2, <1>5, <3>1, GoInsertKeeps
  <2>2. CASE Lower[e] \notin MayFederate
    BY <1>5, <2>2, IdleKeeps DEF Absent
  <2> QED BY <2>1, <2>2
<1> QED BY <1>3, <1>4, <1>5

\* Statements that only read leave the tables and the observers as they are.
LEMMA ReadKeeps ==
  ASSUME AccountInv, UNCHANGED <<dbVars, mailed, issued, versions, now, bounds>>
  PROVE  GlobalTypes' /\ AccountsStay
  BY DEF AccountInv, TypeOK, GlobalTypes, AccountsStay, dbVars, bounds

\* A row of users is written.
LEMMA PutKeeps ==
  ASSUME AccountInv, NEW u \in Users, NEW r \in Row, Put(u, r),
         UNCHANGED <<pending, mailed, issued, now, bounds>>
  PROVE  GlobalTypes' /\ AccountsStay
  BY RowAssumption DEF AccountInv, TypeOK, GlobalTypes, AccountsStay, Put, bounds

LEMMA CountUsersKeeps ==
  ASSUME AccountInv, NEW w \in Workers, CountUsers(w)
  PROVE  AccountInv'
<1>1. GlobalTypes' /\ AccountsStay
  BY ReadKeeps DEF CountUsers
<1>2. LocalTypes' /\ WorkersOK'
  <2>1. CASE Idle(w)
    BY <1>1, <2>1, IdleKeeps
  <2>2. CASE GoInsert(w, NewRow(call[w].email, "admin")) /\ UNCHANGED reg
    <3>1. /\ call[w].op = "setup" /\ call[w].email \in Emails /\ "insert" \in StepsOf("setup")
          /\ pc[w] # "idle"
      BY Holds DEF CountUsers, WellFormed, StepsOf, Call, AllOps
    <3>2. NewRow(call[w].email, "admin") \in Row
      BY <3>1, NewRowFacts, RolesFacts
    <3>3. reg[w] \in PendingRow \cup {Nil} /\ reg' = [reg EXCEPT ![w] = reg[w]]
      BY <2>2 DEF AccountInv, TypeOK
    <3> QED BY <1>1, <2>2, <3>1, <3>2, <3>3, GoInsertKeeps
  <2> QED BY <2>1, <2>2 DEF CountUsers
<1> QED BY <1>1, <1>2, HalvesMakeInv

LEMMA InsertKeeps ==
  ASSUME AccountInv, NEW w \in Workers, Insert(w)
  PROVE  AccountInv'
<1>1. /\ pc[w] = "insert" /\ row[w] \in Row /\ row[w].email \in Emails
      /\ call[w].op = "verify" => reg[w] \in PendingRow
  BY Holds DEF Insert, WorkerOK, Row
<1>2. CASE EmailTaken(Nil, row[w].email)
  <2>1. Idle(w) /\ UNCHANGED <<dbVars, mailed, issued, versions, now, bounds>>
    BY <1>2 DEF Insert, InsertFails, dbVars
  <2> QED BY <2>1, ReadKeeps, IdleKeeps, HalvesMakeInv
<1>3. CASE ~EmailTaken(Nil, row[w].email)
  <2>1. PICK u \in Users : ~Exists(u) /\ Put(u, row[w])
    BY <1>3 DEF Insert
  <2>2. GlobalTypes' /\ AccountsStay
    <3>1. UNCHANGED <<pending, mailed, issued, now, bounds>>
      BY DEF Insert
    <3> QED BY <1>1, <2>1, <3>1, PutKeeps
  <2>3. LocalTypes' /\ WorkersOK'
    <3>1. CASE call[w].op = "verify"
      <4>1. Proceed(w, "deletePending") /\ "deletePending" \in Steps \ {"insert", "update", "toggle"}
            /\ "deletePending" \in StepsOf(call[w].op)
        BY <1>3, <3>1 DEF Insert, Steps, StepsOf
      <4> QED BY <1>1, <2>2, <3>1, <4>1, ProceedKeeps
    <3>2. CASE call[w].op # "verify"
      BY <1>3, <2>2, <3>2, IdleKeeps DEF Insert
    <3> QED BY <3>1, <3>2
  <2> QED BY <2>2, <2>3, HalvesMakeInv
<1> QED BY <1>2, <1>3

LEMMA GetKeeps ==
  ASSUME AccountInv, NEW w \in Workers, Get(w)
  PROVE  AccountInv'
<1>1. GlobalTypes' /\ AccountsStay
  BY ReadKeeps DEF Get
<1>2. /\ pc[w] = "get" /\ pc[w] # "idle" /\ WellFormed(call[w])
      /\ call[w].op \in {"setPassword", "enroll", "confirm", "edit"}
      /\ "update" \in StepsOf(call[w].op)
  BY Holds DEF Get, Call, AllOps, StepsOf
<1>3. call[w].user \in Users /\ Exists(call[w].user) /\ account[call[w].user] \in Row
  BY <1>2, Holds DEF WorkerOK, WellFormed, UserOps, AccountInv, TypeOK, Exists
<1>4. CASE Idle(w)
  BY <1>1, <1>4, IdleKeeps, HalvesMakeInv
<1>5. CASE GoUpdate(w, call[w].user, Changed(call[w], account[call[w].user]))
  BY <1>1, <1>2, <1>3, <1>5, ChangedType, GoUpdateKeeps, HalvesMakeInv
<1> QED BY <1>4, <1>5 DEF Get

LEMMA GetSubjectKeeps ==
  ASSUME AccountInv, NEW w \in Workers, GetSubject(w)
  PROVE  AccountInv'
<1>1. GlobalTypes' /\ AccountsStay
  BY ReadKeeps DEF GetSubject
<1>2. /\ pc[w] = "getSubject" /\ pc[w] # "idle" /\ WellFormed(call[w])
      /\ call[w].op \in {"saml", "oidc"} /\ "update" \in StepsOf(call[w].op)
  BY Holds DEF GetSubject, Call, AllOps, StepsOf
<1>3. CASE Absent(w)
  BY <1>1, <1>2, <1>3, AbsentKeeps, HalvesMakeInv
<1>4. ASSUME NEW u \in Users, Exists(u), GoUpdate(w, u, Changed(call[w], account[u]))
      PROVE  AccountInv'
  <2>1. account[u] \in Row
    BY <1>4 DEF AccountInv, TypeOK, Exists
  <2> QED BY <1>1, <1>2, <1>4, <2>1, ChangedType, GoUpdateKeeps, HalvesMakeInv
<1> QED BY <1>3, <1>4 DEF GetSubject

LEMMA GetByEmailKeeps ==
  ASSUME AccountInv, NEW w \in Workers, GetByEmail(w)
  PROVE  AccountInv'
<1>1. GlobalTypes' /\ AccountsStay
  BY ReadKeeps DEF GetByEmail
<1>2. /\ pc[w] = "getByEmail" /\ pc[w] # "idle" /\ WellFormed(call[w])
      /\ call[w].op = "oidc" /\ "update" \in StepsOf(call[w].op) /\ call[w].subject \in Subjects
  BY Holds DEF GetByEmail, Call, AllOps, StepsOf, WellFormed
<1>3. CASE Absent(w)
  BY <1>1, <1>2, <1>3, AbsentKeeps, HalvesMakeInv
<1>4. ASSUME NEW u \in Users, Exists(u),
             GoUpdate(w, u, [account[u] EXCEPT !.oidc = call[w].subject])
      PROVE  AccountInv'
  <2>1. account[u] \in Row
    BY <1>4 DEF AccountInv, TypeOK, Exists
  <2>2. [account[u] EXCEPT !.oidc = call[w].subject] \in Row
    BY <1>2, <2>1 DEF Row
  <2> QED BY <1>1, <1>2, <1>4, <2>2, GoUpdateKeeps, HalvesMakeInv
<1> QED BY <1>3, <1>4 DEF GetByEmail

LEMMA UpdateKeeps ==
  ASSUME AccountInv, NEW w \in Workers, Update(w)
  PROVE  AccountInv'
<1> DEFINE u == uid[w]
           r == row[w]
<1>1. /\ pc[w] = "update" /\ pc[w] # "idle" /\ r \in Row /\ u \in Users /\ Exists(u)
      /\ account[u] \in Row
      /\ call[w].op = "enroll" => call[w].secret \in Secrets
  BY Holds DEF Update, WorkerOK, WellFormed, AccountInv, TypeOK, Exists
<1>2. Stored(account[u], r) \in Row /\ r.email \in Emails
  BY <1>1 DEF Stored, Row
<1>3. /\ Put(u, Stored(account[u], r)) \/ UNCHANGED <<account, versions>>
      /\ issued' = issued \/ (call[w].op = "enroll" /\ issued' = issued \cup {call[w].secret})
      /\ Idle(w) /\ UNCHANGED <<pending, mailed, now, bounds>>
  BY DEF Update
<1>4. GlobalTypes' /\ AccountsStay
  <2>1. /\ account' \in [Users -> Row \cup {Nil}] /\ versions' \in [Users -> SUBSET Row] /\ AccountsStay
    BY <1>1, <1>2, <1>3, RowAssumption DEF AccountInv, TypeOK, AccountsStay, Put
  <2>2. issued' \subseteq Secrets
    BY <1>1, <1>3 DEF AccountInv, TypeOK
  <2> QED BY <2>1, <2>2, <1>3 DEF AccountInv, TypeOK, GlobalTypes, bounds
<1> QED BY <1>3, <1>4, IdleKeeps, HalvesMakeInv

(* The three statements that change columns of an account in place.        *)

LEMMA ToggleKeeps ==
  ASSUME AccountInv, NEW w \in Workers, Toggle(w)
  PROVE  AccountInv'
<1> DEFINE u == call[w].user
           r == [account[u] EXCEPT !.disabled = (call[w].edit.toggle = "disable")]
<1>1. /\ pc[w] = "toggle" /\ pc[w] # "idle" /\ call[w].op = "edit" /\ u \in Users /\ Exists(u)
      /\ account[u] \in Row
  <2>1. pc[w] = "toggle" /\ pc[w] # "idle"
    BY DEF Toggle
  <2>2. WorkerOK(w) /\ WellFormed(call[w]) /\ call[w].op = "edit"
    BY <2>1, Holds DEF StepsOf, Call, AllOps
  <2> QED BY <2>1, <2>2 DEF WorkerOK, WellFormed, UserOps, AccountInv, TypeOK, Exists
<1>2. r \in Row
  BY <1>1 DEF Row
<1>3. Put(u, r) /\ Proceed(w, ResetPart(call[w].edit))
      /\ UNCHANGED <<pending, mailed, issued, now, bounds>>
  BY DEF Toggle
<1>4. GlobalTypes' /\ AccountsStay
  BY <1>1, <1>2, <1>3, PutKeeps
<1>5. /\ ResetPart(call[w].edit) \in {"reset", "get", "idle"}
      /\ {"reset", "get", "idle"} \subseteq Steps \ {"insert", "update", "deletePending", "toggle"}
      /\ {"reset", "get"} \subseteq StepsOf(call[w].op)
  BY <1>1 DEF ResetPart, ProfilePart, StepsOf, Steps
<1> HIDE DEF u, r
<1>6. LocalTypes' /\ WorkersOK'
  BY <1>1, <1>3, <1>4, <1>5, ProceedKeeps
<1> QED BY <1>4, <1>6, HalvesMakeInv

LEMMA ResetMFAKeeps ==
  ASSUME AccountInv, NEW w \in Workers, ResetMFA(w)
  PROVE  AccountInv'
<1> DEFINE u == call[w].user
           r == Cleared(account[u])
<1>1. /\ pc[w] = "reset" /\ pc[w] # "idle" /\ call[w].op = "edit" /\ u \in Users /\ Exists(u)
      /\ account[u] \in Row
  <2>1. pc[w] = "reset" /\ pc[w] # "idle"
    BY DEF ResetMFA
  <2>2. WorkerOK(w) /\ WellFormed(call[w]) /\ call[w].op = "edit"
    BY <2>1, Holds DEF StepsOf, Call, AllOps
  <2> QED BY <2>1, <2>2 DEF WorkerOK, WellFormed, UserOps, AccountInv, TypeOK, Exists
<1>2. r \in Row
  BY <1>1 DEF Row, Cleared
<1>3. Put(u, r) /\ Proceed(w, ProfilePart(call[w].edit))
      /\ UNCHANGED <<pending, mailed, issued, now, bounds>>
  BY DEF ResetMFA
<1>4. GlobalTypes' /\ AccountsStay
  BY <1>1, <1>2, <1>3, PutKeeps
<1>5. /\ ProfilePart(call[w].edit) \in {"get", "idle"}
      /\ {"get", "idle"} \subseteq Steps \ {"insert", "update", "deletePending", "toggle"}
      /\ "get" \in StepsOf(call[w].op)
  BY <1>1 DEF ProfilePart, StepsOf, Steps
<1> HIDE DEF u, r
<1>6. LocalTypes' /\ WorkersOK'
  BY <1>1, <1>3, <1>4, <1>5, ProceedKeeps
<1> QED BY <1>4, <1>6, HalvesMakeInv

LEMMA SoftDeleteKeeps ==
  ASSUME AccountInv, NEW w \in Workers, SoftDelete(w)
  PROVE  AccountInv'
<1> DEFINE u == call[w].user
           r == [account[u] EXCEPT !.deleted = TRUE]
<1>1. u \in Users /\ Exists(u) /\ account[u] \in Row
  <2>1. pc[w] = "softDelete" /\ pc[w] # "idle"
    BY DEF SoftDelete
  <2>2. WorkerOK(w) /\ WellFormed(call[w]) /\ call[w].op \in UserOps
    BY <2>1, Holds DEF StepsOf, UserOps, Call, AllOps
  <2> QED BY <2>1, <2>2 DEF WorkerOK, WellFormed, AccountInv, TypeOK, Exists
<1>2. r \in Row
  BY <1>1 DEF Row
<1>3. Put(u, r) /\ Idle(w)
      /\ UNCHANGED <<pending, mailed, issued, now, bounds>>
  BY DEF SoftDelete
<1>4. GlobalTypes' /\ AccountsStay
  BY <1>1, <1>2, <1>3, PutKeeps
<1> QED BY <1>3, <1>4, IdleKeeps, HalvesMakeInv

\* The row that a registration writes.
LEMMA UpsertWrites ==
  ASSUME AccountInv, NEW w \in Workers, Upsert(w)
  PROVE  /\ call[w].op = "register" /\ Lower[call[w].email] \in Addresses
         /\ \E p \in PendingRow : pending' = [pending EXCEPT ![Lower[call[w].email]] = p]
<1> DEFINE c == call[w]
           e == Lower[c.email]
           p == [id |-> IF pending[e] = Nil THEN c.token ELSE pending[e].id,
                 token |-> c.token, expires |-> now + TTL]
<1>1. c.op = "register" /\ c.token \in Tokens /\ e \in Addresses
  <2>1. pc[w] = "upsert" /\ pc[w] # "idle"
    BY DEF Upsert
  <2>2. WellFormed(c) /\ c.op = "register"
    BY <2>1, Holds DEF StepsOf, Call, AllOps
  <2> QED BY <2>2, LowerFacts DEF WellFormed
<1>2. p \in PendingRow
  <2>1. now + TTL \in Nat
    BY AccountAssumption DEF AccountInv, TypeOK
  <2>2. pending[e] \in PendingRow \cup {Nil}
    BY <1>1 DEF AccountInv, TypeOK
  <2> QED BY <1>1, <2>1, <2>2 DEF PendingRow
<1>3. pending' = [pending EXCEPT ![e] = p]
  BY DEF Upsert
<1> QED BY <1>1, <1>2, <1>3

LEMMA UpsertKeeps ==
  ASSUME AccountInv, NEW w \in Workers, Upsert(w)
  PROVE  AccountInv'
<1>1. /\ pc[w] # "idle" /\ Proceed(w, "mail") /\ UNCHANGED <<account, mailed, issued, versions, now, bounds>>
  BY DEF Upsert
<1>2. GlobalTypes' /\ AccountsStay
  BY <1>1, UpsertWrites DEF AccountInv, TypeOK, GlobalTypes, AccountsStay, bounds
<1>3. "mail" \in Steps \ {"insert", "update", "deletePending", "toggle", "idle"}
      /\ "mail" \in StepsOf(call[w].op)
  BY UpsertWrites DEF Steps, StepsOf
<1>4. LocalTypes' /\ WorkersOK'
  BY <1>1, <1>2, <1>3, ProceedKeeps
<1> QED BY <1>2, <1>4, HalvesMakeInv

LEMMA SendVerificationEmailKeeps ==
  ASSUME AccountInv, NEW w \in Workers, SendVerificationEmail(w)
  PROVE  AccountInv'
<1>1. [to |-> Lower[call[w].email], token |-> call[w].token] \in Mail
  <2>1. pc[w] = "mail" /\ pc[w] # "idle"
    BY DEF SendVerificationEmail
  <2>2. WellFormed(call[w]) /\ call[w].op = "register"
    BY <2>1, Holds DEF StepsOf, Call, AllOps
  <2> QED BY <2>2, LowerFacts DEF WellFormed, Mail
<1>2. GlobalTypes' /\ AccountsStay
  BY <1>1 DEF SendVerificationEmail, AccountInv, TypeOK, GlobalTypes, AccountsStay, dbVars, bounds
<1> QED BY <1>2, IdleKeeps, HalvesMakeInv DEF SendVerificationEmail

LEMMA GetPendingKeeps ==
  ASSUME AccountInv, NEW w \in Workers, GetPending(w)
  PROVE  AccountInv'
<1>1. GlobalTypes' /\ AccountsStay
  BY ReadKeeps DEF GetPending
<1>2. pc[w] # "idle" /\ call[w].op = "verify" /\ "insert" \in StepsOf("verify")
  BY Holds DEF GetPending, StepsOf, Call, AllOps
<1>3. ASSUME NEW e \in Addresses, pending[e] # Nil, GoInsert(w, NewRow(e, "user")),
             reg' = [reg EXCEPT ![w] = pending[e]]
      PROVE  AccountInv'
  <2>1. pending[e] \in PendingRow
    BY <1>3 DEF AccountInv, TypeOK
  <2>2. NewRow(e, "user") \in Row
    BY <1>3, LowerFacts, NewRowFacts, RolesFacts
  <2> QED BY <1>1, <1>2, <1>3, <2>1, <2>2, GoInsertKeeps, HalvesMakeInv
<1>4. CASE Idle(w)
  BY <1>1, <1>4, IdleKeeps, HalvesMakeInv
<1> QED BY <1>3, <1>4 DEF GetPending

LEMMA DeletePendingKeeps ==
  ASSUME AccountInv, NEW w \in Workers, DeletePending(w)
  PROVE  AccountInv'
<1>1. GlobalTypes' /\ AccountsStay
  BY DEF DeletePending, AccountInv, TypeOK, GlobalTypes, AccountsStay, bounds
<1> QED BY <1>1, IdleKeeps, HalvesMakeInv DEF DeletePending

LEMMA StatementFailsKeeps ==
  ASSUME AccountInv, NEW w \in Workers, StatementFails(w)
  PROVE  AccountInv'
<1>1. GlobalTypes' /\ AccountsStay
  BY AccountAssumption DEF StatementFails, AccountInv, TypeOK, GlobalTypes, AccountsStay, dbVars
<1>2. CASE pc[w] \in {"getSubject", "getByEmail"}
  <2>1. Absent(w)
    BY <1>2 DEF StatementFails
  <2> QED BY <1>1, <1>2, <2>1, AbsentKeeps, HalvesMakeInv
<1>3. CASE pc[w] \notin {"getSubject", "getByEmail"}
  <2>1. Idle(w)
    BY <1>3 DEF StatementFails, InsertFails
  <2> QED BY <1>1, <2>1, IdleKeeps, HalvesMakeInv
<1> QED BY <1>2, <1>3

-----------------------------------------------------------------------------
(* Every step, and the theorem.                                            *)

LEMMA NextKeepsAccountInv ==
  AccountInv /\ [Next]_vars => AccountInv'
<1> SUFFICES ASSUME AccountInv, [Next]_vars PROVE AccountInv'
  OBVIOUS
<1>1. ASSUME NEW w \in Workers, Step(w) PROVE AccountInv'
  BY <1>1, CountUsersKeeps, InsertKeeps, GetKeeps, GetSubjectKeeps, GetByEmailKeeps, UpdateKeeps,
     ToggleKeeps, ResetMFAKeeps, SoftDeleteKeeps, UpsertKeeps, SendVerificationEmailKeeps,
     GetPendingKeeps, DeletePendingKeeps DEF Step
<1>2. ASSUME NEW w \in Workers, Handle(w) \/ StatementFails(w) PROVE AccountInv'
  BY <1>2, HandleKeeps, StatementFailsKeeps
<1>3. CASE Tick
  <2>1. now' \in 1..MaxDay
    BY <1>3, AccountAssumption DEF Tick, AccountInv, TypeOK
  <2>2. TypeOK'
    BY <1>3, <2>1 DEF Tick, AccountInv, TypeOK, dbVars, workerVars, bounds
  <2>3. ASSUME NEW v \in Workers PROVE WorkerOK(v)'
    BY <1>3, StillOK DEF Tick, workerVars, dbVars, AccountsStay
  <2> QED BY <2>2, <2>3 DEF AccountInv, WorkersOK
<1>4. CASE UNCHANGED vars
  <2>1. TypeOK'
    BY <1>4 DEF vars, AccountInv, TypeOK, dbVars, workerVars, bounds
  <2>2. ASSUME NEW v \in Workers PROVE WorkerOK(v)'
    BY <1>4, StillOK DEF vars, workerVars, dbVars, AccountsStay
  <2> QED BY <2>1, <2>2 DEF AccountInv, WorkersOK
<1> QED BY <1>1, <1>2, <1>3, <1>4 DEF Next, Exhausted

\* Accounts, registrations and requests have their types in every reachable state, and
\* every statement of a request finds the rows and the parameters it needs.
THEOREM AccountTypes ==
  Spec => [](TypeOK /\ WorkersOK)
<1> QED BY InitAccountInv, NextKeepsAccountInv, PTL DEF Spec, AccountInv

-----------------------------------------------------------------------------
(* Safety: not only the rows, but every row a request is about to write,   *)
(* whatever became of the row it was read from, must be sound.             *)

\* Administrators send addresses in lower case.
LowerEdits == \A d \in Edits : d.email # Nil => Lower[d.email] = d.email

\* Administrators edit no address.
NoAddressEdits == \A d \in Edits : d.email = Nil

\* Address a suits subject s: it is the one that s asserts if that one lasts, and if a
\* itself lasts, s asserts it.
Suits(a, s) ==
  /\ \A b \in Asserted(s) : Lasting(b) => a = b
  /\ Lasting(a) => a \in Asserted(s)

SoundRow(r) ==
  /\ r.mfa => r.secret # Nil
  /\ LowerEdits => Lower[r.email] = r.email
  /\ NoAddressEdits => \A s \in {r.saml, r.oidc} \ {Nil} : Suits(r.email, s)

RowsSound == \A u \in Users : Exists(u) => SoundRow(account[u])
WritesSound == \A w \in Workers : pc[w] \in {"insert", "update"} => SoundRow(row[w])
DistinctEmails ==
  \A u, v \in Users : u # v /\ Exists(u) /\ Exists(v) => account[u].email # account[v].email

SafetyInv == RowsSound /\ WritesSound /\ DistinctEmails

\* An address that is asserted with a subject suits it ...
LEMMA AssertedSuits ==
  ASSUME NEW s \in Subjects, NEW e \in Asserts[s]
  PROVE  Suits(Lower[e], s)
<1>1. Lower[e] \in Asserted(s)
  BY DEF Asserted
<1>2. ASSUME NEW b \in Asserted(s), Lasting(b) PROVE Lower[e] = b
  <2>1. Asserted(s) = {b}
    BY <1>2 DEF Lasting
  <2> QED BY <1>1, <2>1
<1> QED BY <1>1, <1>2 DEF Suits

\* ... and suits every subject of an account whose address suited both.
LEMMA AssertedSuitsAll ==
  ASSUME NEW s \in Subjects, NEW z \in Subjects, NEW e \in Asserts[s], NEW a,
         Suits(a, s), Suits(a, z)
  PROVE  Suits(Lower[e], z)
<1>1. Lower[e] \in Asserted(s)
  BY DEF Asserted
<1>2. ASSUME NEW b \in Asserted(z), Lasting(b) PROVE Lower[e] = b
  <2>1. a = b
    BY <1>2 DEF Suits
  <2>2. Asserted(s) = {a}
    BY <1>2, <2>1 DEF Suits, Lasting
  <2> QED BY <1>1, <2>1, <2>2
<1>3. ASSUME Lasting(Lower[e]) PROVE Lower[e] \in Asserted(z)
  <2>1. a = Lower[e]
    BY <1>1, <1>3 DEF Suits
  <2> QED BY <1>3, <2>1 DEF Suits
<1> QED BY <1>2, <1>3 DEF Suits

\* Where sound rows come from: an account without a factor and with an address asserted
\* with its subject, or a change of a sound row.
LEMMA NewRowSound ==
  ASSUME NEW e \in Emails, NEW r \in Roles
  PROVE  /\ SoundRow(NewRow(e, r))
         /\ \A s \in Subjects : e \in Asserts[s] =>
              /\ SoundRow([NewRow(e, r) EXCEPT !.saml = s])
              /\ SoundRow([NewRow(e, r) EXCEPT !.oidc = s])
<1>1. Lower[Lower[e]] = Lower[e]
  BY LowerFacts
<1>2. SoundRow(NewRow(e, r))
  BY <1>1 DEF NewRow, SoundRow
<1>3. ASSUME NEW s \in Subjects, e \in Asserts[s]
      PROVE  /\ SoundRow([NewRow(e, r) EXCEPT !.saml = s])
             /\ SoundRow([NewRow(e, r) EXCEPT !.oidc = s])
  <2>1. Suits(Lower[e], s)
    BY <1>3, AssertedSuits
  <2> QED BY <1>1, <2>1 DEF NewRow, SoundRow
<1> QED BY <1>2, <1>3

LEMMA ChangedSound ==
  ASSUME NEW c, WellFormed(c), NEW r \in Row, SoundRow(r),
         c.op \in {"setPassword", "enroll", "confirm", "saml", "oidc", "edit"},
         c.op = "confirm" => r.secret # Nil,
         c.op = "saml" => r.saml = c.subject,
         c.op = "oidc" => r.oidc = c.subject
  PROVE  SoundRow(Changed(c, r))
<1>1. CASE c.op \in {"setPassword", "enroll", "confirm"}
  BY <1>1, RowAssumption DEF Changed, WellFormed, Row, SoundRow
<1>2. CASE c.op \in {"saml", "oidc"}
  <2>1. Changed(c, r) = [r EXCEPT !.email = Lower[c.email]]
    BY <1>2 DEF Changed, LoggedIn
  <2>2. /\ c.subject \in Subjects /\ c.subject # Nil /\ c.email \in Asserts[c.subject]
        /\ Lower[Lower[c.email]] = Lower[c.email]
    BY <1>2, RowAssumption, LowerFacts DEF WellFormed
  <2>3. ASSUME NoAddressEdits, NEW z \in {r.saml, r.oidc} \ {Nil} PROVE Suits(Lower[c.email], z)
    <3>1. Suits(r.email, c.subject) /\ Suits(r.email, z) /\ z \in Subjects
      BY <1>2, <2>2, <2>3 DEF SoundRow, Row
    <3> QED BY <2>2, <3>1, AssertedSuitsAll
  <2>4. /\ Changed(c, r).mfa = r.mfa /\ Changed(c, r).secret = r.secret
        /\ Changed(c, r).saml = r.saml /\ Changed(c, r).oidc = r.oidc
        /\ Changed(c, r).email = Lower[c.email]
    BY <2>1 DEF Row
  <2> QED BY <2>2, <2>3, <2>4 DEF SoundRow
<1>3. CASE c.op = "edit"
  <2>1. c.edit \in Edits
    BY <1>3 DEF WellFormed
  <2>2. Changed(c, r) = [r EXCEPT
                           !.email = IF c.edit.email = Nil THEN @ ELSE c.edit.email,
                           !.role = IF c.edit.role = Nil THEN @ ELSE c.edit.role]
    BY <1>3 DEF Changed, Edited
  <2> QED BY <2>1, <2>2 DEF Row, SoundRow, LowerEdits, NoAddressEdits
<1> QED BY <1>1, <1>2, <1>3

\* What the ways a request goes on do to the rows about to be written.
LEMMA IdleSound ==
  ASSUME AccountInv, WritesSound, NEW w \in Workers, Idle(w)
  PROVE  WritesSound'
  BY DEF AccountInv, TypeOK, WritesSound, Idle

LEMMA ProceedSound ==
  ASSUME AccountInv, WritesSound, NEW w \in Workers,
         NEW step \in Steps \ {"insert", "update"}, Proceed(w, step)
  PROVE  WritesSound'
  BY IdleSound DEF AccountInv, TypeOK, WritesSound, Proceed

LEMMA GoInsertSound ==
  ASSUME AccountInv, WritesSound, NEW w \in Workers, NEW r, GoInsert(w, r), SoundRow(r)
  PROVE  WritesSound'
  BY DEF AccountInv, TypeOK, WritesSound, GoInsert

LEMMA GoUpdateSound ==
  ASSUME AccountInv, WritesSound, NEW w \in Workers, NEW u, NEW r, GoUpdate(w, u, r), SoundRow(r)
  PROVE  WritesSound'
  BY DEF AccountInv, TypeOK, WritesSound, GoUpdate

\* Steps that leave the accounts alone ...
LEMMA AccountsAlone ==
  ASSUME SafetyInv, account' = account, WritesSound'
  PROVE  SafetyInv'
  BY DEF SafetyInv, RowsSound, DistinctEmails, Exists

\* ... and steps that write one.
LEMMA OneWritten ==
  ASSUME AccountInv, SafetyInv, WritesSound', NEW u \in Users, NEW r \in Row,
         account' = [account EXCEPT ![u] = r], SoundRow(r),
         \A v \in Users \ {u} : Exists(v) => account[v].email # r.email
  PROVE  SafetyInv'
<1>1. account'[u] = r /\ \A v \in Users \ {u} : account'[v] = account[v]
  BY DEF AccountInv, TypeOK
<1>2. RowsSound'
  BY <1>1 DEF SafetyInv, RowsSound, Exists
<1>3. DistinctEmails'
  BY <1>1 DEF SafetyInv, DistinctEmails, Exists
<1> QED BY <1>2, <1>3 DEF SafetyInv

LEMMA AbsentSound ==
  ASSUME AccountInv, WritesSound, NEW w \in Workers, pc[w] \in {"getSubject", "getByEmail"},
         Absent(w)
  PROVE  WritesSound'
<1> DEFINE s == call[w].subject
           e == call[w].email
<1>1. s \in Subjects /\ e \in Asserts[s] /\ e \in Emails
  <2>1. WellFormed(call[w]) /\ call[w].op \in {"saml", "oidc"}
    BY Holds DEF StepsOf, Call, AllOps
  <2> QED BY <2>1, LowerFacts DEF WellFormed
<1>2. /\ SoundRow([NewRow(e, "staff") EXCEPT !.oidc = s])
      /\ SoundRow([NewRow(e, "user") EXCEPT !.saml = s])
  BY <1>1, NewRowSound, RolesFacts
<1>3. \/ GoInsert(w, [NewRow(e, "staff") EXCEPT !.oidc = s])
      \/ GoInsert(w, [NewRow(e, "user") EXCEPT !.saml = s])
      \/ Proceed(w, "getByEmail") \/ Idle(w)
  BY DEF Absent
<1>4. "getByEmail" \in Steps \ {"insert", "update"}
  BY DEF Steps
<1> HIDE DEF s, e
<1> QED BY <1>2, <1>3, <1>4, IdleSound, ProceedSound, GoInsertSound

\* The statements that only read, and the arriving requests.
LEMMA ReadsSound ==
  ASSUME AccountInv, SafetyInv, NEW w \in Workers,
         \/ CountUsers(w) \/ Get(w) \/ GetSubject(w) \/ GetByEmail(w) \/ GetPending(w)
  PROVE  SafetyInv'
<1> USE DEF SafetyInv
<1>1. CASE CountUsers(w)
  <2>1. CASE Idle(w)
    BY <1>1, <2>1, IdleSound, AccountsAlone DEF CountUsers, dbVars
  <2>2. CASE GoInsert(w, NewRow(call[w].email, "admin"))
    <3>1. call[w].email \in Emails
      <4>1. WellFormed(call[w]) /\ call[w].op = "setup"
        BY <1>1, Holds DEF CountUsers, StepsOf, Call, AllOps
      <4> QED BY <4>1 DEF WellFormed
    <3>2. SoundRow(NewRow(call[w].email, "admin"))
      BY <3>1, NewRowSound, RolesFacts
    <3> QED BY <1>1, <2>2, <3>2, GoInsertSound, AccountsAlone DEF CountUsers, dbVars
  <2> QED BY <1>1, <2>1, <2>2 DEF CountUsers
<1>2. CASE Get(w)
  <2>1. account' = account
    BY <1>2 DEF Get, dbVars
  <2>2. CASE Idle(w)
    BY <2>1, <2>2, IdleSound, AccountsAlone
  <2>3. CASE ~Idle(w)
    <3> DEFINE u == call[w].user
    <3>1. /\ GoUpdate(w, u, Changed(call[w], account[u]))
          /\ call[w].op = "confirm" => account[u].secret # Nil
      BY <1>2, <2>3 DEF Get
    <3>2. /\ WellFormed(call[w]) /\ WorkerOK(w) /\ pc[w] # "idle"
          /\ call[w].op \in {"setPassword", "enroll", "confirm", "edit"}
      BY <1>2, Holds DEF Get, StepsOf, Call, AllOps
    <3>3. u \in Users /\ account[u] \in Row /\ SoundRow(account[u])
      BY <3>2 DEF WorkerOK, WellFormed, UserOps, AccountInv, TypeOK, Exists, RowsSound
    <3>4. SoundRow(Changed(call[w], account[u]))
      BY <3>1, <3>2, <3>3, ChangedSound
    <3> QED BY <2>1, <3>1, <3>4, GoUpdateSound, AccountsAlone
  <2> QED BY <2>2, <2>3
<1>3. CASE GetSubject(w)
  <2>1. account' = account /\ pc[w] = "getSubject"
    BY <1>3 DEF GetSubject, dbVars
  <2>2. CASE Absent(w)
    BY <2>1, <2>2, AbsentSound, AccountsAlone
  <2>3. CASE ~Absent(w)
    <3>1. PICK u \in Users : /\ Exists(u) /\ GoUpdate(w, u, Changed(call[w], account[u]))
                             /\ call[w].subject = IF call[w].op = "saml" THEN account[u].saml
                                                                         ELSE account[u].oidc
      BY <1>3, <2>3 DEF GetSubject
    <3>2. WellFormed(call[w]) /\ call[w].op \in {"saml", "oidc"}
      BY <2>1, Holds DEF StepsOf, Call, AllOps
    <3>3. account[u] \in Row /\ SoundRow(account[u])
      BY <3>1 DEF AccountInv, TypeOK, Exists, RowsSound
    <3>4. SoundRow(Changed(call[w], account[u]))
      BY <3>1, <3>2, <3>3, ChangedSound
    <3> QED BY <2>1, <3>1, <3>4, GoUpdateSound, AccountsAlone
  <2> QED BY <2>2, <2>3
<1>4. CASE GetByEmail(w)
  <2>1. account' = account /\ pc[w] = "getByEmail"
    BY <1>4 DEF GetByEmail, dbVars
  <2>2. CASE Absent(w)
    BY <2>1, <2>2, AbsentSound, AccountsAlone
  <2>3. CASE ~Absent(w)
    <3> DEFINE s == call[w].subject
    <3>1. PICK u \in Users : /\ Exists(u) /\ GoUpdate(w, u, [account[u] EXCEPT !.oidc = s])
                             /\ account[u].email = Lower[call[w].email]
      BY <1>4, <2>3 DEF GetByEmail
    <3>2. account[u] \in Row /\ SoundRow(account[u])
      BY <3>1 DEF AccountInv, TypeOK, Exists, RowsSound
    <3>0. Suits(account[u].email, s)
      <4>1. WellFormed(call[w]) /\ call[w].op \in {"saml", "oidc"}
        BY <2>1, Holds DEF StepsOf, Call, AllOps
      <4>2. s \in Subjects /\ call[w].email \in Asserts[s]
        BY <4>1 DEF WellFormed
      <4> QED BY <3>1, <4>2, AssertedSuits
    <3>3. SoundRow([account[u] EXCEPT !.oidc = s])
      BY <3>0, <3>2 DEF SoundRow, Row
    <3> QED BY <2>1, <3>1, <3>3, GoUpdateSound, AccountsAlone
  <2> QED BY <2>2, <2>3
<1>5. CASE GetPending(w)
  <2>1. account' = account
    BY <1>5 DEF GetPending, dbVars
  <2>2. CASE Idle(w)
    BY <2>1, <2>2, IdleSound, AccountsAlone
  <2>3. CASE ~Idle(w)
    <3>1. PICK e \in Addresses : GoInsert(w, NewRow(e, "user"))
      BY <1>5, <2>3 DEF GetPending
    <3>2. SoundRow(NewRow(e, "user"))
      BY LowerFacts, NewRowSound, RolesFacts
    <3> QED BY <2>1, <3>1, <3>2, GoInsertSound, AccountsAlone
  <2> QED BY <2>2, <2>3
<1> QED BY <1>1, <1>2, <1>3, <1>4, <1>5

LEMMA HandleSound ==
  ASSUME AccountInv, SafetyInv, NEW w \in Workers, Handle(w)
  PROVE  SafetyInv'
<1> USE DEF SafetyInv
<1>1. CASE HandleCreateUser(w)
  <2>1. PICK e \in Emails, r \in Roles :
          /\ Accept(w, [NoCall EXCEPT !.op = "create", !.email = e, !.role = r], "insert")
          /\ row' = [row EXCEPT ![w] = NewRow(e, r)]
    BY <1>1, AccountAssumption DEF HandleCreateUser
  <2>2. account' = account /\ pc' = [pc EXCEPT ![w] = "insert"]
    BY <2>1 DEF Accept, dbVars
  <2>3. WritesSound'
    BY <2>1, <2>2, NewRowSound DEF WritesSound, AccountInv, TypeOK
  <2> QED BY <2>2, <2>3, AccountsAlone
<1>2. CASE Arrives(w)
  <2>1. PICK c \in Call, step \in Steps \ {"insert", "update"} : AcceptCall(w, c, step)
    BY <1>2 DEF Arrives, Acceptable
  <2>2. account' = account /\ row' = row /\ pc' = [pc EXCEPT ![w] = step]
    BY <2>1 DEF AcceptCall, Accept, dbVars
  <2>3. WritesSound'
    BY <2>1, <2>2 DEF WritesSound, AccountInv, TypeOK
  <2> QED BY <2>2, <2>3, AccountsAlone
<1> QED BY <1>1, <1>2, Arrivals

\* The statements that write accounts, and the others.
LEMMA WritesOfAccountsSound ==
  ASSUME AccountInv, SafetyInv, NEW w \in Workers,
         Insert(w) \/ Update(w) \/ Toggle(w) \/ ResetMFA(w) \/ SoftDelete(w)
  PROVE  SafetyInv'
<1> USE DEF SafetyInv
<1>1. CASE Insert(w)
  <2>1. pc[w] = "insert" /\ row[w] \in Row /\ SoundRow(row[w]) /\ "deletePending" \in Steps \ {"insert", "update"}
    BY <1>1, Holds DEF Insert, WorkerOK, WritesSound, Steps
  <2>2. WritesSound'
    BY <1>1, <2>1, IdleSound, ProceedSound DEF Insert, InsertFails
  <2>3. CASE EmailTaken(Nil, row[w].email)
    BY <1>1, <2>2, <2>3, AccountsAlone DEF Insert
  <2>4. CASE ~EmailTaken(Nil, row[w].email)
    <3>1. PICK u \in Users : account' = [account EXCEPT ![u] = row[w]]
      BY <1>1, <2>4 DEF Insert, Put
    <3>2. \A v \in Users : Exists(v) => account[v].email # row[w].email
      BY <2>4, RowAssumption DEF EmailTaken
    <3> QED BY <2>1, <2>2, <3>1, <3>2, OneWritten
  <2> QED BY <2>3, <2>4
<1>2. CASE Update(w)
  <2> DEFINE u == uid[w]
             r == Stored(account[u], row[w])
  <2>1. /\ pc[w] = "update" /\ u \in Users /\ Exists(u) /\ account[u] \in Row
        /\ row[w] \in Row /\ SoundRow(row[w])
    BY <1>2, Holds DEF Update, WorkerOK, WritesSound, AccountInv, TypeOK, Exists
  <2>2. r \in Row /\ SoundRow(r) /\ r.email = row[w].email
    BY <2>1 DEF Stored, Row, SoundRow
  <2>3. WritesSound'
    BY <1>2, IdleSound DEF Update
  <2>4. CASE account' = account
    BY <2>3, <2>4, AccountsAlone
  <2>5. CASE account' # account
    <3>1. account' = [account EXCEPT ![u] = r] /\ ~EmailTaken(u, row[w].email)
      BY <1>2, <2>5 DEF Update, Put
    <3>2. \A v \in Users \ {u} : Exists(v) => account[v].email # r.email
      BY <2>2, <3>1 DEF EmailTaken
    <3> QED BY <2>1, <2>2, <2>3, <3>1, <3>2, OneWritten
  <2> QED BY <2>4, <2>5
<1>3. CASE Toggle(w) \/ ResetMFA(w) \/ SoftDelete(w)
  <2> DEFINE u == call[w].user
             old == account[u]
  <2>1. u \in Users /\ Exists(u) /\ old \in Row /\ SoundRow(old)
    <3>1. pc[w] \in {"toggle", "reset", "softDelete"}
      BY <1>3 DEF Toggle, ResetMFA, SoftDelete
    <3>2. WorkerOK(w) /\ WellFormed(call[w]) /\ call[w].op \in UserOps /\ pc[w] # "idle"
      BY <3>1, Holds DEF StepsOf, Call, AllOps, UserOps
    <3> QED BY <3>2 DEF WorkerOK, WellFormed, AccountInv, TypeOK, Exists, RowsSound
  <2>2. WritesSound'
    <3>1. \A d : {ResetPart(d), ProfilePart(d)} \subseteq Steps \ {"insert", "update"}
      BY DEF ResetPart, ProfilePart, Steps
    <3> QED BY <1>3, <3>1, IdleSound, ProceedSound DEF Toggle, ResetMFA, SoftDelete
  <2>3. PICK r \in {[old EXCEPT !.disabled = (call[w].edit.toggle = "disable")], Cleared(old),
                    [old EXCEPT !.deleted = TRUE]} :
          account' = [account EXCEPT ![u] = r]
    BY <1>3 DEF Toggle, ResetMFA, SoftDelete, Put
  <2>4. r \in Row /\ SoundRow(r) /\ r.email = old.email
    BY <2>1, <2>3 DEF Cleared, Row, SoundRow
  <2>5. \A v \in Users \ {u} : Exists(v) => account[v].email # r.email
    BY <2>1, <2>4 DEF DistinctEmails
  <2> QED BY <2>1, <2>2, <2>3, <2>4, <2>5, OneWritten
<1> QED BY <1>1, <1>2, <1>3

LEMMA OthersSound ==
  ASSUME AccountInv, SafetyInv, NEW w \in Workers,
         Upsert(w) \/ SendVerificationEmail(w) \/ DeletePending(w) \/ StatementFails(w)
  PROVE  SafetyInv'
<1> USE DEF SafetyInv
<1>1. account' = account
  BY DEF Upsert, SendVerificationEmail, DeletePending, StatementFails, dbVars
<1>2. WritesSound'
  <2>1. "mail" \in Steps \ {"insert", "update"}
    BY DEF Steps
  <2>2. CASE Upsert(w) \/ SendVerificationEmail(w) \/ DeletePending(w)
    BY <2>1, <2>2, IdleSound, ProceedSound DEF Upsert, SendVerificationEmail, DeletePending
  <2>3. CASE StatementFails(w)
    <3>1. Idle(w) \/ (Absent(w) /\ pc[w] \in {"getSubject", "getByEmail"})
      BY <2>3 DEF StatementFails, InsertFails
    <3> QED BY <3>1, IdleSound, AbsentSound
  <2> QED BY <2>2, <2>3
<1> QED BY <1>1, <1>2, AccountsAlone

LEMMA NextKeepsSafetyInv ==
  AccountInv /\ SafetyInv /\ [Next]_vars => SafetyInv'
<1> SUFFICES ASSUME AccountInv, SafetyInv, [Next]_vars PROVE SafetyInv'
  OBVIOUS
<1>1. ASSUME NEW w \in Workers, Handle(w) \/ Step(w) \/ StatementFails(w) PROVE SafetyInv'
  BY <1>1, HandleSound, ReadsSound, WritesOfAccountsSound, OthersSound DEF Step
<1>2. CASE Tick \/ UNCHANGED vars
  <2>1. account' = account /\ pc' = pc /\ row' = row
    BY <1>2 DEF Tick, vars, dbVars, workerVars
  <2> QED BY <2>1 DEF SafetyInv, RowsSound, WritesSound, DistinctEmails, Exists
<1> QED BY <1>1, <1>2 DEF Next, Exhausted

LEMMA InitSafetyInv ==
  Init => SafetyInv
<1> SUFFICES ASSUME Init PROVE SafetyInv
  OBVIOUS
<1>1. ASSUME NEW u \in Users, Seeded[u] # Nil
      PROVE  Seeded[u] \in Emails /\ Lower[Seeded[u]] = Seeded[u] /\ SoundRow(NewRow(Seeded[u], "staff"))
  <2>1. Seeded[u] \in Addresses
    BY <1>1, SeededAssumption
  <2> QED BY <2>1, LowerFacts, NewRowSound, RolesFacts
<1>2. \A u \in Users : account[u] = IF Seeded[u] = Nil THEN Nil ELSE NewRow(Seeded[u], "staff")
  BY DEF Init, SeededRow
<1>3. RowsSound
  BY <1>1, <1>2 DEF RowsSound, Exists
<1>4. ASSUME NEW u \in Users, Exists(u) PROVE Seeded[u] # Nil /\ account[u].email = Seeded[u]
  <2>1. Seeded[u] # Nil
    BY <1>2, <1>4 DEF Exists
  <2>2. account[u] = NewRow(Seeded[u], "staff")
    BY <1>2, <2>1
  <2> QED BY <1>1, <2>1, <2>2 DEF NewRow
<1>5. DistinctEmails
  BY <1>4, SeededAssumption DEF DistinctEmails
<1>6. WritesSound
  BY DEF Init, WritesSound
<1> QED BY <1>3, <1>5, <1>6 DEF SafetyInv

\* A second factor in force always has its secret: no overlap of enrolment,
\* confirmation, reset and whole-row writes leaves an account that can never log in.
THEOREM FactorsHaveSecrets ==
  Spec => []MFAHasSecret
<1>1. SafetyInv => MFAHasSecret
  BY DEF SafetyInv, RowsSound, SoundRow, MFAHasSecret
<1> QED BY <1>1, InitAccountInv, NextKeepsAccountInv, InitSafetyInv, NextKeepsSafetyInv, PTL DEF Spec

\* While administrators spell addresses in lower case, an address belongs to one
\* account whichever routes create accounts at the same time.
THEOREM AddressesHaveOneAccount ==
  ASSUME LowerEdits
  PROVE  Spec => []OneAccountPerAddress
<1>1. SafetyInv => OneAccountPerAddress
  BY LowerEdits DEF SafetyInv, RowsSound, DistinctEmails, SoundRow, OneAccountPerAddress, Exists
<1> QED BY <1>1, InitAccountInv, NextKeepsAccountInv, InitSafetyInv, NextKeepsSafetyInv, PTL DEF Spec

\* While administrators edit no address, a subject whose address lasts leads to one
\* account, also when the other subjects change theirs: look-ups that fail or are
\* overtaken cannot link it twice.
THEOREM SubjectsHaveOneAccount ==
  ASSUME NoAddressEdits
  PROVE  Spec => []OneAccountPerSubject
<1>1. SafetyInv => OneAccountPerSubject
  <2> SUFFICES ASSUME SafetyInv, NEW u \in Users, NEW v \in Users, NEW s \in Subjects,
                      u # v, Exists(u), Exists(v),
                      NEW a \in Asserted(s), Lasting(a)
               PROVE  /\ s = account[u].saml => s # account[v].saml
                      /\ s = account[u].oidc => s # account[v].oidc
    BY DEF OneAccountPerSubject
  <2>1. ASSUME NEW t \in {u, v}, s \in {account[t].saml, account[t].oidc}
        PROVE  account[t].email = a
    <3>1. SoundRow(account[t]) /\ s # Nil
      BY RowAssumption DEF SafetyInv, RowsSound
    <3>2. Suits(account[t].email, s)
      BY <2>1, <3>1, NoAddressEdits DEF SoundRow
    <3> QED BY <3>2 DEF Suits
  <2>2. account[u].email # account[v].email
    BY DEF SafetyInv, DistinctEmails
  <2> QED BY <2>1, <2>2
<1> QED BY <1>1, InitAccountInv, NextKeepsAccountInv, InitSafetyInv, NextKeepsSafetyInv, PTL DEF Spec

-----------------------------------------------------------------------------
(* What a step does to an account that is there.                           *)

\* The ways an account can change.
Kept(u) == account'[u] = account[u]

LEMMA AccountChanges ==
  ASSUME AccountInv, [Next]_vars, NEW u \in Users, Exists(u)
  PROVE  \/ Kept(u)
         \/ /\ ~account[u].deleted
            /\ \E r \in Row : account'[u] = Stored(account[u], r)
         \/ \E w \in Workers : /\ pc[w] = "toggle" /\ call[w].user = u
                               /\ account'[u] = [account[u] EXCEPT
                                                   !.disabled = (call[w].edit.toggle = "disable")]
         \/ account'[u] \in {Cleared(account[u]), [account[u] EXCEPT !.deleted = TRUE]}
<1> USE DEF Kept
<1>1. account \in [Users -> Row \cup {Nil}]
  BY DEF AccountInv, TypeOK
<1>2. ASSUME NEW w \in Workers, Insert(w) PROVE Kept(u)
  <2>1. UNCHANGED account \/ \E v \in Users : ~Exists(v) /\ account' = [account EXCEPT ![v] = row[w]]
    BY <1>2 DEF Insert, Put
  <2> QED BY <1>1, <2>1
<1>3. ASSUME NEW w \in Workers, Update(w), ~Kept(u)
      PROVE  ~account[u].deleted /\ \E r \in Row : account'[u] = Stored(account[u], r)
  <2>1. row[w] \in Row
    BY <1>3, Holds DEF Update, WorkerOK
  <2>2. /\ Writable(uid[w])
        /\ account' = [account EXCEPT ![uid[w]] = Stored(account[uid[w]], row[w])]
    BY <1>3 DEF Update, Put
  <2>3. u = uid[w]
    BY <1>1, <1>3, <2>2
  <2> QED BY <1>1, <2>1, <2>2, <2>3 DEF Writable
<1>4. ASSUME NEW w \in Workers, Toggle(w), ~Kept(u)
      PROVE  /\ pc[w] = "toggle" /\ call[w].user = u
             /\ account'[u] = [account[u] EXCEPT !.disabled = (call[w].edit.toggle = "disable")]
  BY <1>1, <1>4 DEF Toggle, Put
<1>5. ASSUME NEW w \in Workers, ResetMFA(w), ~Kept(u) PROVE account'[u] = Cleared(account[u])
  BY <1>1, <1>5 DEF ResetMFA, Put
<1>6. ASSUME NEW w \in Workers, SoftDelete(w), ~Kept(u)
      PROVE  account'[u] = [account[u] EXCEPT !.deleted = TRUE]
  BY <1>1, <1>6 DEF SoftDelete, Put
<1>7. ASSUME NEW w \in Workers, Handle(w) PROVE Kept(u)
  <2>1. CASE HandleCreateUser(w)
    BY <2>1 DEF HandleCreateUser, Accept, dbVars
  <2>2. CASE Arrives(w)
    BY <2>2 DEF Arrives, AcceptCall, Accept, dbVars
  <2> QED BY <1>7, <2>1, <2>2, Arrivals
<1>8. ASSUME NEW w \in Workers,
             \/ CountUsers(w) \/ Get(w) \/ GetSubject(w) \/ GetByEmail(w) \/ GetPending(w)
             \/ Upsert(w) \/ SendVerificationEmail(w) \/ DeletePending(w) \/ StatementFails(w)
      PROVE  Kept(u)
  BY <1>8 DEF CountUsers, Get, GetSubject, GetByEmail, GetPending, Upsert, SendVerificationEmail,
              DeletePending, StatementFails, dbVars
<1>9. Tick \/ UNCHANGED vars => Kept(u)
  BY DEF Tick, vars, dbVars
<1>10. ASSUME NEW w \in Workers, Step(w) PROVE
         \/ Kept(u)
         \/ ~account[u].deleted /\ \E r \in Row : account'[u] = Stored(account[u], r)
         \/ /\ pc[w] = "toggle" /\ call[w].user = u
            /\ account'[u] = [account[u] EXCEPT !.disabled = (call[w].edit.toggle = "disable")]
         \/ account'[u] = Cleared(account[u])
         \/ account'[u] = [account[u] EXCEPT !.deleted = TRUE]
  BY <1>2, <1>3, <1>4, <1>5, <1>6, <1>8, <1>10 DEF Step
<1> HIDE DEF Kept
<1> QED BY <1>7, <1>8, <1>9, <1>10 DEF Next, Exhausted

\* Whatever snapshots are written back, only a request to enable an account enables it.
THEOREM DisabledAccountsStay ==
  Spec => DisabledStays
<1> DEFINE A == \A u \in Users :
                  (Exists(u) /\ account[u].disabled /\ ~account'[u].disabled)
                    => \E w \in Workers : /\ pc[w] = "toggle" /\ call[w].user = u
                                          /\ call[w].edit.toggle = "enable"
<1>1. ASSUME AccountInv, [Next]_vars PROVE A
  <2> SUFFICES ASSUME NEW u \in Users, Exists(u), account[u].disabled, ~account'[u].disabled
               PROVE  \E w \in Workers : /\ pc[w] = "toggle" /\ call[w].user = u
                                         /\ call[w].edit.toggle = "enable"
    OBVIOUS
  <2>1. account[u] \in Row
    BY <1>1 DEF AccountInv, TypeOK, Exists
  <2>2. PICK w \in Workers : /\ pc[w] = "toggle" /\ call[w].user = u
                             /\ account'[u] = [account[u] EXCEPT
                                                 !.disabled = (call[w].edit.toggle = "disable")]
    <3>1. ~Kept(u)
      BY DEF Kept
    <3>2. ~\E r \in Row : account'[u] = Stored(account[u], r)
      BY <2>1 DEF Stored, Row
    <3>3. account'[u] \notin {Cleared(account[u]), [account[u] EXCEPT !.deleted = TRUE]}
      BY <2>1 DEF Cleared, Row
    <3> QED BY <1>1, <3>1, <3>2, <3>3, AccountChanges
  <2>3. call[w].edit.toggle # "disable"
    BY <2>1, <2>2 DEF Row
  <2>4. WellFormed(call[w]) /\ call[w].op = "edit" /\ call[w].edit.toggle # Nil
    BY <1>1, <2>2, Holds DEF WorkerOK, StepsOf, Call, AllOps
  <2>5. call[w].edit \in Edit
    BY <2>4, AddressAssumption DEF WellFormed
  <2>6. call[w].edit.toggle = "enable"
    BY <2>3, <2>4, <2>5 DEF Edit
  <2> QED BY <2>2, <2>6
<1> HIDE DEF A
<1>2. AccountInv /\ [Next]_vars => [A]_vars
  BY <1>1
<1>3. Spec => [][A]_vars
  BY <1>2, InitAccountInv, NextKeepsAccountInv, PTL DEF Spec
<1> QED BY <1>3 DEF DisabledStays, A

\* A deleted account stays deleted, with its address, role and subjects, whatever was
\* read from it before and is written after.
THEOREM DeletedAccountsStay ==
  Spec => DeletedStays
<1> DEFINE A == \A u \in Users :
                  (Exists(u) /\ account[u].deleted) =>
                    LET old == account[u]
                        new == account'[u]
                    IN  /\ new.deleted
                        /\ <<new.email, new.role, new.saml, new.oidc>>
                             = <<old.email, old.role, old.saml, old.oidc>>
<1>1. ASSUME AccountInv, [Next]_vars PROVE A
  <2> SUFFICES ASSUME NEW u \in Users, Exists(u), account[u].deleted
               PROVE  /\ account'[u].deleted
                      /\ account'[u].email = account[u].email /\ account'[u].role = account[u].role
                      /\ account'[u].saml = account[u].saml /\ account'[u].oidc = account[u].oidc
    OBVIOUS
  <2>1. account[u] \in Row
    BY <1>1 DEF AccountInv, TypeOK, Exists
  <2>2. \/ account'[u] = account[u]
        \/ \E w \in Workers :
             account'[u] = [account[u] EXCEPT !.disabled = (call[w].edit.toggle = "disable")]
        \/ account'[u] = Cleared(account[u])
        \/ account'[u] = [account[u] EXCEPT !.deleted = TRUE]
    BY <1>1, AccountChanges DEF Kept
  <2> QED BY <2>1, <2>2 DEF Row, Cleared
<1> HIDE DEF A
<1>2. AccountInv /\ [Next]_vars => [A]_vars
  BY <1>1
<1>3. Spec => [][A]_vars
  BY <1>2, InitAccountInv, NextKeepsAccountInv, PTL DEF Spec
<1> QED BY <1>3 DEF DeletedStays, A

-----------------------------------------------------------------------------
(* Sign-ups: a verification deletes, by id, the registration it has read;  *)
(* meanwhile others write registrations with ids of their own.  No id is   *)
(* ever that of two addresses.                                             *)

Registered(e) == pending[e] # Nil
Registering(w) == pc[w] = "upsert"
Verifying(w) == pc[w] \in {"insert", "deletePending"} /\ call[w].op = "verify"

\* The id of a registration belongs to one address ...
IdsDistinct ==
  \A e, f \in Addresses : e # f /\ Registered(e) /\ Registered(f) => pending[e].id # pending[f].id

\* ... no request that is about to register has one in use ...
FreshTokens ==
  \A w \in Workers : Registering(w) =>
    /\ \A e \in Addresses : Registered(e) => pending[e].id # call[w].token
    /\ \A v \in Workers : reg[v] # Nil => reg[v].id # call[w].token
    /\ \A v \in Workers \ {w} : Registering(v) => call[v].token # call[w].token

\* ... and one that verifies acts for the address of the id it has read.
VerifiesOne ==
  \A w \in Workers : Verifying(w) =>
    \A e \in Addresses : Registered(e) /\ pending[e].id = reg[w].id =>
      IF pc[w] = "insert" THEN e = row[w].email ELSE e \in everHeld

SignupInv == IdsDistinct /\ FreshTokens /\ VerifiesOne

\* What accounts have held stays held, and what is written is held.
LEMMA HeldAlone ==
  ASSUME UNCHANGED versions
  PROVE  everHeld' = everHeld
  BY DEF everHeld

LEMMA PutHolds ==
  ASSUME AccountInv, NEW u \in Users, NEW r, Put(u, r)
  PROVE  everHeld \subseteq everHeld' /\ r.email \in everHeld'
<1>1. \A x \in Users : versions[x] \subseteq versions'[x]
  BY DEF Put, AccountInv, TypeOK
<1>2. r \in versions'[u]
  BY DEF Put, AccountInv, TypeOK
<1>3. ASSUME NEW e \in everHeld PROVE e \in everHeld'
  <2>1. PICK x \in Users : \E v \in versions[x] : e = v.email
    BY <1>3 DEF everHeld
  <2> QED BY <1>1, <2>1 DEF everHeld
<1> QED BY <1>2, <1>3 DEF everHeld

\* Steps that write no registration and read none.
LEMMA SignupsAlone ==
  ASSUME AccountInv, SignupInv, NEW w \in Workers, UNCHANGED pending, everHeld \subseteq everHeld',
         \A v \in Workers \ {w} : /\ pc'[v] = pc[v] /\ call'[v] = call[v]
                                  /\ row'[v] = row[v] /\ reg'[v] = reg[v],
         ~Registering(w)', ~Verifying(w)', reg'[w] \in {reg[w], Nil}
  PROVE  SignupInv'
<1>1. IdsDistinct'
  BY DEF SignupInv, IdsDistinct, Registered
<1>2. FreshTokens'
  BY DEF SignupInv, FreshTokens, Registered, Registering
<1>3. VerifiesOne'
  BY DEF SignupInv, VerifiesOne, Registered, Verifying
<1> QED BY <1>1, <1>2, <1>3 DEF SignupInv

\* What the ways a request goes on do to the others.
LEMMA LocalEffects ==
  ASSUME AccountInv, NEW w \in Workers
  PROVE  /\ Idle(w) => /\ pc'[w] = "idle" /\ reg'[w] = Nil
                       /\ \A v \in Workers \ {w} : /\ pc'[v] = pc[v] /\ call'[v] = call[v]
                                                   /\ row'[v] = row[v] /\ reg'[v] = reg[v]
         /\ \A step : step # "idle" /\ Proceed(w, step) =>
              /\ pc'[w] = step /\ call' = call /\ row' = row /\ reg' = reg
              /\ \A v \in Workers \ {w} : pc'[v] = pc[v]
         /\ \A r : GoInsert(w, r) =>
              /\ pc'[w] = "insert" /\ call' = call /\ row'[w] = r
              /\ \A v \in Workers \ {w} : pc'[v] = pc[v] /\ row'[v] = row[v]
         /\ \A u, r : GoUpdate(w, u, r) =>
              /\ pc'[w] = "update" /\ call' = call /\ reg' = reg
              /\ \A v \in Workers \ {w} : pc'[v] = pc[v] /\ row'[v] = row[v]
  BY DEF AccountInv, TypeOK, Idle, Proceed, GoInsert, GoUpdate

LEMMA IdleSignups ==
  ASSUME AccountInv, SignupInv, NEW w \in Workers, UNCHANGED pending,
         everHeld \subseteq everHeld', Idle(w)
  PROVE  SignupInv'
  BY LocalEffects, SignupsAlone DEF Registering, Verifying

LEMMA AbsentSignups ==
  ASSUME AccountInv, SignupInv, NEW w \in Workers, UNCHANGED <<pending, everHeld>>,
         pc[w] \in {"getSubject", "getByEmail"}, Absent(w)
  PROVE  SignupInv'
<1>1. call[w].op \in {"saml", "oidc"}
  BY Holds DEF StepsOf, Call, AllOps
<1>2. CASE Idle(w)
  BY <1>2, IdleSignups
<1>3. CASE Proceed(w, "getByEmail")
  <2>1. /\ pc'[w] = "getByEmail" /\ call' = call /\ row' = row /\ reg' = reg
        /\ \A v \in Workers \ {w} : pc'[v] = pc[v]
    BY <1>3, LocalEffects
  <2> QED BY <2>1, SignupsAlone DEF Registering, Verifying
<1>4. ASSUME NEW r, GoInsert(w, r), UNCHANGED reg PROVE SignupInv'
  <2>1. /\ pc'[w] = "insert" /\ call' = call
        /\ \A v \in Workers \ {w} : pc'[v] = pc[v] /\ row'[v] = row[v]
    BY <1>4, LocalEffects
  <2> QED BY <1>1, <1>4, <2>1, SignupsAlone DEF Registering, Verifying
<1> QED BY <1>2, <1>3, <1>4 DEF Absent

LEMMA ReadsSignups ==
  ASSUME AccountInv, SignupInv, NEW w \in Workers,
         CountUsers(w) \/ Get(w) \/ GetSubject(w) \/ GetByEmail(w)
  PROVE  SignupInv'
<1>1. UNCHANGED <<pending, everHeld>> /\ pc[w] \in {"count", "get", "getSubject", "getByEmail"}
  BY HeldAlone DEF CountUsers, Get, GetSubject, GetByEmail, dbVars
<1>2. CASE Idle(w)
  BY <1>1, <1>2, IdleSignups
<1>3. ASSUME NEW u, NEW r, GoUpdate(w, u, r) PROVE SignupInv'
  <2>1. /\ pc'[w] = "update" /\ call' = call /\ reg' = reg
        /\ \A v \in Workers \ {w} : pc'[v] = pc[v] /\ row'[v] = row[v]
    BY <1>3, LocalEffects
  <2> QED BY <1>1, <2>1, SignupsAlone DEF Registering, Verifying
<1>4. CASE (GetSubject(w) \/ GetByEmail(w)) /\ Absent(w)
  BY <1>1, <1>4, AbsentSignups DEF GetSubject, GetByEmail
<1>5. CASE CountUsers(w) /\ ~Idle(w)
  <2>1. GoInsert(w, NewRow(call[w].email, "admin")) /\ reg' = reg
    BY <1>5 DEF CountUsers
  <2>2. call[w].op = "setup"
    BY <1>5, Holds DEF CountUsers, StepsOf, Call, AllOps
  <2>3. /\ pc'[w] = "insert" /\ call' = call
        /\ \A v \in Workers \ {w} : pc'[v] = pc[v] /\ row'[v] = row[v]
    BY <2>1, LocalEffects
  <2> QED BY <1>1, <2>1, <2>2, <2>3, SignupsAlone DEF Registering, Verifying
<1> QED BY <1>2, <1>3, <1>4, <1>5 DEF Get, GetSubject, GetByEmail

LEMMA WritesSignups ==
  ASSUME AccountInv, SignupInv, NEW w \in Workers,
         \/ Update(w) \/ Toggle(w) \/ ResetMFA(w) \/ SoftDelete(w)
         \/ SendVerificationEmail(w) \/ StatementFails(w)
  PROVE  SignupInv'
<1>1. UNCHANGED pending /\ everHeld \subseteq everHeld'
  <2>1. UNCHANGED versions \/ \E u \in Users : \E r : Put(u, r)
    <3>1. CASE SendVerificationEmail(w) \/ StatementFails(w)
      BY <3>1 DEF SendVerificationEmail, StatementFails
    <3>2. CASE Update(w)
      <4>1. uid[w] \in Users
        BY <3>2, Holds DEF Update, WorkerOK
      <4> QED BY <3>2, <4>1 DEF Update
    <3>3. CASE Toggle(w) \/ ResetMFA(w) \/ SoftDelete(w)
      <4>1. pc[w] \in {"toggle", "reset", "softDelete"}
        BY <3>3 DEF Toggle, ResetMFA, SoftDelete
      <4>2. call[w].user \in Users
        BY <4>1, Holds DEF WellFormed, StepsOf, UserOps, Call, AllOps
      <4> QED BY <3>3, <4>2 DEF Toggle, ResetMFA, SoftDelete
    <3> QED BY <3>1, <3>2, <3>3
  <2>2. UNCHANGED pending
    BY DEF Update, Toggle, ResetMFA, SoftDelete, SendVerificationEmail, StatementFails, dbVars
  <2> QED BY <2>1, <2>2, HeldAlone, PutHolds
<1>2. CASE Idle(w)
  BY <1>1, <1>2, IdleSignups
<1>3. ASSUME NEW step \in {"reset", "get"}, Proceed(w, step) PROVE SignupInv'
  <2>1. /\ pc'[w] = step /\ call' = call /\ row' = row /\ reg' = reg
        /\ \A v \in Workers \ {w} : pc'[v] = pc[v]
    BY <1>3, LocalEffects
  <2> QED BY <1>1, <1>3, <2>1, SignupsAlone DEF Registering, Verifying
<1>4. CASE Toggle(w) \/ ResetMFA(w)
  <2>1. \E step \in {"idle", "reset", "get"} : Proceed(w, step)
    BY <1>4 DEF Toggle, ResetMFA, ResetPart, ProfilePart
  <2> QED BY <1>2, <1>3, <2>1 DEF Proceed
<1>5. CASE StatementFails(w) /\ ~Idle(w)
  <2>1. Absent(w) /\ pc[w] \in {"getSubject", "getByEmail"} /\ UNCHANGED <<pending, everHeld>>
    BY <1>5, HeldAlone DEF StatementFails, InsertFails, dbVars
  <2> QED BY <2>1, AbsentSignups
<1> QED BY <1>2, <1>4, <1>5 DEF Update, SoftDelete, SendVerificationEmail

\* A verification reads a registration, and it is the only one with its id ...
LEMMA GetPendingSignups ==
  ASSUME AccountInv, SignupInv, NEW w \in Workers, GetPending(w)
  PROVE  SignupInv'
<1>1. UNCHANGED <<pending, everHeld>> /\ pc[w] = "getPending"
  BY HeldAlone DEF GetPending, dbVars
<1>2. CASE Idle(w)
  BY <1>1, <1>2, IdleSignups
<1>3. CASE ~Idle(w)
  <2>1. PICK e \in Addresses : /\ Registered(e) /\ GoInsert(w, NewRow(e, "user"))
                               /\ reg' = [reg EXCEPT ![w] = pending[e]]
    BY <1>3 DEF GetPending, Registered
  <2>2. /\ pc'[w] = "insert" /\ call' = call /\ row'[w] = NewRow(e, "user") /\ reg'[w] = pending[e]
        /\ \A v \in Workers \ {w} : pc'[v] = pc[v] /\ row'[v] = row[v] /\ reg'[v] = reg[v]
    BY <2>1, LocalEffects DEF AccountInv, TypeOK
  <2>3. row'[w].email = e
    BY <2>2, LowerFacts DEF NewRow
  <2>4. IdsDistinct'
    BY <1>1 DEF SignupInv, IdsDistinct, Registered
  <2>5. FreshTokens'
    BY <1>1, <2>1, <2>2 DEF SignupInv, FreshTokens, Registered, Registering
  <2>6. VerifiesOne'
    BY <1>1, <2>1, <2>2, <2>3 DEF SignupInv, IdsDistinct, VerifiesOne, Registered, Verifying
  <2> QED BY <2>4, <2>5, <2>6 DEF SignupInv
<1> QED BY <1>2, <1>3

\* ... it creates the account of that address ...
LEMMA InsertSignups ==
  ASSUME AccountInv, SignupInv, NEW w \in Workers, Insert(w)
  PROVE  SignupInv'
<1>1. UNCHANGED pending /\ everHeld \subseteq everHeld' /\ pc[w] = "insert"
  <2>1. UNCHANGED pending /\ pc[w] = "insert" /\ (UNCHANGED versions \/ \E u \in Users : Put(u, row[w]))
    BY DEF Insert
  <2> QED BY <2>1, HeldAlone, PutHolds
<1>2. CASE Idle(w)
  BY <1>1, <1>2, IdleSignups
<1>3. CASE ~Idle(w)
  <2>1. /\ Proceed(w, "deletePending") /\ call[w].op = "verify"
        /\ \E u \in Users : Put(u, row[w])
    BY <1>3 DEF Insert, InsertFails
  <2>0. row[w].email \in everHeld'
    BY <2>1, PutHolds
  <2>2. /\ pc'[w] = "deletePending" /\ call' = call /\ row' = row /\ reg' = reg
        /\ \A v \in Workers \ {w} : pc'[v] = pc[v]
    BY <2>1, LocalEffects
  <2>3. IdsDistinct'
    BY <1>1 DEF SignupInv, IdsDistinct, Registered
  <2>4. FreshTokens'
    BY <1>1, <2>2 DEF SignupInv, FreshTokens, Registered, Registering
  <2>5. VerifiesOne'
    BY <1>1, <2>0, <2>2 DEF SignupInv, VerifiesOne, Registered, Verifying
  <2> QED BY <2>3, <2>4, <2>5 DEF SignupInv
<1> QED BY <1>2, <1>3

\* ... and deletes it.
LEMMA DeletePendingSignups ==
  ASSUME AccountInv, SignupInv, NEW w \in Workers, DeletePending(w)
  PROVE  SignupInv'
<1>1. /\ pc'[w] = "idle" /\ reg'[w] = Nil /\ everHeld' = everHeld
      /\ \A v \in Workers \ {w} : /\ pc'[v] = pc[v] /\ call'[v] = call[v]
                                  /\ row'[v] = row[v] /\ reg'[v] = reg[v]
  BY LocalEffects, HeldAlone DEF DeletePending
<1>2. \A e \in Addresses : Registered(e)' => Registered(e) /\ pending'[e] = pending[e]
  BY DEF DeletePending, Registered
<1>3. IdsDistinct'
  BY <1>2 DEF SignupInv, IdsDistinct
<1>4. FreshTokens'
  BY <1>1, <1>2 DEF SignupInv, FreshTokens, Registering
<1>5. VerifiesOne'
  BY <1>1, <1>2 DEF SignupInv, VerifiesOne, Verifying
<1> QED BY <1>3, <1>4, <1>5 DEF SignupInv

\* A registration is written under the id it had, or under one that is in nobody's hands.
LEMMA UpsertSignups ==
  ASSUME AccountInv, SignupInv, NEW w \in Workers, Upsert(w)
  PROVE  SignupInv'
<1> DEFINE e == Lower[call[w].email]
           k == call[w].token
<1>1. /\ pc[w] = "upsert" /\ e \in Addresses
  <2>1. WellFormed(call[w]) /\ call[w].op = "register" /\ pc[w] = "upsert"
    BY Holds DEF Upsert, StepsOf, Call, AllOps
  <2> QED BY <2>1, LowerFacts DEF WellFormed
<1>2. /\ pc'[w] = "mail" /\ call' = call /\ row' = row /\ reg' = reg /\ everHeld' = everHeld
      /\ \A v \in Workers \ {w} : pc'[v] = pc[v]
  BY LocalEffects, HeldAlone DEF Upsert
<1>3. /\ pending'[e].id = IF Registered(e) THEN pending[e].id ELSE k
      /\ \A f \in Addresses \ {e} : pending'[f] = pending[f]
  <2>1. pending \in [Addresses -> PendingRow \cup {Nil}]
    BY DEF AccountInv, TypeOK
  <2> QED BY <1>1, <2>1 DEF Upsert, Registered
<1>4. /\ \A f \in Addresses : Registered(f) => pending[f].id # k
      /\ \A v \in Workers : reg[v] # Nil => reg[v].id # k
      /\ \A v \in Workers \ {w} : Registering(v) => call[v].token # k
  BY <1>1 DEF SignupInv, FreshTokens, Registering
<1> HIDE DEF e, k
<1>5. IdsDistinct'
  BY <1>1, <1>3, <1>4 DEF SignupInv, IdsDistinct, Registered
<1>6. FreshTokens'
  BY <1>1, <1>2, <1>3, <1>4 DEF SignupInv, FreshTokens, Registered, Registering
<1>7. VerifiesOne'
  <2> SUFFICES ASSUME NEW v \in Workers, Verifying(v)', NEW f \in Addresses, Registered(f)',
                      pending'[f].id = reg'[v].id
               PROVE  IF pc'[v] = "insert" THEN f = row'[v].email ELSE f \in everHeld'
    BY DEF VerifiesOne
  <2>1. v # w /\ Verifying(v) /\ pc'[v] = pc[v]
    BY <1>2 DEF Verifying
  <2>2. reg[v] # Nil
    BY <2>1, Holds, NilAssumption DEF Verifying, WorkerOK
  <2>3. Registered(f) /\ pending[f].id = reg[v].id
    BY <1>2, <1>3, <1>4, <2>2 DEF Registered
  <2> QED BY <1>2, <2>1, <2>3 DEF SignupInv, VerifiesOne
<1> QED BY <1>5, <1>6, <1>7 DEF SignupInv

\* Requests arrive; a sign-up brings a fresh token.
LEMMA HandleSignups ==
  ASSUME AccountInv, SignupInv, NEW w \in Workers, Handle(w)
  PROVE  SignupInv'
<1>1. pc[w] = "idle" /\ UNCHANGED <<pending, reg, everHeld>>
  <2>1. CASE HandleCreateUser(w)
    BY <2>1, HeldAlone DEF HandleCreateUser, Accept, dbVars
  <2>2. CASE Arrives(w)
    BY <2>2, HeldAlone DEF Arrives, AcceptCall, Accept, dbVars
  <2> QED BY <2>1, <2>2, Arrivals
<1>2. CASE HandleCreateUser(w)
  <2>1. PICK e \in Emails, r \in Roles :
          /\ Accept(w, [NoCall EXCEPT !.op = "create", !.email = e, !.role = r], "insert")
          /\ row' = [row EXCEPT ![w] = NewRow(e, r)]
    BY <1>2, AccountAssumption DEF HandleCreateUser
  <2>2. /\ pc'[w] = "insert" /\ call'[w].op = "create"
        /\ \A v \in Workers \ {w} : pc'[v] = pc[v] /\ call'[v] = call[v] /\ row'[v] = row[v]
    BY <2>1 DEF Accept, AccountInv, TypeOK, NoCall
  <2> QED BY <1>1, <2>2, SignupsAlone DEF Registering, Verifying
<1>3. CASE HandleSignup(w)
  <2>1. PICK e \in Emails, k \in Tokens :
          /\ \A f \in Addresses : pending[f] # Nil => k \notin {pending[f].id, pending[f].token}
          /\ \A v \in Workers : /\ call[v] # Nil => call[v].token # k
                                /\ reg[v] # Nil => k \notin {reg[v].id, reg[v].token}
          /\ AcceptCall(w, [NoCall EXCEPT !.op = "register", !.email = e, !.token = k], "upsert")
    BY <1>3 DEF HandleSignup
  <2>2. /\ pc'[w] = "upsert" /\ call'[w].token = k /\ row' = row
        /\ \A v \in Workers \ {w} : pc'[v] = pc[v] /\ call'[v] = call[v]
    BY <2>1 DEF AcceptCall, Accept, AccountInv, TypeOK, NoCall
  <2>3. \A v \in Workers \ {w} : Registering(v)' => Registering(v) /\ call'[v].token # k
    BY <2>1, <2>2, Holds, NilAssumption DEF Registering
  <2>4. IdsDistinct'
    BY <1>1 DEF SignupInv, IdsDistinct, Registered
  <2>5. FreshTokens'
    BY <1>1, <2>1, <2>2, <2>3 DEF SignupInv, FreshTokens, Registered, Registering
  <2>6. VerifiesOne'
    BY <1>1, <2>2 DEF SignupInv, VerifiesOne, Registered, Verifying
  <2> QED BY <2>4, <2>5, <2>6 DEF SignupInv
<1>4. CASE Arrives(w) /\ ~HandleSignup(w)
  <2>1. PICK c \in Call, step \in Steps \ {"insert", "deletePending", "upsert"} : AcceptCall(w, c, step)
    BY <1>4 DEF Arrives, Acceptable
  <2>2. /\ pc'[w] = step /\ row' = row
        /\ \A v \in Workers \ {w} : pc'[v] = pc[v] /\ call'[v] = call[v]
    BY <2>1 DEF AcceptCall, Accept, AccountInv, TypeOK
  <2> QED BY <1>1, <2>2, SignupsAlone DEF Registering, Verifying
<1> QED BY <1>2, <1>3, <1>4, Arrivals

LEMMA NextKeepsSignupInv ==
  AccountInv /\ SignupInv /\ [Next]_vars => SignupInv'
<1> SUFFICES ASSUME AccountInv, SignupInv, [Next]_vars PROVE SignupInv'
  OBVIOUS
<1>1. ASSUME NEW w \in Workers, Handle(w) \/ Step(w) \/ StatementFails(w) PROVE SignupInv'
  BY <1>1, HandleSignups, ReadsSignups, WritesSignups, GetPendingSignups, InsertSignups,
     DeletePendingSignups, UpsertSignups DEF Step
<1>2. CASE Tick \/ UNCHANGED vars
  <2>1. UNCHANGED <<pending, pc, call, row, reg, everHeld>>
    BY <1>2, HeldAlone DEF Tick, vars, dbVars, workerVars
  <2> QED BY <2>1 DEF SignupInv, IdsDistinct, FreshTokens, VerifiesOne, Registered, Registering,
                      Verifying
<1> QED BY <1>1, <1>2 DEF Next, Exhausted

\* A registration only disappears when an account with its address has come into being,
\* whatever other sign-ups, verifications and failures happen meanwhile.
THEOREM SignupsAreNotLost ==
  Spec => SignupNotLost
<1> DEFINE A == \A e \in Addresses : pending[e] # Nil /\ pending'[e] = Nil => e \in everHeld'
<1>1. ASSUME AccountInv, SignupInv, [Next]_vars PROVE A
  <2> SUFFICES ASSUME NEW e \in Addresses, pending[e] # Nil, pending'[e] = Nil
               PROVE  e \in everHeld'
    OBVIOUS
  <2>1. ASSUME NEW w \in Workers, ~DeletePending(w), Handle(w) \/ Step(w) \/ StatementFails(w)
        PROVE  FALSE
    <3>1. CASE Handle(w)
      <4>1. CASE HandleCreateUser(w)
        BY <4>1 DEF HandleCreateUser, Accept, dbVars
      <4>2. CASE Arrives(w)
        BY <4>2 DEF Arrives, AcceptCall, Accept, dbVars
      <4> QED BY <1>1, <3>1, <4>1, <4>2, Arrivals
    <3>2. CASE Upsert(w)
      <4>1. pending \in [Addresses -> PendingRow \cup {Nil}]
        BY <1>1 DEF AccountInv, TypeOK
      <4>2. pending'[e] = pending[e] \/ pending'[e] \in PendingRow
        BY <1>1, <3>2, <4>1, UpsertWrites
      <4> QED BY <4>2, NilAssumption
    <3>3. CASE ~Handle(w) /\ ~Upsert(w)
      BY <2>1, <3>3 DEF Step, CountUsers, Insert, Get, GetSubject, GetByEmail, Update, Toggle,
                        ResetMFA, SoftDelete, SendVerificationEmail, GetPending, StatementFails,
                        dbVars
    <3> QED BY <3>1, <3>2, <3>3
  <2>2. PICK w \in Workers : DeletePending(w)
    BY <1>1, <2>1 DEF Next, Tick, Exhausted, vars, dbVars
  <2>3. pc[w] = "deletePending" /\ pending[e].id = reg[w].id /\ everHeld' = everHeld
    BY <2>2, HeldAlone DEF DeletePending
  <2>4. call[w].op = "verify"
    BY <1>1, <2>3, Holds DEF StepsOf, Call, AllOps
  <2> QED BY <1>1, <2>3, <2>4 DEF SignupInv, VerifiesOne, Verifying, Registered
<1> HIDE DEF A
<1>2. AccountInv /\ SignupInv /\ [Next]_vars => [A]_vars
  BY <1>1
<1>3. Init => SignupInv
  BY DEF Init, SignupInv, IdsDistinct, FreshTokens, VerifiesOne, Registered, Registering, Verifying
<1>4. Spec => [][A]_vars
  BY <1>2, <1>3, InitAccountInv, NextKeepsAccountInv, NextKeepsSignupInv, PTL DEF Spec
<1> QED BY <1>4 DEF SignupNotLost, A

-----------------------------------------------------------------------------
(* Versions.  The accounts implement AccountVersions: what a request is    *)
(* about to write is what its operation makes of a row the account has     *)
(* had; secrets and verification mails reach the users they belong to.     *)

\* c may make r of v, a row it has read.
Makes(c, v, r) ==
  \/ /\ c.op \in {"setPassword", "enroll", "confirm", "saml", "oidc", "edit"}
     /\ r = Changed(c, v)
     /\ c.op = "confirm" => v.secret = c.secret
     /\ c.op = "saml" => v.saml = c.subject
     /\ c.op = "oidc" => v.oidc = c.subject
  \/ /\ c.op = "oidc" /\ v.email = Lower[c.email]
     /\ r = [v EXCEPT !.oidc = c.subject]

\* c may create r, when the addresses in `sent` were sent mails.
Brings(c, r, sent) ==
  \/ c.op = "create" /\ \E e \in Emails, role \in Roles : r = NewRow(e, role)
  \/ c.op = "setup" /\ \E e \in Emails : r = NewRow(e, "admin")
  \/ c.op = "verify" /\ \E e \in sent : e \in Addresses /\ r = NewRow(e, "user")
  \/ /\ c.op = "saml" /\ Lower[c.email] \in MayFederate
     /\ r = [NewRow(c.email, "user") EXCEPT !.saml = c.subject]
  \/ c.op = "oidc" /\ r = [NewRow(c.email, "staff") EXCEPT !.oidc = c.subject]

UpdateOK(w) == pc[w] = "update" => \E v \in versions[uid[w]] : Makes(call[w], v, row[w])
InsertOK(w) == pc[w] = "insert" => Brings(call[w], row[w], Reached)

RowsKnown == \A u \in Users : Exists(u) => account[u] \in versions[u]
RowsFromVersions == \A w \in Workers : UpdateOK(w) /\ InsertOK(w)

\* Enrolments show secrets of their own; confirmations know theirs from an enrolment.
Under(w, op) == pc[w] # "idle" /\ call[w].op = op
SecretsOwn ==
  \A w \in Workers :
    /\ Under(w, "confirm") => call[w].secret \in issued
    /\ Under(w, "enroll") =>
         /\ call[w].secret \notin issued
         /\ \A v \in Workers \ {w} : Under(v, "enroll") => call[v].secret # call[w].secret

\* Who knows the token of a registration has it from the mail to its address.
MailsReach ==
  /\ \A e \in Addresses, m \in mailed :
       pending[e] # Nil /\ pending[e].token = m.token => m.to = e
  /\ \A w \in Workers :
       /\ Under(w, "verify") => \E m \in mailed : m.token = call[w].token
       /\ Under(w, "register") =>
            /\ Lower[call[w].email] \in MaySignUp
            /\ \A e \in Addresses :
                 pending[e] # Nil /\ pending[e].token = call[w].token => e = Lower[call[w].email]
            /\ \A m \in mailed : m.token = call[w].token => m.to = Lower[call[w].email]
            /\ \A v \in Workers \ {w} : Under(v, "register") => call[v].token # call[w].token

VersionsInv == RowsKnown /\ RowsFromVersions /\ SecretsOwn /\ MailsReach

\* How a request goes on, whatever its statement does to the tables.
Moves(w) ==
  Idle(w) \/ (\E step : Proceed(w, step)) \/ (\E r : GoInsert(w, r)) \/ (\E u, r : GoUpdate(w, u, r))

LEMMA StepsMove ==
  ASSUME NEW w, Step(w) \/ StatementFails(w)
  PROVE  Moves(w) /\ pc[w] # "idle"
<1>1. Absent(w) => Moves(w)
  BY DEF Absent, Moves
<1>2. CountUsers(w) \/ Insert(w) \/ Get(w) => Moves(w) /\ pc[w] # "idle"
  BY DEF CountUsers, Insert, InsertFails, Get, Moves
<1>3. GetSubject(w) \/ GetByEmail(w) \/ Update(w) => Moves(w) /\ pc[w] # "idle"
  BY <1>1 DEF GetSubject, GetByEmail, Update, Moves
<1>4. Toggle(w) \/ ResetMFA(w) \/ SoftDelete(w) => Moves(w) /\ pc[w] # "idle"
  BY DEF Toggle, ResetMFA, SoftDelete, Moves
<1>5. Upsert(w) \/ SendVerificationEmail(w) \/ GetPending(w) \/ DeletePending(w) => Moves(w) /\ pc[w] # "idle"
  BY DEF Upsert, SendVerificationEmail, GetPending, DeletePending, Moves
<1>6. StatementFails(w) => Moves(w) /\ pc[w] # "idle"
  BY <1>1 DEF StatementFails, InsertFails, Moves
<1> QED BY <1>2, <1>3, <1>4, <1>5, <1>6 DEF Step

\* The others stand still, and a request that goes on is the one that began.
LEMMA MovesAlone ==
  ASSUME AccountInv, NEW w \in Workers, Moves(w)
  PROVE  /\ \A v \in Workers \ {w} : /\ pc'[v] = pc[v] /\ call'[v] = call[v]
                                     /\ uid'[v] = uid[v] /\ row'[v] = row[v]
         /\ pc'[w] # "idle" => call'[w] = call[w]
<1> USE DEF AccountInv, TypeOK
<1>1. CASE Idle(w)
  BY <1>1 DEF Idle
<1>2. ASSUME NEW step, Proceed(w, step), ~Idle(w)
      PROVE  pc' = [pc EXCEPT ![w] = step] /\ UNCHANGED <<call, uid, row>>
  BY <1>2 DEF Proceed
<1>3. ASSUME NEW r, GoInsert(w, r)
      PROVE  /\ pc' = [pc EXCEPT ![w] = "insert"] /\ row' = [row EXCEPT ![w] = r]
             /\ UNCHANGED <<call, uid>>
  BY <1>3 DEF GoInsert
<1>4. ASSUME NEW u, NEW r, GoUpdate(w, u, r)
      PROVE  /\ pc' = [pc EXCEPT ![w] = "update"] /\ row' = [row EXCEPT ![w] = r]
             /\ uid' = [uid EXCEPT ![w] = u] /\ call' = call
  BY <1>4 DEF GoUpdate
<1> QED BY <1>1, <1>2, <1>3, <1>4 DEF Moves

\* An arriving request.
LEMMA ArrivesAlone ==
  ASSUME AccountInv, NEW w \in Workers, NEW c, NEW step, Accept(w, c, step)
  PROVE  /\ pc[w] = "idle" /\ pc'[w] = step /\ call'[w] = c /\ uid' = uid
         /\ \A v \in Workers \ {w} : pc'[v] = pc[v] /\ call'[v] = call[v]
         /\ UNCHANGED <<account, versions, pending, mailed, issued>>
  BY DEF Accept, AccountInv, TypeOK, dbVars

\* The call of a request that is in progress is one.
LEMMA CallsAreCalls ==
  ASSUME AccountInv, NEW v \in Workers, pc[v] # "idle"
  PROVE  call[v] # Nil
  BY Holds, NilAssumption

LEMMA HandleVersions ==
  ASSUME AccountInv, VersionsInv, NEW w \in Workers, Handle(w)
  PROVE  VersionsInv'
<1>1. CASE HandleCreateUser(w)
  <2>1. PICK e \in Emails, r \in Roles :
          /\ Accept(w, [NoCall EXCEPT !.op = "create", !.email = e, !.role = r], "insert")
          /\ row' = [row EXCEPT ![w] = NewRow(e, r)]
    BY <1>1, AccountAssumption DEF HandleCreateUser
  <2> DEFINE c == [NoCall EXCEPT !.op = "create", !.email = e, !.role = r]
  <2>2. c.op = "create"
    BY DEF NoCall
  <2> HIDE DEF c
  <2>3. /\ pc[w] = "idle" /\ pc'[w] = "insert" /\ call'[w] = c /\ uid' = uid
        /\ \A v \in Workers \ {w} : pc'[v] = pc[v] /\ call'[v] = call[v]
        /\ UNCHANGED <<account, versions, pending, mailed, issued>>
    BY <2>1, ArrivesAlone DEF c
  <2>4. row'[w] = NewRow(e, r) /\ \A v \in Workers \ {w} : row'[v] = row[v]
    BY <2>1 DEF AccountInv, TypeOK
  <2>5. RowsKnown'
    BY <2>3 DEF VersionsInv, RowsKnown, Exists
  <2>6. RowsFromVersions'
    BY <2>2, <2>3, <2>4 DEF VersionsInv, RowsFromVersions, UpdateOK, InsertOK, Brings, Reached
  <2>7. SecretsOwn'
    BY <2>2, <2>3 DEF VersionsInv, SecretsOwn, Under
  <2>8. MailsReach'
    BY <2>2, <2>3 DEF VersionsInv, MailsReach, Under
  <2> QED BY <2>5, <2>6, <2>7, <2>8 DEF VersionsInv
<1>2. CASE Arrives(w)
  <2>1. PICK c \in Call, step \in Steps \ {"insert"} :
          AcceptCall(w, c, step) /\ Acceptable(c, step) /\ Vouched(c)
    BY <1>2 DEF Arrives
  <2>2. step # "update" /\ row' = row
    BY <2>1 DEF Acceptable, AcceptCall
  <2>3. /\ pc[w] = "idle" /\ pc'[w] = step /\ call'[w] = c /\ uid' = uid
        /\ \A v \in Workers \ {w} : pc'[v] = pc[v] /\ call'[v] = call[v]
        /\ UNCHANGED <<account, versions, pending, mailed, issued>>
    BY <2>1, ArrivesAlone DEF AcceptCall
  <2>4. \A v \in Workers : pc[v] # "idle" => call[v] # Nil
    BY CallsAreCalls
  <2>5. RowsKnown'
    BY <2>3 DEF VersionsInv, RowsKnown, Exists
  <2>6. RowsFromVersions'
    BY <2>2, <2>3 DEF VersionsInv, RowsFromVersions, UpdateOK, InsertOK, Reached
  <2>7. SecretsOwn'
    BY <2>1, <2>3, <2>4 DEF VersionsInv, SecretsOwn, Under, Vouched
  <2>8. MailsReach'
    BY <2>1, <2>3, <2>4 DEF VersionsInv, MailsReach, Under, Vouched
  <2> QED BY <2>5, <2>6, <2>7, <2>8 DEF VersionsInv
<1> QED BY <1>1, <1>2, Arrivals

\* Statements show secrets only at the end of an enrolment.
LEMMA StepsSecrets ==
  ASSUME AccountInv, SecretsOwn, NEW w \in Workers, Step(w) \/ StatementFails(w)
  PROVE  SecretsOwn'
<1>1. /\ pc[w] # "idle" /\ (pc'[w] # "idle" => call'[w] = call[w])
      /\ \A v \in Workers \ {w} : pc'[v] = pc[v] /\ call'[v] = call[v]
  BY StepsMove, MovesAlone
<1>2. CASE issued' = issued
  BY <1>1, <1>2 DEF SecretsOwn, Under
<1>3. CASE issued' # issued
  <2>1. Update(w) /\ call[w].op = "enroll" /\ issued' = issued \cup {call[w].secret}
    BY <1>3 DEF Step, CountUsers, Insert, Get, GetSubject, GetByEmail, Update, Toggle, ResetMFA, SoftDelete,
                Upsert, SendVerificationEmail, GetPending, DeletePending, StatementFails
  <2>2. pc'[w] = "idle"
    BY <2>1, LocalEffects DEF Update
  <2>3. Under(w, "enroll")
    BY <1>1, <2>1 DEF Under
  <2> QED BY <1>1, <2>1, <2>2, <2>3 DEF SecretsOwn, Under
<1> QED BY <1>2, <1>3

LEMMA StepsMails ==
  ASSUME AccountInv, MailsReach, NEW w \in Workers, Step(w) \/ StatementFails(w)
  PROVE  MailsReach'
<1>1. /\ pc[w] # "idle" /\ (pc'[w] # "idle" => call'[w] = call[w])
      /\ \A v \in Workers \ {w} : pc'[v] = pc[v] /\ call'[v] = call[v]
  BY StepsMove, MovesAlone
<1>2. CASE Upsert(w)
  <2> DEFINE e == Lower[call[w].email]
  <2>1. /\ e \in Addresses /\ mailed' = mailed /\ Under(w, "register")
        /\ pending'[e].token = call[w].token
        /\ \A f \in Addresses \ {e} : pending'[f] = pending[f]
    BY <1>1, <1>2, UpsertWrites DEF Upsert, Under, AccountInv, TypeOK
  <2>2. /\ \A m \in mailed : m.token = call[w].token => m.to = e
        /\ \A v \in Workers \ {w} : Under(v, "register") => call[v].token # call[w].token
    BY <2>1 DEF MailsReach
  <2> HIDE DEF e
  <2>3. ASSUME NEW f \in Addresses, NEW m \in mailed', pending'[f] # Nil, pending'[f].token = m.token
        PROVE  m.to = f
    BY <2>1, <2>2, <2>3 DEF MailsReach
  <2>4. ASSUME NEW v \in Workers, Under(v, "verify")' PROVE \E m \in mailed' : m.token = call'[v].token
    BY <1>1, <2>1, <2>4 DEF MailsReach, Under
  <2>5. ASSUME NEW v \in Workers, Under(v, "register")'
        PROVE  /\ Lower[call'[v].email] \in MaySignUp
               /\ \A f \in Addresses : pending'[f] # Nil /\ pending'[f].token = call'[v].token
                                         => f = Lower[call'[v].email]
               /\ \A m \in mailed' : m.token = call'[v].token => m.to = Lower[call'[v].email]
               /\ \A x \in Workers \ {v} : Under(x, "register")' => call'[x].token # call'[v].token
    <3>1. call'[v] = call[v] /\ Under(v, "register")
      BY <1>1, <2>5 DEF Under
    <3>2. \A x \in Workers : Under(x, "register")' => Under(x, "register") /\ call'[x] = call[x]
      BY <1>1 DEF Under
    <3>3. ASSUME NEW f \in Addresses, pending'[f] # Nil, pending'[f].token = call[v].token
          PROVE  f = Lower[call[v].email]
      BY <2>1, <2>2, <3>1, <3>3 DEF MailsReach, e
    <3> QED BY <2>1, <3>1, <3>2, <3>3 DEF MailsReach
  <2> QED BY <2>3, <2>4, <2>5 DEF MailsReach
<1>3. CASE SendVerificationEmail(w)
  <2> DEFINE n == [to |-> Lower[call[w].email], token |-> call[w].token]
  <2>1. mailed' = mailed \cup {n} /\ pending' = pending /\ pc'[w] = "idle"
    BY <1>3, LocalEffects DEF SendVerificationEmail, dbVars
  <2>2. Under(w, "register")
    BY <1>1, <1>3, Holds DEF SendVerificationEmail, Under, StepsOf, Call, AllOps
  <2>3. n.to = Lower[call[w].email] /\ n.token = call[w].token
    OBVIOUS
  <2> HIDE DEF n
  <2>4. ASSUME NEW f \in Addresses, NEW m \in mailed', pending'[f] # Nil, pending'[f].token = m.token
        PROVE  m.to = f
    BY <2>1, <2>2, <2>3, <2>4 DEF MailsReach
  <2>5. ASSUME NEW v \in Workers, Under(v, "verify")' PROVE \E m \in mailed' : m.token = call'[v].token
    BY <1>1, <2>1, <2>5 DEF MailsReach, Under
  <2>6. ASSUME NEW v \in Workers, Under(v, "register")'
        PROVE  /\ Lower[call'[v].email] \in MaySignUp
               /\ \A f \in Addresses : pending'[f] # Nil /\ pending'[f].token = call'[v].token
                                         => f = Lower[call'[v].email]
               /\ \A m \in mailed' : m.token = call'[v].token => m.to = Lower[call'[v].email]
               /\ \A x \in Workers \ {v} : Under(x, "register")' => call'[x].token # call'[v].token
    <3>1. call'[v] = call[v] /\ Under(v, "register") /\ v # w
      BY <1>1, <2>1, <2>6 DEF Under
    <3>2. \A x \in Workers : Under(x, "register")' => Under(x, "register") /\ call'[x] = call[x]
      BY <1>1 DEF Under
    <3>3. call[w].token # call[v].token
      BY <2>2, <3>1 DEF MailsReach
    <3> QED BY <2>1, <2>3, <3>1, <3>2, <3>3 DEF MailsReach
  <2> QED BY <2>4, <2>5, <2>6 DEF MailsReach
<1>4. CASE ~Upsert(w) /\ ~SendVerificationEmail(w)
  <2>1. /\ mailed' = mailed
        /\ \A e \in Addresses : pending'[e] = pending[e] \/ pending'[e] = Nil
    BY <1>4 DEF Step, CountUsers, Insert, Get, GetSubject, GetByEmail, Update, Toggle, ResetMFA, SoftDelete,
                GetPending, DeletePending, StatementFails, dbVars
  <2>2. \A e \in Addresses : pending'[e] # Nil => pending'[e] = pending[e]
    BY <2>1
  <2>3. \A v \in Workers, op \in {"verify", "register"} : Under(v, op)' => Under(v, op) /\ call'[v] = call[v]
    BY <1>1 DEF Under
  <2> QED BY <2>1, <2>2, <2>3 DEF MailsReach
<1> QED BY <1>2, <1>3, <1>4

\* The tables grow by what requests were known to write.
Grows == /\ \A u \in Users : versions[u] \subseteq versions'[u]
         /\ mailed \subseteq mailed'

LEMMA RowsStay ==
  ASSUME AccountInv, RowsFromVersions, Grows, NEW v \in Workers,
         pc'[v] = pc[v], call'[v] = call[v], uid'[v] = uid[v], row'[v] = row[v]
  PROVE  UpdateOK(v)' /\ InsertOK(v)'
<1>1. Reached \subseteq Reached'
  BY DEF Grows, Reached
<1>2. InsertOK(v)'
  <2> SUFFICES ASSUME pc[v] = "insert" PROVE Brings(call[v], row[v], Reached')
    BY DEF InsertOK
  <2>1. Brings(call[v], row[v], Reached)
    BY DEF RowsFromVersions, InsertOK
  <2> QED BY <1>1, <2>1 DEF Brings
<1>3. pc[v] = "update" => uid[v] \in Users
  BY Holds DEF WorkerOK
<1>4. UpdateOK(v)'
  BY <1>3 DEF RowsFromVersions, UpdateOK, Grows
<1> QED BY <1>2, <1>4

\* A step after which its request does not stand before a write.
LEMMA RowsDone ==
  ASSUME AccountInv, RowsFromVersions, Grows, NEW w \in Workers, Moves(w),
         pc'[w] \notin {"insert", "update"}
  PROVE  RowsFromVersions'
<1>1. ASSUME NEW v \in Workers \ {w} PROVE UpdateOK(v)' /\ InsertOK(v)'
  BY MovesAlone, RowsStay
<1>2. UpdateOK(w)' /\ InsertOK(w)'
  BY DEF UpdateOK, InsertOK
<1> QED BY <1>1, <1>2 DEF RowsFromVersions

LEMMA RowsInsert ==
  ASSUME AccountInv, RowsFromVersions, Grows, NEW w \in Workers, NEW r, GoInsert(w, r),
         Brings(call[w], r, Reached)
  PROVE  RowsFromVersions'
<1>1. /\ pc'[w] = "insert" /\ call' = call /\ row'[w] = r
      /\ \A v \in Workers \ {w} : pc'[v] = pc[v] /\ row'[v] = row[v] /\ uid'[v] = uid[v]
  BY DEF GoInsert, AccountInv, TypeOK
<1>2. ASSUME NEW v \in Workers \ {w} PROVE UpdateOK(v)' /\ InsertOK(v)'
  BY <1>1, RowsStay
<1>3. Reached \subseteq Reached'
  BY DEF Grows, Reached
<1>4. UpdateOK(w)' /\ InsertOK(w)'
  BY <1>1, <1>3 DEF UpdateOK, InsertOK, Brings
<1> QED BY <1>2, <1>4 DEF RowsFromVersions

LEMMA RowsUpdate ==
  ASSUME AccountInv, RowsFromVersions, Grows, NEW w \in Workers, NEW u \in Users, NEW r,
         GoUpdate(w, u, r), NEW v \in versions[u], Makes(call[w], v, r)
  PROVE  RowsFromVersions'
<1>1. /\ pc'[w] = "update" /\ call' = call /\ row'[w] = r /\ uid'[w] = u
      /\ \A x \in Workers \ {w} : pc'[x] = pc[x] /\ row'[x] = row[x] /\ uid'[x] = uid[x]
  BY DEF GoUpdate, AccountInv, TypeOK
<1>2. ASSUME NEW x \in Workers \ {w} PROVE UpdateOK(x)' /\ InsertOK(x)'
  BY <1>1, RowsStay
<1>3. UpdateOK(w)' /\ InsertOK(w)'
  BY <1>1 DEF UpdateOK, InsertOK, Grows
<1> QED BY <1>2, <1>3 DEF RowsFromVersions

\* A row that is written is known.
LEMMA PutKnown ==
  ASSUME AccountInv, RowsKnown, NEW u \in Users, NEW r, Put(u, r)
  PROVE  RowsKnown' /\ \A x \in Users : versions[x] \subseteq versions'[x]
  BY DEF Put, RowsKnown, Exists, AccountInv, TypeOK

LEMMA AbsentRows ==
  ASSUME AccountInv, RowsFromVersions, Grows, NEW w \in Workers,
         pc[w] \in {"getSubject", "getByEmail"}, Absent(w)
  PROVE  RowsFromVersions'
<1> DEFINE s == call[w].subject
           e == call[w].email
<1>1. /\ call[w].op \in {"saml", "oidc"} /\ (pc[w] = "getByEmail" => call[w].op = "oidc")
  BY Holds DEF StepsOf, Call, AllOps
<1>2. CASE Idle(w) \/ Proceed(w, "getByEmail")
  <2>1. pc'[w] \in {"idle", "getByEmail"} /\ Moves(w)
    BY <1>2, LocalEffects DEF Moves
  <2> QED BY <2>1, RowsDone
<1>3. CASE GoInsert(w, [NewRow(e, "staff") EXCEPT !.oidc = s]) /\ call[w].op = "oidc"
  <2>1. Brings(call[w], [NewRow(e, "staff") EXCEPT !.oidc = s], Reached)
    BY <1>3 DEF Brings
  <2> HIDE DEF e, s
  <2> QED BY <1>3, <2>1, RowsInsert
<1>4. CASE /\ GoInsert(w, [NewRow(e, "user") EXCEPT !.saml = s]) /\ call[w].op = "saml"
           /\ Lower[e] \in MayFederate
  <2>1. Brings(call[w], [NewRow(e, "user") EXCEPT !.saml = s], Reached)
    BY <1>4 DEF Brings
  <2> HIDE DEF e, s
  <2> QED BY <1>4, <2>1, RowsInsert
<1> QED BY <1>1, <1>2, <1>3, <1>4 DEF Absent

LEMMA GetRows ==
  ASSUME AccountInv, RowsKnown, RowsFromVersions, Grows, NEW w \in Workers, Get(w)
  PROVE  RowsFromVersions'
<1> DEFINE u == call[w].user
<1>1. CASE Idle(w)
  BY <1>1, LocalEffects, RowsDone DEF Moves
<1>2. CASE ~Idle(w)
  <2>1. /\ GoUpdate(w, u, Changed(call[w], account[u])) /\ pc[w] = "get"
        /\ call[w].op = "confirm" => account[u].secret = call[w].secret
    BY <1>2 DEF Get
  <2>2. WellFormed(call[w]) /\ WorkerOK(w) /\ pc[w] # "idle"
        /\ call[w].op \in {"setPassword", "enroll", "confirm", "edit"}
    BY <2>1, Holds DEF StepsOf, Call, AllOps
  <2>3. u \in Users /\ account[u] \in versions[u]
    BY <2>2 DEF WorkerOK, WellFormed, UserOps, RowsKnown
  <2>4. Makes(call[w], account[u], Changed(call[w], account[u]))
    BY <2>1, <2>2 DEF Makes
  <2> HIDE DEF u
  <2> QED BY <2>1, <2>3, <2>4, RowsUpdate
<1> QED BY <1>1, <1>2

LEMMA FindRows ==
  ASSUME AccountInv, RowsKnown, RowsFromVersions, Grows, NEW w \in Workers,
         GetSubject(w) \/ GetByEmail(w)
  PROVE  RowsFromVersions'
<1>1. pc[w] \in {"getSubject", "getByEmail"} /\ call[w].op \in {"saml", "oidc"}
      /\ (pc[w] = "getByEmail" => call[w].op = "oidc")
  BY Holds DEF GetSubject, GetByEmail, StepsOf, Call, AllOps
<1>2. CASE Absent(w)
  BY <1>1, <1>2, AbsentRows
<1>3. CASE GetSubject(w) /\ ~Absent(w)
  <2>1. PICK u \in Users : /\ Exists(u) /\ GoUpdate(w, u, Changed(call[w], account[u]))
                           /\ call[w].subject = IF call[w].op = "saml" THEN account[u].saml
                                                                       ELSE account[u].oidc
    BY <1>3 DEF GetSubject
  <2>2. account[u] \in versions[u] /\ Makes(call[w], account[u], Changed(call[w], account[u]))
    BY <1>1, <2>1 DEF RowsKnown, Makes
  <2> QED BY <2>1, <2>2, RowsUpdate
<1>4. CASE GetByEmail(w) /\ ~Absent(w)
  <2> DEFINE s == call[w].subject
  <2>1. PICK u \in Users : /\ Exists(u) /\ GoUpdate(w, u, [account[u] EXCEPT !.oidc = s])
                           /\ account[u].email = Lower[call[w].email]
    BY <1>4 DEF GetByEmail
  <2>2. account[u] \in versions[u] /\ Makes(call[w], account[u], [account[u] EXCEPT !.oidc = s])
    BY <1>1, <1>4, <2>1 DEF RowsKnown, Makes, GetByEmail
  <2> HIDE DEF s
  <2> QED BY <2>1, <2>2, RowsUpdate
<1> QED BY <1>2, <1>3, <1>4

LEMMA GetPendingRows ==
  ASSUME AccountInv, RowsFromVersions, MailsReach, Grows, NEW w \in Workers, GetPending(w)
  PROVE  RowsFromVersions'
<1>1. CASE Idle(w)
  BY <1>1, LocalEffects, RowsDone DEF Moves
<1>2. CASE ~Idle(w)
  <2>1. PICK e \in Addresses : /\ pending[e] # Nil /\ pending[e].token = call[w].token
                               /\ GoInsert(w, NewRow(e, "user"))
    BY <1>2 DEF GetPending
  <2>2. Under(w, "verify")
    BY Holds DEF GetPending, Under, StepsOf, Call, AllOps
  <2>3. PICK m \in mailed : m.token = call[w].token
    BY <2>2 DEF MailsReach
  <2>4. e \in Reached
    BY <2>1, <2>3 DEF MailsReach, Reached
  <2>5. Brings(call[w], NewRow(e, "user"), Reached)
    BY <2>2, <2>4 DEF Brings, Under
  <2> QED BY <2>1, <2>5, RowsInsert
<1> QED BY <1>1, <1>2

\* The rows of users and what requests are about to write, after every statement.
LEMMA StepsRows ==
  ASSUME AccountInv, VersionsInv, NEW w \in Workers, Step(w) \/ StatementFails(w)
  PROVE  RowsKnown' /\ RowsFromVersions'
<1> USE DEF VersionsInv
<1>1. Moves(w) /\ pc[w] # "idle"
  BY StepsMove
<1>2. mailed \subseteq mailed'
  BY DEF Step, CountUsers, Insert, Get, GetSubject, GetByEmail, Update, Toggle, ResetMFA, SoftDelete,
         Upsert, SendVerificationEmail, GetPending, DeletePending, StatementFails
<1>3. CASE UNCHANGED <<account, versions>>
  <2>1. RowsKnown' /\ Grows
    BY <1>2, <1>3 DEF RowsKnown, Grows, Exists
  <2>2. CASE Idle(w)
    BY <1>1, <2>1, <2>2, LocalEffects, RowsDone
  <2>3. CASE CountUsers(w) /\ ~Idle(w)
    <3>1. GoInsert(w, NewRow(call[w].email, "admin"))
      BY <2>3 DEF CountUsers
    <3>2. WellFormed(call[w]) /\ call[w].op = "setup"
      BY <2>3, Holds DEF CountUsers, StepsOf, Call, AllOps
    <3>3. Brings(call[w], NewRow(call[w].email, "admin"), Reached)
      BY <3>2 DEF Brings, WellFormed
    <3> QED BY <2>1, <3>1, <3>3, RowsInsert
  <2>4. CASE Get(w) \/ GetSubject(w) \/ GetByEmail(w) \/ GetPending(w)
    BY <2>1, <2>4, GetRows, FindRows, GetPendingRows
  <2>5. CASE Upsert(w)
    BY <1>1, <2>1, <2>5, LocalEffects, RowsDone DEF Upsert
  <2>6. CASE StatementFails(w) /\ ~Idle(w)
    <3>1. Absent(w) /\ pc[w] \in {"getSubject", "getByEmail"}
      BY <2>6 DEF StatementFails, InsertFails
    <3> QED BY <2>1, <3>1, AbsentRows
  <2>7. CASE Insert(w) /\ ~Idle(w)
    <3>1. Proceed(w, "deletePending")
      BY <2>7 DEF Insert, InsertFails
    <3> QED BY <1>1, <2>1, <3>1, LocalEffects, RowsDone
  <2>8. CASE Toggle(w) \/ ResetMFA(w)
    <3>1. PICK step \in {"idle", "reset", "get"} : Proceed(w, step)
      BY <2>8 DEF Toggle, ResetMFA, ResetPart, ProfilePart
    <3>2. step = "idle" => Idle(w)
      BY <3>1 DEF Proceed
    <3> QED BY <1>1, <2>1, <2>2, <3>1, <3>2, LocalEffects, RowsDone
  <2> QED BY <2>1, <2>2, <2>3, <2>4, <2>5, <2>6, <2>7, <2>8 DEF Step, Update, SoftDelete,
             SendVerificationEmail, DeletePending
<1>4. CASE ~UNCHANGED <<account, versions>>
  <2>0. \E u \in Users : \E r : Put(u, r)
    <3>1. CASE Insert(w)
      BY <1>4, <3>1 DEF Insert
    <3>2. CASE Update(w)
      <4>1. uid[w] \in Users
        BY <3>2, Holds DEF Update, WorkerOK
      <4> QED BY <1>4, <3>2, <4>1 DEF Update
    <3>3. CASE Toggle(w) \/ ResetMFA(w) \/ SoftDelete(w)
      <4>1. pc[w] \in {"toggle", "reset", "softDelete"}
        BY <3>3 DEF Toggle, ResetMFA, SoftDelete
      <4>2. call[w].user \in Users
        BY <4>1, Holds DEF WellFormed, StepsOf, UserOps, Call, AllOps
      <4> QED BY <3>3, <4>2 DEF Toggle, ResetMFA, SoftDelete
    <3> QED BY <1>4, <3>1, <3>2, <3>3 DEF Step, CountUsers, Get, GetSubject, GetByEmail,
               Upsert, SendVerificationEmail, GetPending, DeletePending, StatementFails, dbVars
  <2>1. PICK u \in Users : \E r : Put(u, r)
    BY <2>0
  <2>2. RowsKnown' /\ Grows
    BY <1>2, <2>1, PutKnown DEF Grows
  <2>3. pc'[w] \in {"idle", "deletePending", "reset", "get"}
    <3>1. \/ Idle(w) \/ \E step \in {"idle", "deletePending", "reset", "get"} : Proceed(w, step)
      BY <1>4 DEF Step, CountUsers, Insert, InsertFails, Get, GetSubject, GetByEmail, Update, Toggle,
                  ResetMFA, SoftDelete, ResetPart, ProfilePart, Upsert, SendVerificationEmail,
                  GetPending, DeletePending, StatementFails, dbVars
    <3>2. Idle(w) \/ \E step \in {"deletePending", "reset", "get"} : Proceed(w, step)
      BY <3>1 DEF Proceed
    <3> QED BY <3>2, LocalEffects
  <2> QED BY <1>1, <2>2, <2>3, RowsDone
<1> QED BY <1>3, <1>4

LEMMA NextKeepsVersionsInv ==
  AccountInv /\ VersionsInv /\ [Next]_vars => VersionsInv'
<1> SUFFICES ASSUME AccountInv, VersionsInv, [Next]_vars PROVE VersionsInv'
  OBVIOUS
<1>1. ASSUME NEW w \in Workers, Step(w) \/ StatementFails(w) PROVE VersionsInv'
  BY <1>1, StepsRows, StepsSecrets, StepsMails DEF VersionsInv
<1>2. CASE Tick \/ UNCHANGED vars
  <2>1. UNCHANGED <<dbVars, workerVars, mailed, issued, versions>>
    BY <1>2 DEF Tick, vars
  <2>2. RowsKnown' /\ RowsFromVersions'
    BY <2>1 DEF VersionsInv, RowsKnown, RowsFromVersions, UpdateOK, InsertOK, Reached, Exists,
                dbVars, workerVars
  <2>3. SecretsOwn' /\ MailsReach'
    BY <2>1 DEF VersionsInv, SecretsOwn, MailsReach, Under, dbVars, workerVars
  <2> QED BY <2>2, <2>3 DEF VersionsInv
<1> QED BY <1>1, <1>2, HandleVersions DEF Next, Exhausted

LEMMA InitVersionsInv ==
  Init => VersionsInv
<1> SUFFICES ASSUME Init PROVE VersionsInv
  OBVIOUS
<1>1. RowsKnown
  BY DEF Init, RowsKnown, Exists
<1>2. RowsFromVersions /\ SecretsOwn /\ MailsReach
  BY DEF Init, RowsFromVersions, UpdateOK, InsertOK, SecretsOwn, MailsReach, Under
<1> QED BY <1>1, <1>2 DEF VersionsInv

-----------------------------------------------------------------------------
(* The steps of AccountVersions.                                           *)

AbstractStays == UNCHANGED <<account, versions, issued, Reached, Open>>

\* Whether setup is open changes by the requests that do setup alone.
LEMMA OpenStays ==
  ASSUME AccountInv, NEW w \in Workers, Moves(w), ~Opening(w), ~Opening(w)'
  PROVE  Open' = Open
<1>1. \A v \in Workers : Opening(v)' = Opening(v)
  BY MovesAlone DEF Opening
<1> QED BY <1>1 DEF Open

LEMMA ReachedStays ==
  ASSUME mailed' = mailed
  PROVE  Reached' = Reached
  BY DEF Reached

\* Requests arrive.
LEMMA HandleMaps ==
  ASSUME AccountInv, NEW w \in Workers, Handle(w)
  PROVE  AbstractStays
<1>1. PICK c, step : Accept(w, c, step) /\ ~(step = "insert" /\ c.op = "setup")
  <2>1. CASE HandleCreateUser(w)
    <3>1. PICK e \in Emails, r \in Roles :
            Accept(w, [NoCall EXCEPT !.op = "create", !.email = e, !.role = r], "insert")
      BY <2>1, AccountAssumption DEF HandleCreateUser
    <3>2. [NoCall EXCEPT !.op = "create", !.email = e, !.role = r].op = "create"
      BY DEF NoCall
    <3> QED BY <3>1, <3>2
  <2>2. CASE Arrives(w)
    BY <2>2 DEF Arrives, AcceptCall
  <2> QED BY <2>1, <2>2, Arrivals
<1>2. \A v \in Workers : Opening(v)' = Opening(v)
  BY <1>1, ArrivesAlone DEF Opening
<1>3. Open' = Open
  BY <1>2 DEF Open
<1> QED BY <1>1, <1>3, ArrivesAlone, ReachedStays DEF AbstractStays

\* Statements that read, and the registrations.
LEMMA QuietMaps ==
  ASSUME AccountInv, NEW w \in Workers,
         Get(w) \/ GetSubject(w) \/ GetByEmail(w) \/ Upsert(w) \/ GetPending(w) \/ DeletePending(w)
  PROVE  AbstractStays
<1>1. UNCHANGED <<account, versions, issued, mailed>>
  BY DEF Get, GetSubject, GetByEmail, Upsert, GetPending, DeletePending, dbVars
<1>2. Moves(w) /\ pc[w] # "insert"
  BY StepsMove DEF Step, Get, GetSubject, GetByEmail, Upsert, GetPending, DeletePending
<1>3. call[w].op # "setup"
  BY Holds DEF Get, GetSubject, GetByEmail, Upsert, GetPending, DeletePending, StepsOf
<1>4. ~Opening(w) /\ ~Opening(w)'
  BY <1>2, <1>3, MovesAlone DEF Opening
<1> QED BY <1>1, <1>2, <1>4, OpenStays, ReachedStays DEF AbstractStays

\* A setup that comes to nothing, or another request that leaves the accounts alone.
LEMMA ClosingMaps ==
  ASSUME AccountInv, NEW w \in Workers, Moves(w), ~Opening(w)',
         UNCHANGED <<account, versions, issued, mailed>>
  PROVE  Versions!CloseSetup \/ AbstractStays
<1>1. CASE Open' = Open
  BY <1>1, ReachedStays DEF AbstractStays
<1>2. CASE Open' # Open
  <2>1. Open' = FALSE
    BY <1>2, OpenStays, MovesAlone DEF Open, Opening
  <2> QED BY <2>1, ReachedStays DEF Versions!CloseSetup
<1> QED BY <1>1, <1>2

LEMMA FailsMaps ==
  ASSUME AccountInv, NEW w \in Workers, StatementFails(w)
  PROVE  Versions!CloseSetup \/ AbstractStays
<1>1. Moves(w) /\ UNCHANGED <<account, versions, issued, mailed>>
  BY StepsMove DEF StatementFails, dbVars
<1>2. ~Opening(w)'
  <2>1. CASE Idle(w)
    BY <2>1, LocalEffects DEF Opening
  <2>2. CASE ~Idle(w)
    <3>1. pc[w] \in {"getSubject", "getByEmail"}
      BY <2>2 DEF StatementFails, InsertFails
    <3>2. call[w].op # "setup"
      BY <3>1, Holds DEF StepsOf
    <3> QED BY <1>1, <3>2, MovesAlone DEF Opening
  <2> QED BY <2>1, <2>2
<1> QED BY <1>1, <1>2, ClosingMaps

LEMMA CountMaps ==
  ASSUME AccountInv, NEW w \in Workers, CountUsers(w)
  PROVE  Versions!OpenSetup \/ AbstractStays
<1>1. UNCHANGED <<account, versions, issued, mailed>> /\ Moves(w) /\ pc[w] = "count"
  BY StepsMove DEF Step, CountUsers, dbVars
<1>2. CASE Idle(w)
  <2>1. ~Opening(w) /\ ~Opening(w)'
    BY <1>1, <1>2, LocalEffects DEF Opening
  <2> QED BY <1>1, <2>1, OpenStays, ReachedStays DEF AbstractStays
<1>3. CASE ~Idle(w)
  <2>1. /\ GoInsert(w, NewRow(call[w].email, "admin"))
        /\ \A u \in Users : Exists(u) => account[u].deleted \/ account[u].disabled
    BY <1>3 DEF CountUsers
  <2>2. call[w].op = "setup"
    BY <1>1, Holds DEF StepsOf, Call, AllOps
  <2>3. pc'[w] = "insert" /\ call' = call
    BY <2>1, LocalEffects
  <2>4. Open'
    BY <2>2, <2>3 DEF Open, Opening
  <2>5. \A u \in Users : Versions!Exists(u) => account[u].deleted \/ account[u].disabled
    BY <2>1 DEF Versions!Exists, Exists
  <2> QED BY <1>1, <2>4, <2>5, ReachedStays DEF Versions!OpenSetup
<1> QED BY <1>2, <1>3

LEMMA SendMaps ==
  ASSUME AccountInv, MailsReach, NEW w \in Workers, SendVerificationEmail(w)
  PROVE  \E e \in Addresses : Versions!SendMail(e)
<1> DEFINE e == Lower[call[w].email]
<1>1. WellFormed(call[w]) /\ call[w].op = "register" /\ pc[w] = "mail"
  BY Holds DEF SendVerificationEmail, StepsOf, Call, AllOps
<1>2. e \in Addresses /\ e \in MaySignUp
  BY <1>1, LowerFacts DEF WellFormed, MailsReach, Under
<1>3. Reached' = Reached \cup {e}
  <2>1. mailed' = mailed \cup {[to |-> e, token |-> call[w].token]}
    BY DEF SendVerificationEmail
  <2> DEFINE n == [to |-> e, token |-> call[w].token]
  <2>2. mailed' = mailed \cup {n} /\ n.to = e
    BY <2>1
  <2> HIDE DEF n, e
  <2> QED BY <2>2 DEF Reached
<1>4. UNCHANGED <<account, versions, issued>> /\ Moves(w)
  BY StepsMove DEF Step, SendVerificationEmail, dbVars
<1>5. ~Opening(w) /\ ~Opening(w)'
  BY <1>1, LocalEffects DEF Opening, SendVerificationEmail
<1>6. Open' = Open
  BY <1>4, <1>5, OpenStays
<1> HIDE DEF e
<1> QED BY <1>2, <1>3, <1>4, <1>6 DEF Versions!SendMail

\* A new account.
LEMMA InsertMaps ==
  ASSUME AccountInv, RowsFromVersions, NEW w \in Workers, Insert(w)
  PROVE  Versions!Next \/ AbstractStays
<1>1. /\ pc[w] = "insert" /\ Moves(w) /\ Brings(call[w], row[w], Reached)
      /\ UNCHANGED <<issued, mailed>>
  BY StepsMove DEF Step, Insert, RowsFromVersions, InsertOK
<1>2. WellFormed(call[w])
  BY <1>1, Holds
<1>3. ~Opening(w)' /\ (call[w].op # "setup" => Open' = Open)
  <2>1. Idle(w) \/ (Proceed(w, "deletePending") /\ call[w].op = "verify")
    BY DEF Insert, InsertFails
  <2>2. ~Opening(w)'
    BY <2>1, LocalEffects DEF Opening
  <2> QED BY <1>1, <2>2, OpenStays DEF Opening
<1>4. CASE EmailTaken(Nil, row[w].email)
  <2>1. UNCHANGED <<account, versions>>
    BY <1>4 DEF Insert
  <2> QED BY <1>1, <1>3, <2>1, ClosingMaps DEF Versions!Next
<1>5. CASE ~EmailTaken(Nil, row[w].email)
  <2> DEFINE r == row[w]
             s == call[w].subject
             a == call[w].email
  <2>1. PICK u \in Users : ~Exists(u) /\ Put(u, r)
    BY <1>5 DEF Insert
  <2>2. \A v \in Users \ {u} : Exists(v) => account[v].email # r.email
    BY <1>5, RowAssumption DEF EmailTaken
  <2>3. Versions!Make(u, r)
    BY <1>1, <2>1, <2>2, ReachedStays DEF Versions!Make, Versions!Put, Versions!Exists, Exists, Put
  <2>4. CASE call[w].op = "create"
    <3>1. PICK e \in Emails, role \in Roles : r = NewRow(e, role)
      BY <1>1, <2>4 DEF Brings
    <3>2. Versions!Create(u, e, role)
      BY <1>3, <2>3, <2>4, <3>1 DEF Versions!Create, Versions!NewRow, NewRow
    <3> QED BY <3>2 DEF Versions!Next, Versions!Roles, Roles
  <2>5. CASE call[w].op = "setup"
    <3>1. PICK e \in Emails : r = NewRow(e, "admin")
      BY <1>1, <2>5 DEF Brings
    <3>2. Open /\ Open' \in BOOLEAN
      BY <1>1, <2>5 DEF Open, Opening
    <3>3. Versions!Setup(u, e)
      BY <2>3, <3>1, <3>2 DEF Versions!Setup, Versions!NewRow, NewRow
    <3> QED BY <3>3 DEF Versions!Next
  <2>6. CASE call[w].op = "verify"
    <3>1. PICK e \in Reached : e \in Addresses /\ r = NewRow(e, "user")
      BY <1>1, <2>6 DEF Brings
    <3>2. Versions!SignUp(u, e)
      BY <1>3, <2>3, <2>6, <3>1 DEF Versions!SignUp, Versions!NewRow, NewRow
    <3> QED BY <3>1, <3>2 DEF Versions!Next, Versions!Addresses, Addresses
  <2>7. CASE call[w].op = "saml"
    <3>1. /\ Lower[a] \in MayFederate /\ s \in Subjects /\ a \in Asserts[s]
          /\ r = [NewRow(a, "user") EXCEPT !.saml = s]
      BY <1>1, <1>2, <2>7 DEF Brings, WellFormed
    <3>2. Versions!FederateSAML(u, s, a)
      BY <1>3, <2>3, <2>7, <3>1 DEF Versions!FederateSAML, Versions!NewRow, NewRow
    <3> QED BY <3>1, <3>2 DEF Versions!Next
  <2>8. CASE call[w].op = "oidc"
    <3>1. /\ s \in Subjects /\ a \in Asserts[s]
          /\ r = [NewRow(a, "staff") EXCEPT !.oidc = s]
      BY <1>1, <1>2, <2>8 DEF Brings, WellFormed
    <3>2. Versions!FederateOIDC(u, s, a)
      BY <1>3, <2>3, <2>8, <3>1 DEF Versions!FederateOIDC, Versions!NewRow, NewRow
    <3> QED BY <3>1, <3>2 DEF Versions!Next
  <2> HIDE DEF r, s, a
  <2> QED BY <1>1, <2>4, <2>5, <2>6, <2>7, <2>8 DEF Brings
<1> QED BY <1>4, <1>5

\* An account is written as an operation makes it of a row it has had.
LEMMA UpdateMaps ==
  ASSUME AccountInv, RowsFromVersions, SecretsOwn, NEW w \in Workers, Update(w)
  PROVE  Versions!Next \/ AbstractStays
<1> DEFINE u == uid[w]
           r == row[w]
           c == call[w]
<1>1. /\ pc[w] = "update" /\ Moves(w) /\ mailed' = mailed /\ pc[w] # "idle"
      /\ u \in Users /\ Exists(u) /\ WellFormed(c)
  BY StepsMove, Holds DEF Step, Update, WorkerOK
<1>2. PICK v \in versions[u] : Makes(c, v, r)
  BY <1>1 DEF RowsFromVersions, UpdateOK
<1>3. Open' = Open /\ Reached' = Reached
  <2>1. ~Opening(w) /\ ~Opening(w)'
    BY <1>1, LocalEffects DEF Opening, Update
  <2> QED BY <1>1, <2>1, OpenStays, ReachedStays
<1>4. CASE UNCHANGED <<account, versions>>
  <2>1. issued' = issued \/ (c.secret \in Secrets /\ issued' = issued \cup {c.secret})
    BY <1>1 DEF Update, WellFormed
  <2>2. CASE issued' = issued
    BY <1>3, <1>4, <2>2 DEF AbstractStays
  <2>3. CASE c.secret \in Secrets /\ issued' = issued \cup {c.secret}
    <3>1. Versions!Show(c.secret)
      BY <1>3, <1>4, <2>3 DEF Versions!Show
    <3> QED BY <2>3, <3>1 DEF Versions!Next
  <2> QED BY <2>1, <2>2, <2>3
<1>5. CASE ~UNCHANGED <<account, versions>>
  <2>1. /\ ~account[u].deleted /\ ~EmailTaken(u, r.email) /\ Put(u, Stored(account[u], r))
        /\ issued' = IF c.op = "enroll" THEN issued \cup {c.secret} ELSE issued
    BY <1>5 DEF Update, Writable
  <2>2. Stored(account[u], r).email = r.email
    BY <1>1, Holds DEF Stored, WorkerOK, Row
  <2>3. Versions!Rewrite(u, r)
    BY <1>1, <1>3, <2>1, <2>2 DEF Versions!Rewrite, Versions!Put, Versions!Exists, Versions!Stored,
       Stored, Put, Exists, EmailTaken
  <2>4. c.op = "confirm" => c.secret \in issued
    BY <1>1 DEF SecretsOwn, Under
  <2>5. c.op = "enroll" => c.secret \notin issued /\ c.secret \in Secrets
    BY <1>1 DEF SecretsOwn, Under, WellFormed
  <2>6. /\ c.op \in {"saml", "oidc"} => c.subject \in Subjects /\ c.email \in Asserts[c.subject]
        /\ c.op = "edit" => c.edit \in Edits
    BY <1>1 DEF WellFormed
  <2> HIDE DEF u, r, c
  <2>7. CASE c.op = "setPassword"
    <3>1. r = v /\ issued' = issued
      BY <1>2, <2>1, <2>7 DEF Makes, Changed
    <3>2. Versions!SetPassword(u, v)
      BY <2>3, <3>1 DEF Versions!SetPassword
    <3> QED BY <1>1, <3>2 DEF Versions!Next
  <2>8. CASE c.op = "enroll"
    <3>1. r = [v EXCEPT !.secret = c.secret] /\ issued' = issued \cup {c.secret}
      BY <1>2, <2>1, <2>8 DEF Makes, Changed
    <3>2. Versions!Enroll(u, v, c.secret)
      BY <2>3, <2>5, <2>8, <3>1 DEF Versions!Enroll
    <3> QED BY <1>1, <2>5, <2>8, <3>2 DEF Versions!Next
  <2>9. CASE c.op = "confirm"
    <3>1. r = [v EXCEPT !.mfa = TRUE] /\ issued' = issued /\ v.secret = c.secret
      BY <1>2, <2>1, <2>9 DEF Makes, Changed
    <3>2. Versions!Confirm(u, v)
      BY <2>3, <2>4, <2>9, <3>1 DEF Versions!Confirm
    <3> QED BY <1>1, <3>2 DEF Versions!Next
  <2>10. CASE /\ c.op \in {"saml", "oidc"} /\ r = Changed(c, v)
              /\ c.op = "saml" => v.saml = c.subject
              /\ c.op = "oidc" => v.oidc = c.subject
    <3>1. r = LoggedIn(v, c.email) /\ issued' = issued /\ c.subject \in {v.saml, v.oidc}
      BY <2>1, <2>10 DEF Changed
    <3>2. Versions!LogIn(u, v, c.subject, c.email)
      BY <2>3, <3>1 DEF Versions!LogIn, Versions!LoggedIn, LoggedIn
    <3> QED BY <1>1, <2>6, <2>10, <3>2 DEF Versions!Next
  <2>11. CASE /\ c.op = "oidc" /\ v.email = Lower[c.email]
              /\ r = [v EXCEPT !.oidc = c.subject]
    <3>1. Versions!Link(u, v, c.subject, c.email)
      BY <2>1, <2>3, <2>11 DEF Versions!Link
    <3> QED BY <1>1, <2>6, <2>11, <3>1 DEF Versions!Next
  <2>12. CASE c.op = "edit"
    <3>1. r = Edited(v, c.edit) /\ issued' = issued
      BY <1>2, <2>1, <2>12 DEF Makes, Changed
    <3>2. Versions!EditUser(u, v, c.edit)
      BY <2>3, <3>1 DEF Versions!EditUser, Versions!Edited, Edited
    <3> QED BY <1>1, <2>6, <2>12, <3>2 DEF Versions!Next
  <2> QED BY <1>2, <2>7, <2>8, <2>9, <2>10, <2>11, <2>12 DEF Makes
<1> QED BY <1>4, <1>5

\* The statements that change columns of the row as it is.
LEMMA InPlaceMaps ==
  ASSUME AccountInv, DistinctEmails, NEW w \in Workers, Toggle(w) \/ ResetMFA(w) \/ SoftDelete(w)
  PROVE  Versions!Next
<1> DEFINE u == call[w].user
           b == (call[w].edit.toggle = "disable")
<1>1. /\ Moves(w) /\ UNCHANGED <<issued, mailed>> /\ pc[w] \in {"toggle", "reset", "softDelete"}
  BY StepsMove DEF Step, Toggle, ResetMFA, SoftDelete
<1>2. /\ u \in Users /\ Exists(u) /\ account[u] \in Row /\ call[w].op # "setup"
  <2>1. WorkerOK(w) /\ WellFormed(call[w]) /\ call[w].op \in UserOps /\ pc[w] # "idle"
    BY <1>1, Holds DEF StepsOf, UserOps, Call, AllOps
  <2> QED BY <2>1 DEF WorkerOK, WellFormed, UserOps, AccountInv, TypeOK, Exists
<1>3. Open' = Open /\ Reached' = Reached
  <2>1. ~Opening(w) /\ ~Opening(w)'
    BY <1>1, <1>2, MovesAlone DEF Opening
  <2> QED BY <1>1, <2>1, OpenStays, ReachedStays
<1> HIDE DEF u, b
<1>4. ASSUME NEW r \in Row, r.email = account[u].email, Put(u, r) PROVE Versions!InPlace(u, r)
  BY <1>1, <1>2, <1>3, <1>4 DEF DistinctEmails, Put, Exists, Versions!InPlace, Versions!Put, Versions!Exists
<1>5. CASE Toggle(w)
  <2> DEFINE r == [account[u] EXCEPT !.disabled = b]
  <2>1. Put(u, r) /\ b \in BOOLEAN
    BY <1>5 DEF Toggle, u, b
  <2>2. r \in Row /\ r.email = account[u].email
    BY <1>2, <2>1 DEF Row
  <2>3. Versions!InPlace(u, r)
    BY <1>4, <2>1, <2>2
  <2> QED BY <1>2, <2>1, <2>3 DEF Versions!Toggle, Versions!Next
<1>6. CASE ResetMFA(w)
  <2> DEFINE r == Cleared(account[u])
  <2>1. Put(u, r)
    BY <1>6 DEF ResetMFA, u
  <2>2. r \in Row /\ r.email = account[u].email
    BY <1>2 DEF Row, Cleared
  <2>3. Versions!InPlace(u, r)
    BY <1>4, <2>1, <2>2
  <2> QED BY <1>2, <2>3 DEF Versions!ResetMFA, Versions!Cleared, Cleared, Versions!Next
<1>7. CASE SoftDelete(w)
  <2> DEFINE r == [account[u] EXCEPT !.deleted = TRUE]
  <2>1. Put(u, r)
    BY <1>7 DEF SoftDelete, u
  <2>2. r \in Row /\ r.email = account[u].email
    BY <1>2 DEF Row
  <2>3. Versions!InPlace(u, r)
    BY <1>4, <2>1, <2>2
  <2> QED BY <1>2, <2>3 DEF Versions!SoftDelete, Versions!Next
<1> QED BY <1>5, <1>6, <1>7

LEMMA NextMaps ==
  AccountInv /\ SafetyInv /\ VersionsInv /\ [Next]_vars => [Versions!Next]_Versions!vars
<1> SUFFICES ASSUME AccountInv, SafetyInv, VersionsInv, [Next]_vars
             PROVE  Versions!Next \/ AbstractStays
  BY DEF AbstractStays, Versions!vars
<1>1. ASSUME NEW w \in Workers, Step(w) PROVE Versions!Next \/ AbstractStays
  <2>1. CASE CountUsers(w)
    BY <2>1, CountMaps DEF Versions!Next
  <2>2. CASE Insert(w)
    BY <2>2, InsertMaps DEF VersionsInv
  <2>3. CASE Update(w)
    BY <2>3, UpdateMaps DEF VersionsInv
  <2>4. CASE Toggle(w) \/ ResetMFA(w) \/ SoftDelete(w)
    BY <2>4, InPlaceMaps DEF SafetyInv
  <2>5. CASE SendVerificationEmail(w)
    BY <2>5, SendMaps DEF VersionsInv, Versions!Next, Versions!Addresses, Addresses
  <2>6. CASE Get(w) \/ GetSubject(w) \/ GetByEmail(w) \/ Upsert(w) \/ GetPending(w) \/ DeletePending(w)
    BY <2>6, QuietMaps
  <2> QED BY <1>1, <2>1, <2>2, <2>3, <2>4, <2>5, <2>6 DEF Step
<1>2. ASSUME NEW w \in Workers, StatementFails(w) PROVE Versions!Next \/ AbstractStays
  BY <1>2, FailsMaps DEF Versions!Next
<1>3. ASSUME NEW w \in Workers, Handle(w) PROVE AbstractStays
  BY <1>3, HandleMaps
<1>4. CASE Tick \/ UNCHANGED vars
  BY <1>4 DEF Tick, vars, dbVars, workerVars, AbstractStays, Reached, Open, Opening
<1> QED BY <1>1, <1>2, <1>3, <1>4 DEF Next, Exhausted

LEMMA InitMaps ==
  Init => Versions!Init
<1> SUFFICES ASSUME Init PROVE Versions!Init
  OBVIOUS
<1>1. Reached = {} /\ Open = FALSE
  BY DEF Init, Reached, Open, Opening
<1>2. \A u \in Users : Versions!SeededRow(u) = SeededRow(u)
  BY DEF Versions!SeededRow, SeededRow, Versions!NewRow, NewRow
<1> QED BY <1>1, <1>2 DEF Init, Versions!Init

\* However requests overlap and statements fail, what becomes of an account is what one
\* operation makes of a row the account has had and whose conditions that row met, with
\* disabled and deleted as they are at present and an address no other account has.
THEOREM AccountsImplementVersions ==
  Spec => ImplementsVersions
<1>1. Spec => []AccountInv
  BY InitAccountInv, NextKeepsAccountInv, PTL DEF Spec
<1>2. Spec => []SafetyInv
  BY <1>1, InitSafetyInv, NextKeepsSafetyInv, PTL DEF Spec
<1>3. Spec => []VersionsInv
  BY <1>1, InitVersionsInv, NextKeepsVersionsInv, PTL DEF Spec
<1> QED BY <1>1, <1>2, <1>3, InitMaps, NextMaps, PTL DEF Spec, ImplementsVersions, Versions!Spec

-----------------------------------------------------------------------------
(* What the promises add up to, for AccountVersions and so for the         *)
(* accounts.  TraceInv says of every row an account has had where its      *)
(* links and its factor are from; it is inductive in AccountVersions.      *)

VersionTypes ==
  /\ account \in [Users -> Row \cup {Nil}]
  /\ versions \in [Users -> SUBSET Row]

\* A factor that is there was shown to its user.
SecretsShown == \A u \in Users : \A v \in versions[u] : v.secret \in issued \cup {Nil}

TraceInv ==
  /\ VersionTypes /\ RowsKnown /\ SecretsShown
  /\ Versions!LinksAreAsserted /\ Versions!FactorsAreOwn

\* Row r adds to the versions of u nothing but what came from them, or by right.
Traced(u, r) ==
  /\ r \in Row
  /\ \A s \in {r.saml, r.oidc} \ {Nil} : \E y \in versions[u] \cup {r} : \E e \in Asserts[s] : y.email = Lower[e]
  /\ r.secret \in issued' \cup {Nil}
  /\ r.secret # Nil => \A t \in Users \ {u} : \A y \in versions[t] : y.secret # r.secret
  /\ r.mfa => \E y \in versions[u] \cup {r} : y.mfa /\ y.secret \in issued'

LEMMA TracedKeeps ==
  ASSUME TraceInv, NEW u \in Users, NEW r, Traced(u, r), Put(u, r), issued \subseteq issued'
  PROVE  TraceInv'
<1>1. /\ account'[u] = r /\ \A t \in Users \ {u} : account'[t] = account[t]
      /\ versions'[u] = versions[u] \cup {r} /\ \A t \in Users \ {u} : versions'[t] = versions[t]
  BY DEF TraceInv, VersionTypes, Put
<1>2. VersionTypes'
  BY DEF TraceInv, VersionTypes, Put, Traced
<1>3. RowsKnown'
  BY <1>1 DEF TraceInv, RowsKnown, Exists
<1>4. SecretsShown'
  <2> SUFFICES ASSUME NEW t \in Users, NEW v \in versions'[t] PROVE v.secret \in issued' \cup {Nil}
    BY DEF SecretsShown
  <2>1. v \in versions[t] \/ v = r
    BY <1>1
  <2> QED BY <2>1 DEF TraceInv, SecretsShown, Traced
<1>5. Versions!LinksAreAsserted'
  <2> SUFFICES ASSUME NEW t \in Users, NEW v \in versions'[t], NEW s \in {v.saml, v.oidc} \ {Nil}
               PROVE  \E y \in versions'[t] : \E e \in Asserts[s] : y.email = Lower[e]
    BY DEF Versions!LinksAreAsserted
  <2>1. CASE v \in versions[t]
    <3>1. PICK y \in versions[t] : \E e \in Asserts[s] : y.email = Lower[e]
      BY <2>1 DEF TraceInv, Versions!LinksAreAsserted
    <3> QED BY <1>1, <3>1
  <2>2. CASE v \notin versions[t]
    <3>1. t = u /\ v = r
      BY <1>1, <2>2
    <3> QED BY <1>1, <3>1 DEF Traced
  <2> QED BY <2>1, <2>2
<1>6. Versions!FactorsAreOwn'
  <2> SUFFICES ASSUME NEW t \in Users, NEW v \in versions'[t]
               PROVE  /\ v.secret # Nil =>
                           \A x \in Users \ {t} : \A y \in versions'[x] : y.secret # v.secret
                      /\ v.mfa => \E y \in versions'[t] : y.mfa /\ y.secret \in issued'
    BY DEF Versions!FactorsAreOwn
  <2>1. \/ v \in versions[t]
        \/ t = u /\ v = r
    BY <1>1
  <2>2. ASSUME v.secret # Nil, NEW x \in Users \ {t}, NEW y \in versions'[x] PROVE y.secret # v.secret
    <3>1. y \in versions[x] \/ (x = u /\ y = r)
      BY <1>1
    <3>2. CASE v \in versions[t] /\ y \in versions[x]
      BY <2>2, <3>2 DEF TraceInv, Versions!FactorsAreOwn
    <3>3. CASE v \in versions[t] /\ x = u /\ y = r
      BY <2>2, <3>3 DEF Traced
    <3>4. CASE t = u /\ v = r /\ y \in versions[x]
      BY <2>2, <3>4 DEF Traced
    <3> QED BY <2>1, <2>2, <3>1, <3>2, <3>3, <3>4
  <2>3. ASSUME v.mfa PROVE \E y \in versions'[t] : y.mfa /\ y.secret \in issued'
    <3>1. CASE v \in versions[t]
      <4>1. PICK y \in versions[t] : y.mfa /\ y.secret \in issued
        BY <2>3, <3>1 DEF TraceInv, Versions!FactorsAreOwn
      <4> QED BY <1>1, <4>1
    <3>2. CASE t = u /\ v = r
      BY <1>1, <2>3, <3>2 DEF Traced
    <3> QED BY <2>1, <3>1, <3>2
  <2> QED BY <2>2, <2>3
<1> QED BY <1>2, <1>3, <1>4, <1>5, <1>6 DEF TraceInv

\* A row with the links and the factor of one the account has had.
LEMMA SameIsTraced ==
  ASSUME TraceInv, NEW u \in Users, NEW v \in versions[u], NEW r \in Row, issued \subseteq issued',
         r.saml \in {v.saml, Nil}, r.oidc \in {v.oidc, Nil},
         r.secret \in {v.secret, Nil}, r.mfa => v.mfa
  PROVE  Traced(u, r)
<1>1. \A s \in {r.saml, r.oidc} \ {Nil} : \E y \in versions[u] : \E e \in Asserts[s] : y.email = Lower[e]
  BY DEF TraceInv, Versions!LinksAreAsserted
<1>2. r.secret \in issued' \cup {Nil}
  BY DEF TraceInv, SecretsShown
<1>3. r.secret # Nil => \A t \in Users \ {u} : \A y \in versions[t] : y.secret # r.secret
  BY DEF TraceInv, Versions!FactorsAreOwn
<1>4. r.mfa => \E y \in versions[u] : y.mfa /\ y.secret \in issued'
  BY DEF TraceInv, Versions!FactorsAreOwn
<1> QED BY <1>1, <1>2, <1>3, <1>4 DEF Traced

\* What is written in place of a row.
LEMMA StoredFacts ==
  ASSUME NEW old \in Row, NEW r \in Row
  PROVE  /\ Versions!Stored(old, r) \in Row
         /\ LET n == Versions!Stored(old, r)
            IN  /\ n.email = r.email /\ n.saml = r.saml /\ n.oidc = r.oidc
                /\ n.secret = r.secret /\ n.mfa = r.mfa
  BY DEF Versions!Stored, Row

LEMMA MakeTraced ==
  ASSUME TraceInv, NEW u \in Users, NEW r \in Row, Versions!Make(u, r), r.secret = Nil, ~r.mfa,
         \A s \in {r.saml, r.oidc} \ {Nil} : \E e \in Asserts[s] : r.email = Lower[e]
  PROVE  TraceInv'
<1>1. Put(u, r) /\ issued' = issued
  BY DEF Versions!Make, Versions!Put, Put
<1>2. Traced(u, r)
  BY DEF Traced
<1> QED BY <1>1, <1>2, TracedKeeps

LEMMA RewriteTraced ==
  ASSUME TraceInv, NEW u \in Users, NEW r \in Row, Versions!Rewrite(u, r), issued \subseteq issued',
         Traced(u, Versions!Stored(account[u], r))
  PROVE  TraceInv'
<1>1. Put(u, Versions!Stored(account[u], r))
  BY DEF Versions!Rewrite, Versions!Put, Put
<1> QED BY <1>1, TracedKeeps

\* A rewriting that takes links and factor from the row it started from.
LEMMA SameRewritten ==
  ASSUME TraceInv, NEW u \in Users, NEW v \in versions[u], NEW r \in Row, Versions!Rewrite(u, r),
         issued \subseteq issued',
         r.saml = v.saml, r.oidc = v.oidc, r.secret = v.secret, r.mfa = v.mfa
  PROVE  TraceInv'
<1>1. account[u] \in Row
  BY DEF Versions!Rewrite, Versions!Exists, TraceInv, VersionTypes
<1> DEFINE n == Versions!Stored(account[u], r)
<1>2. /\ n \in Row /\ n.saml = v.saml /\ n.oidc = v.oidc
      /\ n.secret = v.secret /\ n.mfa = v.mfa
  BY <1>1, StoredFacts
<1> HIDE DEF n
<1>3. Traced(u, n)
  BY <1>2, SameIsTraced
<1> QED BY <1>3, RewriteTraced DEF n

LEMMA InPlaceTraced ==
  ASSUME TraceInv, NEW u \in Users, NEW r \in Row, Versions!InPlace(u, r),
         r.saml = account[u].saml, r.oidc = account[u].oidc,
         r.secret \in {account[u].secret, Nil}, r.mfa => account[u].mfa
  PROVE  TraceInv'
<1>1. account[u] \in versions[u] /\ Put(u, r) /\ issued' = issued
  BY DEF Versions!InPlace, Versions!Exists, Versions!Put, Put, TraceInv, RowsKnown, Exists
<1>2. Traced(u, r)
  BY <1>1, SameIsTraced
<1> QED BY <1>1, <1>2, TracedKeeps

LEMMA VersionRows ==
  ASSUME TraceInv, NEW u \in Users, NEW v \in versions[u]
  PROVE  v \in Row
  BY DEF TraceInv, VersionTypes

LEMMA NextKeepsTraceInv ==
  TraceInv /\ [Versions!Next]_Versions!vars => TraceInv'
<1> SUFFICES ASSUME TraceInv, [Versions!Next]_Versions!vars PROVE TraceInv'
  OBVIOUS
<1>1. ASSUME UNCHANGED <<account, versions>>, issued \subseteq issued' PROVE TraceInv'
  <2>1. VersionTypes' /\ RowsKnown' /\ SecretsShown'
    BY <1>1 DEF TraceInv, VersionTypes, RowsKnown, SecretsShown, Exists
  <2>2. Versions!LinksAreAsserted'
    BY <1>1 DEF TraceInv, Versions!LinksAreAsserted
  <2>3. Versions!FactorsAreOwn'
    BY <1>1 DEF TraceInv, Versions!FactorsAreOwn
  <2> QED BY <2>1, <2>2, <2>3 DEF TraceInv
<1>2. ASSUME NEW e \in Emails, NEW role \in Roles
      PROVE  /\ Versions!NewRow(e, role) = NewRow(e, role) /\ NewRow(e, role) \in Row
             /\ LET r == NewRow(e, role)
                IN  r.email = Lower[e] /\ r.secret = Nil /\ ~r.mfa /\ r.saml = Nil /\ r.oidc = Nil
             /\ \A s \in Subjects :
                  LET r == [NewRow(e, role) EXCEPT !.saml = s]
                      q == [NewRow(e, role) EXCEPT !.oidc = s]
                  IN  /\ {r, q} \subseteq Row /\ r.secret = Nil /\ ~r.mfa /\ q.secret = Nil /\ ~q.mfa
                      /\ r.saml = s /\ r.oidc = Nil /\ q.saml = Nil /\ q.oidc = s
                      /\ r.email = Lower[e] /\ q.email = Lower[e]
  BY NewRowFacts DEF Versions!NewRow, NewRow
<1>3. ASSUME NEW u \in Users, NEW e \in Emails, NEW role \in Roles, Versions!Make(u, Versions!NewRow(e, role))
      PROVE  TraceInv'
  <2> DEFINE r == NewRow(e, role)
  <2>1. r \in Row /\ Versions!Make(u, r) /\ r.secret = Nil /\ ~r.mfa /\ {r.saml, r.oidc} = {Nil}
    BY <1>2, <1>3
  <2> HIDE DEF r
  <2> QED BY <2>1, MakeTraced
<1>4. ASSUME NEW u \in Users, NEW e \in Emails, Versions!Setup(u, e) PROVE TraceInv'
  BY <1>3, <1>4, RolesFacts DEF Versions!Setup
<1>5. ASSUME NEW u \in Users, NEW e \in Emails, NEW role \in Versions!Roles, Versions!Create(u, e, role)
      PROVE  TraceInv'
  BY <1>3, <1>5 DEF Versions!Create, Versions!Roles, Roles
<1>6. ASSUME NEW u \in Users, NEW e \in Versions!Addresses, Versions!SignUp(u, e) PROVE TraceInv'
  <2>1. e \in Emails
    BY LowerFacts DEF Versions!Addresses, Addresses
  <2> QED BY <1>3, <1>6, <2>1, RolesFacts DEF Versions!SignUp
<1>7. ASSUME NEW u \in Users, NEW s \in Subjects, NEW e \in Asserts[s], Versions!FederateSAML(u, s, e)
      PROVE TraceInv'
  <2> DEFINE r == [NewRow(e, "user") EXCEPT !.saml = s]
  <2>0. e \in Emails /\ "user" \in Roles
    BY LowerFacts, RolesFacts
  <2>1. /\ r \in Row /\ r.secret = Nil /\ ~r.mfa
        /\ r.saml = s /\ r.oidc = Nil /\ r.email = Lower[e]
    BY <1>2, <2>0
  <2>2. Versions!Make(u, r)
    <3>1. Versions!NewRow(e, "user") = NewRow(e, "user")
      BY <1>2, <2>0
    <3> QED BY <1>7, <3>1 DEF Versions!FederateSAML
  <2> HIDE DEF r
  <2> QED BY <2>1, <2>2, MakeTraced
<1>8. ASSUME NEW u \in Users, NEW s \in Subjects, NEW e \in Asserts[s], Versions!FederateOIDC(u, s, e)
      PROVE TraceInv'
  <2> DEFINE r == [NewRow(e, "staff") EXCEPT !.oidc = s]
  <2>0. e \in Emails /\ "staff" \in Roles
    BY LowerFacts, RolesFacts
  <2>1. /\ r \in Row /\ r.secret = Nil /\ ~r.mfa
        /\ r.oidc = s /\ r.saml = Nil /\ r.email = Lower[e]
    BY <1>2, <2>0
  <2>2. Versions!Make(u, r)
    <3>1. Versions!NewRow(e, "staff") = NewRow(e, "staff")
      BY <1>2, <2>0
    <3> QED BY <1>8, <3>1 DEF Versions!FederateOIDC
  <2> HIDE DEF r
  <2> QED BY <2>1, <2>2, MakeTraced
<1>9. ASSUME NEW u \in Users, NEW v \in versions[u], Versions!SetPassword(u, v) PROVE TraceInv'
  BY <1>9, VersionRows, SameRewritten DEF Versions!SetPassword
<1>10. ASSUME NEW u \in Users, NEW v \in versions[u], NEW s \in Subjects, NEW e \in Asserts[s],
              Versions!LogIn(u, v, s, e)
       PROVE TraceInv'
  <2> DEFINE r == Versions!LoggedIn(v, e)
  <2>1. r \in Row /\ r.saml = v.saml /\ r.oidc = v.oidc /\ r.secret = v.secret /\ r.mfa = v.mfa
    BY VersionRows, LowerFacts DEF Versions!LoggedIn, Row
  <2>2. Versions!Rewrite(u, r) /\ issued' = issued
    BY <1>10 DEF Versions!LogIn
  <2> HIDE DEF r
  <2> QED BY <2>1, <2>2, SameRewritten
<1>11. ASSUME NEW u \in Users, NEW v \in versions[u], NEW d \in Edits, Versions!EditUser(u, v, d)
       PROVE TraceInv'
  <2> DEFINE r == Versions!Edited(v, d)
  <2>1. d.email \in Emails \cup {Nil} /\ d.role \in Roles \cup {Nil}
    BY AddressAssumption DEF Edit
  <2>2. r \in Row /\ r.saml = v.saml /\ r.oidc = v.oidc /\ r.secret = v.secret /\ r.mfa = v.mfa
    BY <2>1, VersionRows DEF Versions!Edited, Row
  <2>3. Versions!Rewrite(u, r) /\ issued' = issued
    BY <1>11 DEF Versions!EditUser
  <2> HIDE DEF r
  <2> QED BY <2>2, <2>3, SameRewritten
<1>12. ASSUME NEW u \in Users, NEW v \in versions[u], NEW x \in Secrets, Versions!Enroll(u, v, x)
       PROVE TraceInv'
  <2> DEFINE r == [v EXCEPT !.secret = x]
             n == Versions!Stored(account[u], r)
  <2>1. r \in Row /\ r.saml = v.saml /\ r.oidc = v.oidc /\ r.secret = x /\ r.mfa = v.mfa
    BY VersionRows DEF Row
  <2>2. Versions!Rewrite(u, r) /\ issued' = issued \cup {x} /\ x \notin issued /\ x # Nil
    BY <1>12, RowAssumption DEF Versions!Enroll
  <2> HIDE DEF r
  <2>3. account[u] \in Row
    BY <2>2 DEF Versions!Rewrite, Versions!Exists, TraceInv, VersionTypes
  <2>4. n \in Row /\ n.saml = v.saml /\ n.oidc = v.oidc /\ n.secret = x /\ n.mfa = v.mfa
    BY <2>1, <2>3, StoredFacts
  <2> HIDE DEF n
  <2>5. \A s \in {n.saml, n.oidc} \ {Nil} : \E y \in versions[u] : \E e \in Asserts[s] : y.email = Lower[e]
    BY <2>4 DEF TraceInv, Versions!LinksAreAsserted
  <2>6. \A t \in Users : \A y \in versions[t] : y.secret # x
    BY <2>2 DEF TraceInv, SecretsShown
  <2>7. n.mfa => \E y \in versions[u] : y.mfa /\ y.secret \in issued'
    BY <2>2, <2>4 DEF TraceInv, Versions!FactorsAreOwn
  <2>8. Traced(u, n)
    BY <2>2, <2>4, <2>5, <2>6, <2>7 DEF Traced
  <2> QED BY <2>1, <2>2, <2>8, RewriteTraced DEF n
<1>13. ASSUME NEW u \in Users, NEW v \in versions[u], Versions!Confirm(u, v) PROVE TraceInv'
  <2> DEFINE r == [v EXCEPT !.mfa = TRUE]
             n == Versions!Stored(account[u], r)
  <2>1. r \in Row /\ r.saml = v.saml /\ r.oidc = v.oidc /\ r.secret = v.secret /\ r.mfa = TRUE
    BY VersionRows DEF Row
  <2>2. Versions!Rewrite(u, r) /\ issued' = issued /\ v.secret \in issued
    BY <1>13 DEF Versions!Confirm
  <2> HIDE DEF r
  <2>3. account[u] \in Row
    BY <2>2 DEF Versions!Rewrite, Versions!Exists, TraceInv, VersionTypes
  <2>4. n \in Row /\ n.saml = v.saml /\ n.oidc = v.oidc /\ n.secret = v.secret /\ n.mfa = TRUE
    BY <2>1, <2>3, StoredFacts
  <2> HIDE DEF n
  <2>5. \A s \in {n.saml, n.oidc} \ {Nil} : \E y \in versions[u] : \E e \in Asserts[s] : y.email = Lower[e]
    BY <2>4 DEF TraceInv, Versions!LinksAreAsserted
  <2>6. n.secret # Nil => \A t \in Users \ {u} : \A y \in versions[t] : y.secret # n.secret
    BY <2>4 DEF TraceInv, Versions!FactorsAreOwn
  <2>7. Traced(u, n)
    BY <2>2, <2>4, <2>5, <2>6 DEF Traced
  <2> QED BY <2>1, <2>2, <2>7, RewriteTraced DEF n
<1>14. ASSUME NEW u \in Users, NEW v \in versions[u], NEW s \in Subjects, NEW e \in Asserts[s],
              Versions!Link(u, v, s, e)
       PROVE TraceInv'
  <2> DEFINE r == [v EXCEPT !.oidc = s]
             n == Versions!Stored(account[u], r)
  <2>1. r \in Row /\ r.saml = v.saml /\ r.oidc = s /\ r.secret = v.secret /\ r.mfa = v.mfa
    BY VersionRows DEF Row
  <2>2. Versions!Rewrite(u, r) /\ issued' = issued /\ v.email = Lower[e]
    BY <1>14 DEF Versions!Link
  <2> HIDE DEF r
  <2>3. account[u] \in Row
    BY <2>2 DEF Versions!Rewrite, Versions!Exists, TraceInv, VersionTypes
  <2>4. n \in Row /\ n.saml = v.saml /\ n.oidc = s /\ n.secret = v.secret /\ n.mfa = v.mfa
    BY <2>1, <2>3, StoredFacts
  <2> HIDE DEF n
  <2>5. \A z \in {n.saml, n.oidc} \ {Nil} : \E y \in versions[u] : \E a \in Asserts[z] : y.email = Lower[a]
    BY <2>2, <2>4 DEF TraceInv, Versions!LinksAreAsserted
  <2>6. n.secret # Nil => \A t \in Users \ {u} : \A y \in versions[t] : y.secret # n.secret
    BY <2>4 DEF TraceInv, Versions!FactorsAreOwn
  <2>7. n.mfa => \E y \in versions[u] : y.mfa /\ y.secret \in issued'
    BY <2>2, <2>4 DEF TraceInv, Versions!FactorsAreOwn
  <2>8. n.secret \in issued' \cup {Nil}
    BY <2>2, <2>4 DEF TraceInv, SecretsShown
  <2>9. Traced(u, n)
    BY <2>4, <2>5, <2>6, <2>7, <2>8 DEF Traced
  <2> QED BY <2>1, <2>2, <2>9, RewriteTraced DEF n
<1>15. ASSUME NEW u \in Users, Versions!ResetMFA(u) PROVE TraceInv'
  <2> DEFINE r == Versions!Cleared(account[u])
  <2>1. account[u] \in Row /\ Versions!InPlace(u, r)
    BY <1>15 DEF Versions!ResetMFA, Versions!InPlace, Versions!Exists, TraceInv, VersionTypes
  <2>2. r \in Row /\ r.saml = account[u].saml /\ r.oidc = account[u].oidc /\ r.secret = Nil /\ ~r.mfa
    BY <2>1 DEF Versions!Cleared, Row
  <2> HIDE DEF r
  <2> QED BY <2>1, <2>2, InPlaceTraced
<1>16. ASSUME NEW u \in Users, Versions!SoftDelete(u) PROVE TraceInv'
  <2> DEFINE r == [account[u] EXCEPT !.deleted = TRUE]
  <2>1. account[u] \in Row /\ Versions!InPlace(u, r)
    BY <1>16 DEF Versions!SoftDelete, Versions!InPlace, Versions!Exists, TraceInv, VersionTypes
  <2>2. /\ r \in Row /\ r.saml = account[u].saml /\ r.oidc = account[u].oidc
        /\ r.secret = account[u].secret /\ r.mfa = account[u].mfa
    BY <2>1 DEF Row
  <2> HIDE DEF r
  <2> QED BY <2>1, <2>2, InPlaceTraced
<1>17. ASSUME NEW u \in Users, NEW b \in BOOLEAN, Versions!Toggle(u, b) PROVE TraceInv'
  <2> DEFINE r == [account[u] EXCEPT !.disabled = b]
  <2>1. account[u] \in Row /\ Versions!InPlace(u, r)
    BY <1>17 DEF Versions!Toggle, Versions!InPlace, Versions!Exists, TraceInv, VersionTypes
  <2>2. /\ r \in Row /\ r.saml = account[u].saml /\ r.oidc = account[u].oidc
        /\ r.secret = account[u].secret /\ r.mfa = account[u].mfa
    BY <2>1 DEF Row
  <2> HIDE DEF r
  <2> QED BY <2>1, <2>2, InPlaceTraced
<1>18. ASSUME \/ \E e \in Versions!Addresses : Versions!SendMail(e)
              \/ \E x \in Secrets : Versions!Show(x)
              \/ Versions!OpenSetup \/ Versions!CloseSetup \/ UNCHANGED Versions!vars
       PROVE  TraceInv'
  BY <1>1, <1>18 DEF Versions!SendMail, Versions!Show, Versions!OpenSetup, Versions!CloseSetup, Versions!vars
<1> QED BY <1>4, <1>5, <1>6, <1>7, <1>8, <1>9, <1>10, <1>11, <1>12, <1>13, <1>14, <1>15, <1>16, <1>17, <1>18
        DEF Versions!Next

LEMMA InitTraceInv ==
  Versions!Init => TraceInv
<1> SUFFICES ASSUME Versions!Init PROVE TraceInv
  OBVIOUS
<1>1. ASSUME NEW u \in Users, Seeded[u] # Nil
      PROVE  /\ SeededRow(u) \in Row /\ SeededRow(u).secret = Nil /\ ~SeededRow(u).mfa
             /\ SeededRow(u).saml = Nil /\ SeededRow(u).oidc = Nil
  <2>1. Seeded[u] \in Emails
    BY <1>1, SeededAssumption, LowerFacts
  <2>2. SeededRow(u) = NewRow(Seeded[u], "staff")
    BY <1>1 DEF SeededRow
  <2> QED BY <2>1, <2>2, NewRowFacts, RolesFacts DEF NewRow
<1>2. \A u \in Users : Versions!SeededRow(u) = SeededRow(u)
  BY DEF Versions!SeededRow, SeededRow, Versions!NewRow, NewRow
<1>3. \A u \in Users : Seeded[u] = Nil => SeededRow(u) = Nil
  BY DEF SeededRow
<1>4. account = [u \in Users |-> SeededRow(u)] /\ versions = [u \in Users |-> {SeededRow(u)} \ {Nil}]
  BY <1>2 DEF Versions!Init
<1>5. VersionTypes
  BY <1>1, <1>3, <1>4 DEF VersionTypes
<1>6. RowsKnown
  BY <1>4 DEF RowsKnown, Exists
<1>7. ASSUME NEW u \in Users, NEW v \in versions[u]
      PROVE  v.secret = Nil /\ ~v.mfa /\ v.saml = Nil /\ v.oidc = Nil
  <2>1. v = SeededRow(u) /\ v # Nil
    BY <1>4
  <2> QED BY <1>1, <1>3, <2>1
<1>8. SecretsShown
  BY <1>7 DEF SecretsShown
<1>9. Versions!LinksAreAsserted
  BY <1>7 DEF Versions!LinksAreAsserted
<1>10. Versions!FactorsAreOwn
  BY <1>7 DEF Versions!FactorsAreOwn
<1> QED BY <1>5, <1>6, <1>8, <1>9, <1>10 DEF TraceInv

LEMMA VersionsAreTraced ==
  Versions!Spec => []TraceInv
<1> QED BY InitTraceInv, NextKeepsTraceInv, PTL DEF Versions!Spec

\* No overlap of log-ins, links, edits and resets brings a subject of an identity provider to
\* an account that has never had an address asserted with it.
THEOREM AccountLinksAreAsserted ==
  Spec => []Versions!LinksAreAsserted
<1>1. TraceInv => Versions!LinksAreAsserted
  BY DEF TraceInv
<1> QED BY <1>1, VersionsAreTraced, AccountsImplementVersions, PTL DEF ImplementsVersions

\* No secret of a second factor is ever that of two accounts, not even when a stale write
\* undoes a reset, and where a factor is in force one was confirmed that had been shown.
THEOREM AccountFactorsAreOwn ==
  Spec => []Versions!FactorsAreOwn
<1>1. TraceInv => Versions!FactorsAreOwn
  BY DEF TraceInv
<1> QED BY <1>1, VersionsAreTraced, AccountsImplementVersions, PTL DEF ImplementsVersions
=============================================================================
