---------------------------- MODULE UserAccounts ----------------------------
(***************************************************************************)
(* The accounts of the system (table `users`), from domain/user/service.go *)
(* and database/userstore, with the self-registration of domain/           *)
(* registration (table `pending_registrations`).                           *)
(*                                                                         *)
(* Requests (Workers) run as sequences of separate statements.  Some       *)
(* operations read a row, change it in memory and write all its columns    *)
(* back; others update single columns in place; accounts come into being   *)
(* by four routes.  Between two statements anything else may happen.       *)
(*                                                                         *)
(* Display names, passwords and the contents of sessions are left out: an  *)
(* operation that changes only these writes the row back as it was read.   *)
(* AdminSetPassword, which writes the password alone, and Restore, which   *)
(* has no caller, are left out.                                            *)
(***************************************************************************)
EXTENDS AccountRules

CONSTANTS
  Tokens,       \* random ids of the registration: of rows and of verification mails
  TTL,          \* days a verification token lasts
  Workers,      \* requests that can be in progress at the same time
  Ops,          \* operations the requests of this instance use
  NewRoles,     \* roles of the accounts that administrators create
  MaxRequests,  \* bound on the number of requests
  MaxFaults,    \* bound on the number of failing statements
  MaxDay        \* bound on the clock

AllOps == {"create", "setup", "register", "verify", "setPassword", "enroll", "confirm",
           "saml", "oidc", "edit", "delete"}

ASSUME AccountAssumption ==
  /\ Ops \subseteq AllOps /\ NewRoles \subseteq Roles
  /\ {TTL, MaxRequests, MaxFaults} \subseteq Nat
  /\ MaxDay \in Nat \ {0}

\* A row of pending_registrations; its unique address is its place in the table.
PendingRow == [id : Tokens, token : Tokens, expires : Nat]

\* A verification mail.
Mail == [to : Addresses, token : Tokens]

\* A request and its parameters.
Call ==
  [op      : AllOps,
   user    : Users \cup {Nil},
   email   : Emails \cup {Nil},
   role    : Roles \cup {Nil},
   subject : Subjects \cup {Nil},
   secret  : Secrets \cup {Nil},
   token   : Tokens \cup {Nil},
   edit    : Edits \cup {Nil}]

ASSUME NilAssumption == Nil \notin Tokens \cup PendingRow \cup Call \cup Edit \cup {"disable", "enable"}

Steps == {"idle", "count", "upsert", "mail", "getPending", "insert", "deletePending", "get",
          "getSubject", "getByEmail", "update", "toggle", "reset", "softDelete"}

VARIABLES
  (* database *)
  account,   \* table users
  pending,   \* pending[e]: the row of pending_registrations with address e
  (* requests *)
  pc,        \* pc[w]: the statement w runs next
  call,      \* call[w]: its request
  uid,       \* uid[w]: the id of the row it has read
  row,       \* row[w]: the Go value `u` it is about to write
  reg,       \* reg[w]: the pending registration it has read
  (* outside *)
  mailed,    \* verification mails that were sent
  issued,    \* secrets that were shown to their users
  versions,  \* versions[u]: every row u has had (observer)
  now, requests, faults

dbVars     == <<account, pending>>
workerVars == <<pc, call, uid, row, reg>>
bounds     == <<requests, faults>>
vars == <<dbVars, workerVars, mailed, issued, versions, now, bounds>>

Exists(u) == account[u] # Nil

TypeOK ==
  /\ account \in [Users -> Row \cup {Nil}]
  /\ pending \in [Addresses -> PendingRow \cup {Nil}]
  /\ pc \in [Workers -> Steps]
  /\ call \in [Workers -> Call \cup {Nil}]
  /\ uid \in [Workers -> Users \cup {Nil}]
  /\ row \in [Workers -> Row \cup {Nil}]
  /\ reg \in [Workers -> PendingRow \cup {Nil}]
  /\ mailed \subseteq Mail
  /\ issued \subseteq Secrets
  /\ versions \in [Users -> SUBSET Row]
  /\ now \in 1..MaxDay
  /\ requests \in 0..MaxRequests
  /\ faults \in 0..MaxFaults

Init ==
  /\ account = [u \in Users |-> SeededRow(u)]
  /\ pending = [e \in Addresses |-> Nil]
  /\ pc = [w \in Workers |-> "idle"]
  /\ call = [w \in Workers |-> Nil]
  /\ uid = [w \in Workers |-> Nil]
  /\ row = [w \in Workers |-> Nil]
  /\ reg = [w \in Workers |-> Nil]
  /\ mailed = {} /\ issued = {}
  /\ versions = [u \in Users |-> {SeededRow(u)} \ {Nil}]
  /\ now = 1 /\ requests = 0 /\ faults = 0

-----------------------------------------------------------------------------
(* Requests arrive.                                                        *)

NoCall == [op |-> "create", user |-> Nil, email |-> Nil, role |-> Nil, subject |-> Nil,
           secret |-> Nil, token |-> Nil, edit |-> Nil]

Accept(w, c, step) ==
  /\ pc[w] = "idle" /\ c.op \in Ops
  /\ requests < MaxRequests /\ requests' = requests + 1
  /\ pc' = [pc EXCEPT ![w] = step]
  /\ call' = [call EXCEPT ![w] = c]
  /\ UNCHANGED <<dbVars, uid, reg, mailed, issued, versions, now, faults>>

AcceptCall(w, c, step) == Accept(w, c, step) /\ UNCHANGED row

HandleCreateUser(w) ==
  \E e \in Emails, r \in NewRoles :
    /\ Accept(w, [NoCall EXCEPT !.op = "create", !.email = e, !.role = r], "insert")
    /\ row' = [row EXCEPT ![w] = NewRow(e, r)]

HandleSetup(w) ==
  \E e \in Emails : AcceptCall(w, [NoCall EXCEPT !.op = "setup", !.email = e], "count")

\* Sign-up under a fresh token, from an address that may sign up.
HandleSignup(w) ==
  \E e \in Emails, k \in Tokens :
    /\ Lower[e] \in MaySignUp
    /\ \A f \in Addresses : pending[f] # Nil => k \notin {pending[f].id, pending[f].token}
    /\ \A v \in Workers : /\ call[v] # Nil => call[v].token # k
                          /\ reg[v] # Nil => k \notin {reg[v].id, reg[v].token}
    /\ \A m \in mailed : m.token # k
    /\ AcceptCall(w, [NoCall EXCEPT !.op = "register", !.email = e, !.token = k], "upsert")

HandleVerifyEmail(w) ==
  \E m \in mailed : AcceptCall(w, [NoCall EXCEPT !.op = "verify", !.token = m.token], "getPending")

HandleChangePassword(w) ==
  \E u \in {v \in Users : Exists(v)} :
    AcceptCall(w, [NoCall EXCEPT !.op = "setPassword", !.user = u], "get")

\* Enrolment generates a secret nobody has yet ...
HandleMFAEnrollStart(w) ==
  \E u \in {v \in Users : Exists(v)}, x \in Secrets \ issued :
    /\ \A v \in Workers : call[v] # Nil => call[v].secret # x
    /\ \A v \in Users : Exists(v) => account[v].secret # x
    /\ AcceptCall(w, [NoCall EXCEPT !.op = "enroll", !.user = u, !.secret = x], "get")

\* ... and is confirmed with a code of a secret that was shown.
HandleMFAEnrollConfirm(w) ==
  \E u \in {v \in Users : Exists(v)}, x \in issued :
    AcceptCall(w, [NoCall EXCEPT !.op = "confirm", !.user = u, !.secret = x], "get")

\* A log-in brings a subject, and the address that its provider has for it today.
HandleSAMLSession(w) ==
  \E s \in Subjects : \E e \in Asserts[s] :
    AcceptCall(w, [NoCall EXCEPT !.op = "saml", !.subject = s, !.email = e], "getSubject")

HandleOIDCCallback(w) ==
  \E s \in Subjects : \E e \in Asserts[s] :
    AcceptCall(w, [NoCall EXCEPT !.op = "oidc", !.subject = s, !.email = e], "getSubject")

\* PATCH of an account: up to three parts, in this order, those that were sent.
ProfilePart(d) == IF d.name \/ d.email # Nil \/ d.role # Nil THEN "get" ELSE "idle"
ResetPart(d)   == IF d.reset THEN "reset" ELSE ProfilePart(d)
FirstPart(d)   == IF d.toggle # Nil THEN "toggle" ELSE ResetPart(d)

HandleUpdateUser(w) ==
  \E u \in {v \in Users : Exists(v)}, d \in {x \in Edits : FirstPart(x) # "idle"} :
    AcceptCall(w, [NoCall EXCEPT !.op = "edit", !.user = u, !.edit = d], FirstPart(d))

HandleDeleteUser(w) ==
  \E u \in {v \in Users : Exists(v)} :
    AcceptCall(w, [NoCall EXCEPT !.op = "delete", !.user = u], "softDelete")

-----------------------------------------------------------------------------
(* How a request goes on.                                                  *)

Idle(w) ==
  /\ pc' = [pc EXCEPT ![w] = "idle"]
  /\ call' = [call EXCEPT ![w] = Nil]
  /\ uid' = [uid EXCEPT ![w] = Nil]
  /\ row' = [row EXCEPT ![w] = Nil]
  /\ reg' = [reg EXCEPT ![w] = Nil]

Proceed(w, step) ==
  IF step = "idle"
  THEN Idle(w)
  ELSE pc' = [pc EXCEPT ![w] = step] /\ UNCHANGED <<call, uid, row, reg>>

\* w goes on to insert r, a row without an id yet.
GoInsert(w, r) ==
  /\ pc' = [pc EXCEPT ![w] = "insert"]
  /\ row' = [row EXCEPT ![w] = r]
  /\ UNCHANGED <<call, uid>>

\* w has read row u and goes on to write r in its place.
GoUpdate(w, u, r) ==
  /\ pc' = [pc EXCEPT ![w] = "update"]
  /\ uid' = [uid EXCEPT ![w] = u]
  /\ row' = [row EXCEPT ![w] = r]
  /\ UNCHANGED <<call, reg>>

\* Mutant of InsertFails: Verify goes on after a failed creation.
InsertAlwaysGoesOn(w) == IF call[w].op = "verify" THEN Proceed(w, "deletePending") ELSE Idle(w)

\* Every operation returns the error of the creation.
InsertFails(w) == Idle(w)

\* A look-up by subject or address returned no row, or failed: the operations
\* make no difference.
Absent(w) ==
  LET s == call[w].subject
      e == call[w].email
  IN
  IF pc[w] = "getByEmail"
  THEN GoInsert(w, [NewRow(e, "staff") EXCEPT !.oidc = s]) /\ UNCHANGED reg
  ELSE IF call[w].op = "oidc"
       THEN Proceed(w, "getByEmail")
       ELSE IF Lower[e] \in MayFederate
            THEN GoInsert(w, [NewRow(e, "user") EXCEPT !.saml = s]) /\ UNCHANGED reg
            ELSE Idle(w)

-----------------------------------------------------------------------------
(* Statements on users.                                                    *)

\* Mutant of EmailTaken: users(email) is not UNIQUE.
EmailNeverTaken(u, e) == FALSE

\* users(email) is UNIQUE, rows marked as deleted included.
EmailTaken(u, e) == \E v \in Users \ {u} : Exists(v) /\ account[v].email = e

\* Mutant of CountUsers: only administrators are counted.
CountAdmins(w) ==
  /\ pc[w] = "count"
  /\ IF \E u \in Users : Exists(u) /\ ~account[u].deleted /\ account[u].role = "admin"
     THEN Idle(w)
     ELSE GoInsert(w, NewRow(call[w].email, "admin")) /\ UNCHANGED reg
  /\ UNCHANGED <<dbVars, mailed, issued, versions, now, bounds>>

\* HasUsers: SELECT COUNT(*) of the accounts neither deleted nor disabled.
CountUsers(w) ==
  /\ pc[w] = "count"
  /\ IF \E u \in Users : Exists(u) /\ ~account[u].deleted /\ ~account[u].disabled
     THEN Idle(w)
     ELSE GoInsert(w, NewRow(call[w].email, "admin")) /\ UNCHANGED reg
  /\ UNCHANGED <<dbVars, mailed, issued, versions, now, bounds>>

\* Row u becomes r.
Put(u, r) ==
  /\ account' = [account EXCEPT ![u] = r]
  /\ versions' = [versions EXCEPT ![u] = @ \cup {r}]

\* CreateUser: INSERT INTO users.
Insert(w) ==
  /\ pc[w] = "insert"
  /\ IF EmailTaken(Nil, row[w].email)
     THEN InsertFails(w) /\ UNCHANGED <<account, versions>>
     ELSE /\ \E u \in Users : ~Exists(u) /\ Put(u, row[w])
          /\ IF call[w].op = "verify" THEN Proceed(w, "deletePending") ELSE Idle(w)
  /\ UNCHANGED <<pending, mailed, issued, now, bounds>>

\* The row an operation makes of the one it has read.
Changed(c, r) ==
  CASE c.op = "setPassword"     -> r
    [] c.op = "enroll"          -> [r EXCEPT !.secret = c.secret]
    [] c.op = "confirm"         -> [r EXCEPT !.mfa = TRUE]
    [] c.op \in {"saml", "oidc"} -> LoggedIn(r, c.email)
    [] c.op = "edit"            -> Edited(r, c.edit)

\* GetUserByID (administrators: GetUserByIDAdmin, which finds deleted rows too).
\* A confirmation needs a code of the secret in the row.
Get(w) ==
  LET c == call[w]
      r == account[c.user]
  IN
  /\ pc[w] = "get"
  /\ IF \/ r.deleted /\ c.op # "edit"
        \/ c.op = "confirm" /\ (r.secret = Nil \/ r.secret # c.secret)
     THEN Idle(w)
     ELSE GoUpdate(w, c.user, Changed(c, r))
  /\ UNCHANGED <<dbVars, mailed, issued, versions, now, bounds>>

\* GetUserBySAMLSubject or GetUserByOIDCSubject, one row of those that match.
GetSubject(w) ==
  LET c == call[w]
      found == {u \in Users : /\ Exists(u) /\ ~account[u].deleted
                              /\ c.subject = IF c.op = "saml" THEN account[u].saml
                                                              ELSE account[u].oidc}
  IN
  /\ pc[w] = "getSubject"
  /\ \/ \E u \in found : GoUpdate(w, u, Changed(c, account[u]))
     \/ found = {} /\ Absent(w)
  /\ UNCHANGED <<dbVars, mailed, issued, versions, now, bounds>>

\* GetUserByEmail: the account is linked to the subject.
GetByEmail(w) ==
  LET s == call[w].subject
      found == {u \in Users : /\ Exists(u) /\ ~account[u].deleted
                              /\ account[u].email = Lower[call[w].email]}
  IN
  /\ pc[w] = "getByEmail"
  /\ \/ \E u \in found : GoUpdate(w, u, [account[u] EXCEPT !.oidc = s])
     \/ found = {} /\ Absent(w)
  /\ UNCHANGED <<dbVars, mailed, issued, versions, now, bounds>>

\* Mutant of Writable: WHERE id = $1 only.
AlwaysWritable(u) == TRUE

\* UpdateUser: WHERE id = $1 AND deleted_at IS NULL.
Writable(u) == ~account[u].deleted

\* UpdateUser; no row to write is no error.
Update(w) ==
  LET u == uid[w]
      r == row[w]
      refused == Writable(u) /\ EmailTaken(u, r.email)
  IN
  /\ pc[w] = "update"
  /\ IF Writable(u) /\ ~refused
     THEN Put(u, Stored(account[u], r))
     ELSE UNCHANGED <<account, versions>>
  /\ issued' = IF call[w].op = "enroll" /\ ~refused THEN issued \cup {call[w].secret} ELSE issued
  /\ Idle(w)
  /\ UNCHANGED <<pending, mailed, now, bounds>>

\* DisableUser, EnableUser.
Toggle(w) ==
  LET c == call[w] IN
  /\ pc[w] = "toggle"
  /\ Put(c.user, [account[c.user] EXCEPT !.disabled = (c.edit.toggle = "disable")])
  /\ Proceed(w, ResetPart(c.edit))
  /\ UNCHANGED <<pending, mailed, issued, now, bounds>>

\* ClearMFA.
ResetMFA(w) ==
  LET c == call[w] IN
  /\ pc[w] = "reset"
  /\ Put(c.user, Cleared(account[c.user]))
  /\ Proceed(w, ProfilePart(c.edit))
  /\ UNCHANGED <<pending, mailed, issued, now, bounds>>

\* SoftDeleteUser.
SoftDelete(w) ==
  LET u == call[w].user IN
  /\ pc[w] = "softDelete"
  /\ Put(u, [account[u] EXCEPT !.deleted = TRUE])
  /\ Idle(w)
  /\ UNCHANGED <<pending, mailed, issued, now, bounds>>

-----------------------------------------------------------------------------
(* Statements on pending_registrations.                                    *)

\* Register: INSERT ... ON CONFLICT (lower(email)) DO UPDATE, the id stays.
Upsert(w) ==
  LET c == call[w] IN
  /\ pc[w] = "upsert"
  /\ pending' = [pending EXCEPT
                   ![Lower[c.email]] = [id |-> IF @ = Nil THEN c.token ELSE @.id,
                                        token |-> c.token, expires |-> now + TTL]]
  /\ Proceed(w, "mail")
  /\ UNCHANGED <<account, mailed, issued, versions, now, bounds>>

SendVerificationEmail(w) ==
  /\ pc[w] = "mail"
  /\ mailed' = mailed \cup {[to |-> Lower[call[w].email], token |-> call[w].token]}
  /\ Idle(w)
  /\ UNCHANGED <<dbVars, issued, versions, now, bounds>>

\* Verify: the registration of this token, unless it has expired.
GetPending(w) ==
  LET found == {e \in Addresses : /\ pending[e] # Nil /\ pending[e].token = call[w].token
                                  /\ now <= pending[e].expires}
  IN
  /\ pc[w] = "getPending"
  /\ \/ \E e \in found : /\ GoInsert(w, NewRow(e, "user"))
                         /\ reg' = [reg EXCEPT ![w] = pending[e]]
     \/ found = {} /\ Idle(w)
  /\ UNCHANGED <<dbVars, mailed, issued, versions, now, bounds>>

\* DeletePendingRegistration by id, errors dropped.
DeletePending(w) ==
  /\ pc[w] = "deletePending"
  /\ pending' = [e \in Addresses |->
                   IF pending[e] # Nil /\ pending[e].id = reg[w].id THEN Nil ELSE pending[e]]
  /\ Idle(w)
  /\ UNCHANGED <<account, mailed, issued, versions, now, bounds>>

-----------------------------------------------------------------------------
(* Failures and the passing of time.                                       *)

\* A statement has no effect and returns an error, or the mail is not sent.
StatementFails(w) ==
  /\ pc[w] # "idle"
  /\ faults < MaxFaults /\ faults' = faults + 1
  /\ CASE pc[w] \in {"getSubject", "getByEmail"} -> Absent(w)
       [] pc[w] = "insert"                       -> InsertFails(w)
       [] OTHER                                  -> Idle(w)
  /\ UNCHANGED <<dbVars, mailed, issued, versions, now, requests>>

Tick ==
  /\ now < MaxDay /\ now' = now + 1
  /\ UNCHANGED <<dbVars, workerVars, mailed, issued, versions, bounds>>

\* The bounds are used up and nothing is in progress.
Exhausted ==
  /\ requests = MaxRequests /\ now = MaxDay
  /\ \A w \in Workers : pc[w] = "idle"
  /\ UNCHANGED vars

Handle(w) ==
  \/ HandleCreateUser(w) \/ HandleSetup(w) \/ HandleSignup(w) \/ HandleVerifyEmail(w)
  \/ HandleChangePassword(w) \/ HandleMFAEnrollStart(w) \/ HandleMFAEnrollConfirm(w)
  \/ HandleSAMLSession(w) \/ HandleOIDCCallback(w)
  \/ HandleUpdateUser(w) \/ HandleDeleteUser(w)

Step(w) ==
  \/ CountUsers(w) \/ Insert(w) \/ Get(w) \/ GetSubject(w) \/ GetByEmail(w) \/ Update(w)
  \/ Toggle(w) \/ ResetMFA(w) \/ SoftDelete(w)
  \/ Upsert(w) \/ SendVerificationEmail(w) \/ GetPending(w) \/ DeletePending(w)

Next ==
  \/ \E w \in Workers : Handle(w) \/ Step(w) \/ StatementFails(w)
  \/ Tick \/ Exhausted

Spec == Init /\ [][Next]_vars

-----------------------------------------------------------------------------
(* Properties, whatever overlaps or fails.                                 *)

\* An account whose second factor is in force has a secret to check codes against,
\* although enrolment, confirmation and reset write the two columns from snapshots
\* and in place.
MFAHasSecret == \A u \in Users : Exists(u) /\ account[u].mfa => account[u].secret # Nil

\* However an address is spelled, and by whichever of the four routes accounts come
\* into being at the same time, it belongs to one account.  (While administrators
\* spell the addresses they edit in lower case: Update does not convert them.)
OneAccountPerAddress ==
  \A u, v \in Users :
    u # v /\ Exists(u) /\ Exists(v) => Lower[account[u].email] # Lower[account[v].email]

\* The addresses, as they are stored, that are asserted with s; those that do not change:
\* whoever asserts one asserts only this one.
Asserted(s) == {Lower[e] : e \in Asserts[s]}
Lasting(a) == \A s \in Subjects : a \in Asserted(s) => Asserted(s) = {a}

\* A subject whose address lasts leads to one account, although subjects are not UNIQUE and
\* a look-up that fails is taken for one that finds nothing.  (While administrators edit no
\* address.  A subject whose address changed gets a second account when the look-up fails.)
OneAccountPerSubject ==
  \A u, v \in Users, s \in Subjects :
    u # v /\ Exists(u) /\ Exists(v) /\ (\E a \in Asserted(s) : Lasting(a)) =>
      /\ s = account[u].saml => s # account[v].saml
      /\ s = account[u].oidc => s # account[v].oidc

\* A write from a snapshot never enables a disabled account: only an administrator's
\* request to enable it does.
DisabledStays ==
  [][\A u \in Users :
       (Exists(u) /\ account[u].disabled /\ ~account'[u].disabled)
         => \E w \in Workers : /\ pc[w] = "toggle" /\ call[w].user = u
                               /\ call[w].edit.toggle = "enable"]_vars

\* A deleted account stays deleted and keeps the address, role and subjects that its
\* tickets are attributed by, whatever was about to be written to it.
DeletedStays ==
  [][\A u \in Users :
       (Exists(u) /\ account[u].deleted) =>
         LET old == account[u]
             new == account'[u]
         IN  /\ new.deleted
             /\ <<new.email, new.role, new.saml, new.oidc>>
                  = <<old.email, old.role, old.saml, old.oidc>>]_vars

\* The addresses that have been those of accounts.
everHeld == {v.email : v \in UNION {versions[u] : u \in Users}}

\* A sign-up is not lost: its row disappears only when its address has had an account.
SignupNotLost ==
  [][\A e \in Addresses : pending[e] # Nil /\ pending'[e] = Nil => e \in everHeld']_vars

\* domain/user/service.go:117: "ConfirmMFAEnrollment enables MFA for the user after
\* they verify a TOTP code"; docs/DESIGN.md:89: after a reset "the user re-enrolls on
\* next login".  Nothing but a confirmation puts the second factor in force.
OnlyConfirmEnables ==
  [][\A u \in Users :
       (Exists(u) /\ ~account[u].mfa /\ account'[u].mfa)
         => \E w \in Workers : pc[w] = "update" /\ uid[w] = u /\ call[w].op = "confirm"]_vars
=============================================================================
