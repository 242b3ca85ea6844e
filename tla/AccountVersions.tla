-------------------------- MODULE AccountVersions ---------------------------
(***************************************************************************)
(* What the accounts promise however requests overlap and statements fail. *)
(* An operation on an account writes the row it makes of any version the   *)
(* account has had, so that what came after that version may be lost.  But *)
(* whether the account is disabled or deleted is always of the present, an *)
(* address is of one account, and every other column comes from one        *)
(* version by one operation whose conditions that version met.             *)
(***************************************************************************)
EXTENDS AccountRules

VARIABLES
  account,   \* account[u]: the row of u, Nil before it is created
  versions,  \* versions[u]: every row u has had
  issued,    \* secrets that were shown to somebody
  reached,   \* addresses that were sent a verification mail
  open       \* setup has been granted

vars == <<account, versions, issued, reached, open>>

Init ==
  /\ account = [u \in Users |-> SeededRow(u)]
  /\ versions = [u \in Users |-> {SeededRow(u)} \ {Nil}]
  /\ issued = {} /\ reached = {} /\ open = FALSE

Exists(u) == account[u] # Nil

\* u gets row r, whose address no other account has.
Put(u, r) ==
  /\ \A v \in Users \ {u} : Exists(v) => account[v].email # r.email
  /\ account' = [account EXCEPT ![u] = r]
  /\ versions' = [versions EXCEPT ![u] = @ \cup {r}]

(* Accounts come into being.                                               *)

Make(u, r) == ~Exists(u) /\ Put(u, r) /\ UNCHANGED <<issued, reached>>

Create(u, e, role) == Make(u, NewRow(e, role)) /\ UNCHANGED open

\* The first administrator, when there was a moment without an active account.
OpenSetup ==
  /\ \A u \in Users : Exists(u) => account[u].deleted \/ account[u].disabled
  /\ open' = TRUE
  /\ UNCHANGED <<account, versions, issued, reached>>

Setup(u, e) == open /\ Make(u, NewRow(e, "admin")) /\ open' \in BOOLEAN

\* Whoever signs up reads the mail of his address.
SendMail(e) ==
  /\ e \in MaySignUp
  /\ reached' = reached \cup {e}
  /\ UNCHANGED <<account, versions, issued, open>>

SignUp(u, e) == e \in reached /\ Make(u, NewRow(e, "user")) /\ UNCHANGED open

\* So do those who log in with a subject and one of the addresses asserted with it.
FederateSAML(u, s, e) ==
  /\ Lower[e] \in MayFederate
  /\ Make(u, [NewRow(e, "user") EXCEPT !.saml = s])
  /\ UNCHANGED open

FederateOIDC(u, s, e) == Make(u, [NewRow(e, "staff") EXCEPT !.oidc = s]) /\ UNCHANGED open

(* Operations on version v of an account.                                  *)

Rewrite(u, r) ==
  /\ Exists(u) /\ ~account[u].deleted
  /\ Put(u, Stored(account[u], r))
  /\ UNCHANGED <<reached, open>>

SetPassword(u, v) == Rewrite(u, v) /\ UNCHANGED issued

\* A new secret, not in force unless the factor was.
Enroll(u, v, x) ==
  /\ x \notin issued
  /\ Rewrite(u, [v EXCEPT !.secret = x])
  /\ issued' = issued \cup {x}

\* The factor is put in force by a code of the secret in v.
Confirm(u, v) ==
  /\ v.secret \in issued
  /\ Rewrite(u, [v EXCEPT !.mfa = TRUE]) /\ UNCHANGED issued

LogIn(u, v, s, e) ==
  /\ s \in {v.saml, v.oidc}
  /\ Rewrite(u, LoggedIn(v, e)) /\ UNCHANGED issued

\* A subject is linked to the account that has had its address.
Link(u, v, s, e) ==
  /\ v.email = Lower[e]
  /\ Rewrite(u, [v EXCEPT !.oidc = s]) /\ UNCHANGED issued

EditUser(u, v, d) == Rewrite(u, Edited(v, d)) /\ UNCHANGED issued

(* Operations on the row as it is.                                         *)

InPlace(u, r) == Exists(u) /\ Put(u, r) /\ UNCHANGED <<issued, reached, open>>

Toggle(u, b)  == InPlace(u, [account[u] EXCEPT !.disabled = b])
ResetMFA(u)   == InPlace(u, Cleared(account[u]))
SoftDelete(u) == InPlace(u, [account[u] EXCEPT !.deleted = TRUE])

\* A secret is shown although the account was deleted meanwhile.
Show(x) == issued' = issued \cup {x} /\ UNCHANGED <<account, versions, reached, open>>

\* A granted setup comes to nothing.
CloseSetup == open' = FALSE /\ UNCHANGED <<account, versions, issued, reached>>

Next ==
  \/ \E u \in Users :
       \/ \E e \in Emails : Setup(u, e) \/ \E role \in Roles : Create(u, e, role)
       \/ \E e \in Addresses : SignUp(u, e)
       \/ \E s \in Subjects : \E e \in Asserts[s] : FederateSAML(u, s, e) \/ FederateOIDC(u, s, e)
       \/ \E v \in versions[u] :
            \/ SetPassword(u, v) \/ Confirm(u, v)
            \/ \E x \in Secrets : Enroll(u, v, x)
            \/ \E s \in Subjects : \E e \in Asserts[s] : LogIn(u, v, s, e) \/ Link(u, v, s, e)
            \/ \E d \in Edits : EditUser(u, v, d)
       \/ ResetMFA(u) \/ SoftDelete(u) \/ \E b \in BOOLEAN : Toggle(u, b)
  \/ \E e \in Addresses : SendMail(e)
  \/ \E x \in Secrets : Show(x)
  \/ OpenSetup \/ CloseSetup

Spec == Init /\ [][Next]_vars

-----------------------------------------------------------------------------
(* What the promises add up to.                                            *)

\* A subject of an identity provider is linked only to an account that has had an address
\* asserted with it: no stale write brings a link to another one.
LinksAreAsserted ==
  \A u \in Users : \A v \in versions[u] :
    \A s \in {v.saml, v.oidc} \ {Nil} : \E y \in versions[u] : \E e \in Asserts[s] : y.email = Lower[e]

\* A secret is of one account, also when a reset is undone by a stale write, and the
\* factor it belongs to is in force only after a code of a secret that had been shown.
FactorsAreOwn ==
  \A u \in Users : \A v \in versions[u] :
    /\ v.secret # Nil => \A t \in Users \ {u} : \A y \in versions[t] : y.secret # v.secret
    /\ v.mfa => \E y \in versions[u] : y.mfa /\ y.secret \in issued
=============================================================================
