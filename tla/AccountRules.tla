---------------------------- MODULE AccountRules ----------------------------
(***************************************************************************)
(* The data of the accounts: addresses and their spellings, subjects of    *)
(* identity providers, the rows of table `users`, and what the statements  *)
(* that write them do to a row.                                            *)
(***************************************************************************)
EXTENDS Naturals

CONSTANTS
  Users,        \* ids of rows of table users, present and future
  Emails,       \* e-mail addresses as people spell them
  Lower,        \* Lower[e]: e trimmed and in lower case
  Subjects,     \* subjects the identity providers assert
  Asserts,      \* Asserts[s]: the addresses that log-ins with s assert, one each
  Secrets,      \* TOTP secrets
  Nil,          \* SQL NULL, the empty string, a nil pointer
  Seeded,       \* Seeded[u]: the address of an account administrators had created before
  MaySignUp,    \* addresses that may register by themselves
  MayFederate,  \* addresses for which a SAML login may create an account
  Edits         \* what administrators send to PATCH /admin/users/{id}

Roles == {"user", "staff", "admin"}
Addresses == {Lower[e] : e \in Emails}

Edit ==
  [toggle : {"disable", "enable", Nil},
   reset  : BOOLEAN,
   name   : BOOLEAN,
   email  : Emails \cup {Nil},
   role   : Roles \cup {Nil}]

ASSUME LowerAssumption ==
  /\ Lower \in [Emails -> Emails]
  /\ \A e \in Emails : Lower[Lower[e]] = Lower[e]
ASSUME AddressAssumption ==
  /\ Asserts \in [Subjects -> SUBSET Emails]
  /\ MaySignUp \subseteq Emails /\ MayFederate \subseteq Emails
  /\ Edits \subseteq Edit
ASSUME SeededAssumption ==
  /\ Seeded \in [Users -> Addresses \cup {Nil}]
  /\ \A u, v \in Users : u # v /\ Seeded[u] # Nil => Seeded[u] # Seeded[v]

\* A row of users.
Row ==
  [email    : Emails,
   role     : Roles,
   secret   : Secrets \cup {Nil},
   mfa      : BOOLEAN,
   saml     : Subjects \cup {Nil},
   oidc     : Subjects \cup {Nil},
   disabled : BOOLEAN,
   deleted  : BOOLEAN]

ASSUME RowAssumption == Nil \notin Users \cup Emails \cup Roles \cup Subjects \cup Secrets \cup Row

\* Mutant of NewRow: the address is stored as it was typed.
NewRowAsTyped(e, role) ==
  [email |-> e, role |-> role, secret |-> Nil, mfa |-> FALSE,
   saml |-> Nil, oidc |-> Nil, disabled |-> FALSE, deleted |-> FALSE]

\* A new account: no second factor, no subject, the address in lower case.
NewRow(e, role) ==
  [email |-> Lower[e], role |-> role, secret |-> Nil, mfa |-> FALSE,
   saml |-> Nil, oidc |-> Nil, disabled |-> FALSE, deleted |-> FALSE]

\* The accounts there were before.
SeededRow(u) == IF Seeded[u] = Nil THEN Nil ELSE NewRow(Seeded[u], "staff")

\* A log-in writes the address that it asserts.
LoggedIn(r, e) == [r EXCEPT !.email = Lower[e]]

\* Mutant of Edited: PATCH writes the address although none was sent.
EditedUnsent(r, d) ==
  [r EXCEPT !.email = d.email, !.role = IF d.role = Nil THEN @ ELSE d.role]

\* PATCH writes what was sent.
Edited(r, d) ==
  [r EXCEPT !.email = IF d.email = Nil THEN @ ELSE d.email,
            !.role = IF d.role = Nil THEN @ ELSE d.role]

\* Mutant of Stored: disabled is written with the other columns.
StoredWhole(old, r) == [r EXCEPT !.deleted = old.deleted]

\* The columns UpdateUser does not write keep what the row holds by now.
Stored(old, r) == [r EXCEPT !.disabled = old.disabled, !.deleted = old.deleted]

\* Mutant of Cleared: the secret goes, the flag stays.
ClearedSecret(r) == [r EXCEPT !.secret = Nil]

\* ClearMFA: both columns in one statement.
Cleared(r) == [r EXCEPT !.secret = Nil, !.mfa = FALSE]
=============================================================================
