--------------------------- MODULE MCUserAccounts ---------------------------
(* Instances of UserAccounts for TLC. *)
EXTENDS AccountServiceVersions, TLC

CONSTANTS
  u1, u2, u3,   \* accounts
  ann, Ann, bob, cy,  \* addresses: ann and Ann differ in case only
  s1, s2        \* subjects

MCLower == [e \in Emails |-> IF e = Ann THEN ann ELSE e]

\* The providers assert one address in two spellings with one subject, and two addresses with
\* the other.
MCAsserts == [s \in Subjects |-> IF s = s1 THEN {ann, Ann} ELSE {bob, cy}]

\* One account is there, with another address ...
MCSeeded == [u \in Users |-> IF u = u1 THEN bob ELSE Nil]

\* Requests of administrators: one part of PATCH, and all parts together.
Sent(toggle, reset, role) ==
  [toggle |-> toggle, reset |-> reset, name |-> FALSE, email |-> Nil, role |-> role]
MCEdits ==
  {Sent("enable", FALSE, Nil), Sent("disable", TRUE, "user")}

\* ... or the reset of the second factor alone.
MCReset == {Sent(Nil, TRUE, Nil)}

Symmetry == Permutations(Workers) \cup Permutations(Tokens) \cup Permutations(Secrets)
            \cup Permutations(Users \ {u1})
=============================================================================
