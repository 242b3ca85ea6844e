----------------------- MODULE AccountServiceVersions -----------------------
(***************************************************************************)
(* UserAccounts implements AccountVersions, with requests that overlap and *)
(* statements that fail.                                                   *)
(***************************************************************************)
EXTENDS UserAccounts

\* The addresses that were sent a verification mail.
Reached == {m.to : m \in mailed}

\* Setup has counted no active account and is about to create one.
Opening(w) == pc[w] = "insert" /\ call[w].op = "setup"
Open == \E w \in Workers : Opening(w)

Versions == INSTANCE AccountVersions WITH reached <- Reached, open <- Open

\* However requests overlap and fail, every row is one permitted operation away from a row
\* its account has had, disabled and deleted are never of the past, and no two accounts
\* have the same address.
ImplementsVersions == Versions!Spec
=============================================================================
