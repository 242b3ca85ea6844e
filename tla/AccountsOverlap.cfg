\* Two requests overlap on the accounts, a statement fails.
SPECIFICATION Spec
CONSTANTS
  u1 = u1
  u2 = u2
  u3 = u3
  ann = ann
  Ann = Ann
  bob = bob
  cy = cy
  s1 = s1
  s2 = s2
  Nil = Nil
  Users = {u1, u2, u3}
  Emails = {ann, Ann, bob, cy}
  Lower <- MCLower
  Subjects = {s1, s2}
  Asserts <- MCAsserts
  Secrets = {x1, x2}
  Tokens = {k1, k2}
  Seeded <- MCSeeded
  MaySignUp = {ann}
  MayFederate = {ann, cy}
  Edits <- MCEdits
  TTL = 0
  Workers = {w1, w2}
  Ops = {"create", "setup", "register", "verify", "setPassword", "enroll", "confirm", "saml", "oidc", "edit", "delete"}
  NewRoles = {"staff"}
  MaxRequests = 4
  MaxFaults = 1
  MaxDay = 2
SYMMETRY Symmetry
INVARIANTS TypeOK MFAHasSecret OneAccountPerAddress OneAccountPerSubject
PROPERTIES DisabledStays DeletedStays SignupNotLost ImplementsVersions
