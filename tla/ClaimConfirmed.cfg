\* A whole-row write overlaps the reset of a second factor.
SPECIFICATION Spec
CONSTANTS
  u1 = u1
  u2 = u2
  u3 = u3
  ann = ann
  Ann = Ann
  bob = bob
  cy = cy
  s1 = s1
  s2 = s2
  Nil = Nil
  Users = {u1, u2, u3}
  Emails = {ann, Ann, bob, cy}
  Lower <- MCLower
  Subjects = {s1, s2}
  Asserts <- MCAsserts
  Secrets = {x1, x2}
  Tokens = {k1, k2}
  Seeded <- MCSeeded
  MaySignUp = {ann}
  MayFederate = {ann, bob}
  Edits <- MCReset
  TTL = 1
  Workers = {w1, w2}
  Ops = {"setPassword", "enroll", "confirm", "edit"}
  NewRoles = {"staff"}
  MaxRequests = 4
  MaxFaults = 0
  MaxDay = 1
PROPERTIES OnlyConfirmEnables
