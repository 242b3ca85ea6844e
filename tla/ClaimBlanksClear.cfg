SPECIFICATION PartSpec
CONSTANTS
  Nil = Nil
  Tickets = {t1, t2}
  Workers = {w1, w2}
  SLATickets = {t1}
  p1 = p1
  p2 = p2
  p3 = p3
  hw = hw
  sw = sw
  Policies = {p1, p2, p3}
  Categories = {hw, sw}
  Priorities = {"high", "urgent"}
  Known = {"high"}
  Targets = {1, 2, 9}
  SeededPolicies <- MCSeededPolicies
  Drafts <- MCDrafts
  Patches <- MCPatches
  Half32 = 8
  Half64 = 16
  Minute = 4
  MaxSLARequests = 0
  MaxSLAFaults = 0
  MaxMinute = 0
  FiledTickets = {t1}
  TagIds = {tag1, tag2, tag3}
  Spellings = {"net", "Net ", "network", " "}
  TagName <- MCTagName
  MaxTagRequests = 0
  MaxTagFaults = 1
  f1 = f1
  f2 = f2
  f3 = f3
  a1 = a1
  hwForm = hwForm
  lapForm = lapForm
  FieldTickets = {t1}
  Fields = {f1, f2, f3}
  Assigns = {a1, a2}
  Scopes = {hwForm, lapForm}
  Values = {"a", "b"}
  Empty = ""
  Bodies <- MCBodies
  Forms <- MCForms
  FieldDrafts <- MCFieldDrafts
  FieldPatches <- MCFieldPatches
  AssignDrafts <- MCAssignDrafts
  AssignPatches <- MCAssignPatches
  SeededFields <- MCSeededFields
  SeededAssigns <- MCSeededAssigns
  SeededValues <- MCSeededValues
  MaxFieldRequests = 0
  t1 = t1
  t2 = t2
  t3 = t3
  rita = rita
  sam = sam
  ada = ada
  jam = jam
  g1 = g1
  opening = opening
  ListTickets = {t1, t2, t3}
  Users = {rita, sam, ada}
  Groups = {g1}
  Shelves = {opening, done}
  Terms = {jam}
  RoleOf <- MCRoles
  ByNumber <- MCByNumber
  ByWords <- MCByWords
  Wordless = {}
  Relevance <- MCRelevance
  SeededDesk <- MCSeededDesk
  SeededMembers <- MCMembers
  Limit = 2
  MaxLists = 0
  MaxMoves = 0
  Configs = {"a", "b"}
  Blank = ""
  Sent <- MCSent
  RawSettings <- MCRaw
  MaxIdPRequests = 2
  MaxIdPFaults = 0
  MaxIdPRestarts = 0
  pdf = pdf
  pic = pic
  bad = bad
  eps = eps
  svg = svg
  Files = {pdf, pic, bad, eps, svg}
  Mistyped = {eps, svg}
  Images = {pic, bad}
  Broken = {bad}
  Infected = {pdf}
  FormatOf <- MCFormat
  Attachments = {u1, u2, u3}
  MaxUploads = 0
  MaxUploadFaults = 1
  MaxStops = 0
INVARIANT BlanksClear
