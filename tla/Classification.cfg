SPECIFICATION CTISpec
CONSTANTS
  Nil = Nil
  t1 = t1
  g1 = g1
  k1 = k1
  c1 = c1
  c2 = c2
  y1 = y1
  y2 = y2
  i1 = i1
  Nodes = {c1, c2, y1, y2, i1}
  Level <- MCLevel
  SeededNodes <- MCSeededNodes
  Tickets = {t1, t2}
  Workers = {w1, w2}
  Groups = {g1}
  Canned = {k1}
  SeededFiled <- MCSeededFiled
  SeededScope <- MCSeededScope
  SeededCanned <- MCSeededCanned
  MaxCTIRequests = 3
  MaxCTIFaults = 1
SYMMETRY CTISymmetry
INVARIANTS CTITypeOK TreeClosed ItemOfType OfferedFits
PROPERTIES RoutedInScope
