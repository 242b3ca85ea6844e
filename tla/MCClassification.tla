--------------------------- MODULE MCClassification ---------------------------
(* Instances of Classification for TLC. *)
EXTENDS Classification, TLC

CONSTANTS t1, g1, k1, c1, c2, y1, y2, i1   \* two categories, two types, an item

MCLevel == [n \in Nodes |-> CASE n \in {c1, c2} -> "category" [] n = i1 -> "item" [] OTHER -> "type"]

\* A type and its item in the first category; the other type is yet to come.
MCSeededNodes ==
  [n \in Nodes |-> CASE n \in {c1, c2} -> [parent |-> Nil, active |-> TRUE]
                     [] n = y1 -> [parent |-> c1, active |-> TRUE]
                     [] n = i1 -> [parent |-> y1, active |-> TRUE]
                     [] OTHER  -> Nil]
\* A ticket, a scope and a canned response of the first type.
MCSeededFiled ==
  [t \in Tickets |-> IF t = t1 THEN [category |-> c1, type |-> y1, item |-> i1, group |-> Nil] ELSE Nil]
MCSeededScope == {<<g1, c1, y1>>}
MCSeededCanned == [k \in Canned |-> [category |-> c1, type |-> y1]]
CTISymmetry == Permutations(Workers)
=============================================================================
