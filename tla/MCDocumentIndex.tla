---------------------------- MODULE MCDocumentIndex ----------------------------
(* Three paths, the first two equal but for case, or two unrelated ones;   *)
(* two document ids and a task.  A document has at most one relation: to   *)
(* itself, to the other document or to the task.                           *)
EXTENDS DocumentIndex, FiniteSets

CONSTANTS x, y, t

TwinLower == [p \in 1 .. 3 |-> IF p = 2 THEN 1 ELSE p]
OwnLower  == [p \in 1 .. 3 |-> p]

AtMostOneRelation ==
  {d \in [id : {x, y}, refs : SUBSET {x, y, t}] : Cardinality(d.refs) <= 1}

LinkedPair == {[id |-> x, refs |-> {t}], [id |-> y, refs |-> {x}]}
================================================================================
