--------------------------- MODULE MCDocumentQueries ---------------------------
(* Two documents, one after the other in two rebuilds, or both: they move,  *)
(* gain and lose tags and relations, disappear, and leave an issue at their *)
(* path or none, while one reader asks for some tags.                       *)
EXTENDS DocumentQueries

CONSTANTS t1, t2, x

MCIds     == {1, 2}
MCPaths   == {1, 2}
MCTags    == {t1, t2}
MCTargets == {x}

Hanging == {[tags |-> {}, refs |-> {x}], [tags |-> {t1}, refs |-> {}],
            [tags |-> {t1, t2}, refs |-> {x}]}

Rows(ids, path, with) ==
  {[id |-> i, path |-> path[i], tags |-> with[i].tags, refs |-> with[i].refs] : i \in ids}

Candidates ==
  {[docs |-> Rows(ids, path, with), issues |-> {[path |-> p] : p \in issues}] :
     ids \in SUBSET MCIds, path \in [MCIds -> MCPaths], with \in [MCIds -> Hanging],
     issues \in SUBSET MCPaths}

MCBatches == {b \in Candidates : Register!WellFormed(b)}
================================================================================
