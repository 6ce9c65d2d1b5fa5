---------------------------- MODULE DocumentQueries ----------------------------
(***************************************************************************)
(* DocumentsByTag (store/documentindex.go) while the index is rebuilt: the *)
(* one reader of the document tables that takes more than one statement.   *)
(* It selects the rows that carry a tag, and then, outside any transaction,*)
(* loads the tags and the relations of each in statements of their own, so *)
(* that a rebuild may commit between any two of them.                      *)
(***************************************************************************)
EXTENDS IndexTables

CONSTANT Readers  \* concurrent callers of DocumentsByTag

VARIABLES
  pc,           \* the next statement of each reader
  asked,        \* the tags it asks for
  hits,         \* the documents it has, hydrated as far as it got
  todo,         \* the ids it has still to hydrate
  quiet         \* history: nothing was committed since its first statement

readerVars == <<pc, asked, hits, todo>>
vars       == <<tableVars, readerVars, quiet>>

QueriesTypeOK ==
  /\ TypeOK
  /\ pc    \in [Readers -> {"idle", "tags", "relations"}]
  /\ asked \in [Readers -> SUBSET Tags]
  /\ hits  \in [Readers -> SUBSET Row]
  /\ todo  \in [Readers -> SUBSET Ids]
  /\ quiet \in [Readers -> BOOLEAN]

Init ==
  /\ InitTables
  /\ pc    = [r \in Readers |-> "idle"]
  /\ asked = [r \in Readers |-> {}]
  /\ hits  = [r \in Readers |-> {}]
  /\ todo  = [r \in Readers |-> {}]
  /\ quiet = [r \in Readers |-> FALSE]

--------------------------------------------------------------------------------

(* A Reindex writes, while the readers read what is committed.             *)
Reindex ==
  /\ (\E b \in Batches : Begin(b)) \/ Execute \/ Commit \/ Fail
  /\ quiet' = [r \in Readers |-> quiet[r] /\ db' = db]
  /\ UNCHANGED readerVars

(* A query that wants every tag it was asked for.                          *)
MatchesAll(doc, tags) == tags \subseteq doc.tags

(* where t.tag in (...), with distinct *)
Matches(doc, tags) == doc.tags \cap tags # {}

(* The first statement; a call without tags returns at once. *)
SelectRows(r, tags) ==
  LET rows == {d \in Indexed.docs : Matches(d, tags)} IN
  /\ pc[r] = "idle"
  /\ tags # {}
  /\ pc'    = [pc    EXCEPT ![r] = IF rows = {} THEN "idle" ELSE "tags"]
  /\ asked' = [asked EXCEPT ![r] = tags]
  /\ hits'  = [hits  EXCEPT ![r] =
       {[id |-> d.id, path |-> d.path, tags |-> {}, refs |-> {}] : d \in rows}]
  /\ todo'  = [todo  EXCEPT ![r] = {d.id : d \in rows}]
  /\ quiet' = [quiet EXCEPT ![r] = TRUE]
  /\ UNCHANGED tableVars

(* What the tables hold for an id now: nothing, when it is indexed no more.*)
TagsOf(id) == {t \in Tags : <<id, t>> \in db.tag}
RefsOf(id) == {t \in Targets : <<id, t>> \in db.relation}

Least(S) == CHOOSE id \in S : \A other \in S : id <= other

(* loadTags *)
LoadTags(r) ==
  LET id == Least(todo[r]) IN
  /\ pc[r] = "tags"
  /\ pc'   = [pc   EXCEPT ![r] = "relations"]
  /\ hits' = [hits EXCEPT ![r] =
       {IF h.id = id THEN [h EXCEPT !.tags = TagsOf(id)] ELSE h : h \in hits[r]}]
  /\ UNCHANGED <<tableVars, asked, todo, quiet>>

(* loadRelations, and the answer after the last document *)
LoadRelations(r) ==
  LET id == Least(todo[r]) IN
  /\ pc[r] = "relations"
  /\ hits' = [hits EXCEPT ![r] =
       {IF h.id = id THEN [h EXCEPT !.refs = RefsOf(id)] ELSE h : h \in hits[r]}]
  /\ todo' = [todo EXCEPT ![r] = @ \ {id}]
  /\ pc'   = [pc   EXCEPT ![r] = IF todo[r] = {id} THEN "idle" ELSE "tags"]
  /\ UNCHANGED <<tableVars, asked, quiet>>

Next ==
  \/ Reindex
  \/ \E r \in Readers :
       \/ \E tags \in SUBSET Tags : SelectRows(r, tags)
       \/ LoadTags(r)
       \/ LoadRelations(r)

Spec == Init /\ [][Next]_vars

--------------------------------------------------------------------------------
(* Properties *)

(* While nothing is committed, the statements together answer with exactly *)
(* the rows that carry one of the tags, each with all that hangs off it.   *)
ExactWhenQuiet ==
  \A r \in Readers : pc[r] = "idle" /\ quiet[r] =>
    hits[r] = {d \in Indexed.docs : \E t \in asked[r] : t \in d.tags}

================================================================================
