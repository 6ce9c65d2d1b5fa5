----------------------------- MODULE IndexTables ------------------------------
(***************************************************************************)
(* How a Reindex replaces the tables of the document index: write, in      *)
(* store/documentindex.go, statement by statement over the tables of       *)
(* localdb.sql, with their keys, the cascade from document to its tags and *)
(* relations, and the trigger that deletes from the search table.  The     *)
(* transaction takes the write lock as it begins, so that there is one at  *)
(* a time; any statement may fail and the process may be killed, and the   *)
(* transaction is rolled back.  Readers see the committed tables only.     *)
(***************************************************************************)
EXTENDS Naturals, Sequences, FiniteSets

CONSTANTS
  Ids,          \* document ids
  Paths,        \* paths under docs/, each by its rank in their order
  Tags,         \* tags of documents
  Targets,      \* what a relation may point at
  Batches,      \* the indexes that the runs of Reindex may come to write
  Closed,       \* no transaction is open
  Nothing,      \* a column that a statement has no value for
  MaxRebuilds   \* bound on the transactions begun

VARIABLES
  db,           \* the committed tables
  tx,           \* the tables as the open transaction sees them, or Closed
  script,       \* the statements it has still to execute, a set
  batch,        \* history: the rows and issues it was begun with
  rebuilds      \* the transactions begun

tableVars == <<db, tx, script, batch, rebuilds>>

Row == [id : Ids, path : Paths, tags : SUBSET Tags, refs : SUBSET Targets]

(* The index that the committed tables hold. *)
Indexed ==
  [docs   |-> {[id |-> d.id, path |-> d.path,
                tags |-> {t \in Tags : <<d.id, t>> \in db.tag},
                refs |-> {t \in Targets : <<d.id, t>> \in db.relation}] :
                  d \in db.document},
   issues |-> {[path |-> p] : p \in db.issue}]

Register == INSTANCE IndexRegister
  WITH Rows <- Row, Issues <- [path : Paths], index <- Indexed

ASSUME PathsAreRanks == Paths \subseteq Nat

ASSUME BoundIsANumber == MaxRebuilds \in Nat

(* What parse, group and check leave to write is finite and well formed,   *)
(* as DocumentIndex shows.                                                 *)
ASSUME BatchesAreIndexes ==
  \A b \in Batches : /\ b \in [docs : SUBSET Row, issues : SUBSET [path : Paths]]
                     /\ IsFiniteSet(b.docs)
                     /\ Register!WellFormed(b)

(* document, document_tag, document_relation and document_issue are keyed; *)
(* document_fts is not, and keeps its rows in the order of their insertion.*)
Empty == [document |-> {}, tag |-> {}, relation |-> {}, fts |-> <<>>, issue |-> {}]

TypeOK ==
  /\ DOMAIN db = DOMAIN Empty
  /\ db.document \subseteq [id : Ids, path : Paths]
  /\ db.tag \subseteq Ids \X Tags /\ db.relation \subseteq Ids \X Targets
  /\ db.fts \in Seq(Ids) /\ db.issue \subseteq Paths
  /\ tx = Closed \/ DOMAIN tx = DOMAIN Empty
  /\ rebuilds \in 0 .. MaxRebuilds

InitTables ==
  /\ db       = Empty
  /\ tx       = Closed
  /\ script   = {}
  /\ batch    = [docs |-> {}, issues |-> {}]
  /\ rebuilds = 0

--------------------------------------------------------------------------------
(* The statements *)

Clear(table) ==
  [op |-> "delete", table |-> table, path |-> 0, id |-> Nothing, item |-> Nothing]

Insert(table, doc, item) ==
  [op |-> "insert", table |-> table, path |-> doc.path, id |-> doc.id, item |-> item]

InsertIssue(issue) ==
  [op |-> "insert", table |-> "issue", path |-> issue.path, id |-> Nothing, item |-> Nothing]

InsertsOf(doc) ==
  {Insert("document", doc, Nothing), Insert("fts", doc, Nothing)}
    \cup {Insert("tag", doc, t) : t \in doc.tags}
    \cup {Insert("relation", doc, t) : t \in doc.refs}

Inserts(b) ==
  (UNION {InsertsOf(d) : d \in b.docs}) \cup {InsertIssue(i) : i \in b.issues}

(* A write that leaves the issues of the run before it where they are.     *)
StatementsKeepingIssues(b) == {Clear("document"), Clear("fts")} \cup Inserts(b)

Statements(b) == {Clear("document"), Clear("fts"), Clear("issue")} \cup Inserts(b)

(* The order of write: three deletes, then the documents by path, each     *)
(* with what hangs off it, then the issues.                                *)
Turn == [document |-> 1, tag |-> 2, relation |-> 3, fts |-> 4]

Before(s, t) ==
  \/ s.op = "delete" /\ t.op = "insert"
  \/ s.op = t.op /\ s.table # "issue" /\ t.table = "issue"
  \/ /\ s.op = t.op /\ s.table # "issue" /\ t.table # "issue"
     /\ s.path < t.path \/ (s.path = t.path /\ Turn[s.table] < Turn[t.table])

Due == {s \in script : \A t \in script : ~Before(t, s)}

(* The row of an insert. *)
RowOf(s) ==
  CASE s.table = "document" -> [id |-> s.id, path |-> s.path]
    [] s.table = "issue"    -> s.path
    [] s.table = "fts"      -> s.id
    [] OTHER                -> <<s.id, s.item>>

HangsInTheAir(t, s) == \A d \in t.document : d.id # s.id

(* The primary keys, unique (path) and the foreign keys.                   *)
KeyHit(t, s) ==
  /\ s.op = "insert"
  /\ \/ s.table = "document" /\ \E d \in t.document : d.id = s.id \/ d.path = s.path
     \/ s.table \in {"tag", "relation"} /\ (RowOf(s) \in t[s.table] \/ HangsInTheAir(t, s))
     \/ s.table = "issue" /\ s.path \in t.issue

(* delete from document cascades to its tags and relations and fires the   *)
(* trigger, which deletes what the search table holds of it.               *)
Cleared(t, table) ==
  CASE table = "document" ->
         [t EXCEPT !.document = {}, !.tag = {}, !.relation = {},
                   !.fts = SelectSeq(@, LAMBDA id : \A d \in t.document : d.id # id)]
    [] table = "fts"      -> [t EXCEPT !.fts = <<>>]
    [] table = "issue"    -> [t EXCEPT !.issue = {}]

After(t, s) ==
  IF s.op = "delete" THEN Cleared(t, s.table)
  ELSE IF s.table = "fts" THEN [t EXCEPT !.fts = Append(@, s.id)]
  ELSE [t EXCEPT ![s.table] = @ \cup {RowOf(s)}]

--------------------------------------------------------------------------------
(* The transaction *)

Begin(b) ==
  /\ tx = Closed
  /\ rebuilds < MaxRebuilds
  /\ rebuilds' = rebuilds + 1
  /\ batch'    = b
  /\ script'   = Statements(b)
  /\ tx'       = db
  /\ UNCHANGED db

Execute ==
  /\ tx # Closed
  /\ \E s \in Due :
       /\ ~KeyHit(tx, s)
       /\ tx'     = After(tx, s)
       /\ script' = script \ {s}
  /\ UNCHANGED <<db, batch, rebuilds>>

Commit ==
  /\ tx # Closed
  /\ script = {}
  /\ db' = tx
  /\ tx' = Closed
  /\ UNCHANGED <<script, batch, rebuilds>>

(* A failed write whose transaction is committed all the same.             *)
FailKeeping ==
  /\ tx # Closed
  /\ db'     = tx
  /\ tx'     = Closed
  /\ script' = {}
  /\ UNCHANGED <<batch, rebuilds>>

(* A statement or the commit fails, or the process is killed: rolled back. *)
Fail ==
  /\ tx # Closed
  /\ tx'     = Closed
  /\ script' = {}
  /\ UNCHANGED <<db, batch, rebuilds>>

--------------------------------------------------------------------------------
(* Properties *)

InPathOrder(rows) ==
  [i \in 1 .. Cardinality(rows) |->
     CHOOSE r \in rows : Cardinality({q \in rows : q.path < r.path}) = i - 1]

(* The tables that hold an index and nothing else, each document found     *)
(* once by a search, in the order of the paths.                            *)
Holding(b) ==
  [document |-> {[id |-> d.id, path |-> d.path] : d \in b.docs},
   tag      |-> UNION {{d.id} \X d.tags : d \in b.docs},
   relation |-> UNION {{d.id} \X d.refs : d \in b.docs},
   fts      |-> [i \in 1 .. Cardinality(b.docs) |-> InPathOrder(b.docs)[i].id],
   issue    |-> {i.path : i \in b.issues}]

(* The committed tables change only as a whole, to those of the run that   *)
(* commits: nothing of an earlier run is left, no search hit leads to a    *)
(* document that is gone, and no failure leaves half of a rebuild          *)
(* (documentindex.go 515-530, localdb.sql 131-135).                        *)
RebuiltWhole == [][db' # db => db' = Holding(batch)]_db

(* No insert of a rebuild hits a key, so that a rebuild never fails on the *)
(* data it is given (documentindex.go 325-331).                            *)
KeysNeverHit == tx # Closed => \A s \in Due : ~KeyHit(tx, s)

================================================================================
