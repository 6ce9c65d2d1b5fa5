----------------------------- MODULE DocumentIndex -----------------------------
(***************************************************************************)
(* Reindex (store/documentindex.go) run by several processes of a project, *)
(* while the documents under docs/ and the artifacts under .atrio are      *)
(* edited.  A run finds the paths, reads the files one by one, checks the  *)
(* relations one by one, replaces the index in one immediate transaction,  *)
(* and only then inserts a notification per rejected document, each in an  *)
(* implicit transaction of its own.                                        *)
(*                                                                         *)
(* Any step may fail and any process may be killed: the run ends, and the  *)
(* deferred Rollback, or SQLite on the next open, undoes its transaction.  *)
(* Attribution is left out, since attribute() answers for every path and   *)
(* changes nothing.                                                        *)
(***************************************************************************)
EXTENDS DocumentRules

CONSTANTS
  Indexers,     \* the processes and goroutines that call Reindex
  NoOne,        \* the write lock of the database is free
  MaxRuns,      \* bound on the calls of Reindex
  MaxEdits      \* bound on the edits of documents and artifacts

ASSUME NoOneIsNoIndexer == NoOne \notin Indexers
ASSUME BoundsAreNat == MaxRuns \in Nat /\ MaxEdits \in Nat

VARIABLES
  corpus,       \* the file at each path
  artifacts,    \* the artifacts that exist
  edits,        \* the edits so far
  index,        \* the committed document tables
  source,       \* history: the run that committed the index, 0 for none
  notices,      \* the notifications of category document
  marked,       \* history: the issues each run committed
  told,         \* history: the runs that returned without an error
  lock,         \* who holds the write lock of the database
  runs,         \* the runs begun
  pc,           \* the phase of each indexer
  nr,           \* the number of its run
  found,        \* the paths it found
  todo,         \* the paths it has still to go through in this phase
  read,         \* what it read at each path
  dangling,     \* the documents it found to have a dangling relation
  quiet         \* history: nothing was edited since it looked for paths

environment == <<corpus, artifacts, edits>>
database    == <<index, source, notices, marked, told, lock>>
memory      == <<pc, nr, found, todo, read, dangling, quiet>>
vars        == <<environment, database, runs, memory>>

Row    == [path : Paths, id : Ids, refs : SUBSET (Ids \cup Artifacts)]
Notice == [run : 1 .. MaxRuns, path : Paths, phase : Collision .. Dangling,
           level : {"warning", "error"}, id : Ids \cup {Absent}]

Register == INSTANCE IndexRegister WITH Rows <- Row, Issues <- Draft

TypeOK ==
  /\ corpus    \in [Paths -> Docs \cup {Broken, Absent}]
  /\ artifacts \in SUBSET Artifacts
  /\ edits     \in 0 .. MaxEdits
  /\ index     \in Register!Index
  /\ source    \in 0 .. MaxRuns
  /\ notices   \in SUBSET Notice
  /\ marked    \in [1 .. MaxRuns -> SUBSET Draft]
  /\ told      \in SUBSET (1 .. MaxRuns)
  /\ lock      \in Indexers \cup {NoOne}
  /\ runs      \in 0 .. MaxRuns
  /\ pc        \in [Indexers -> {"idle", "read", "check", "write", "notify"}]
  /\ nr        \in [Indexers -> 0 .. MaxRuns]
  /\ found     \in [Indexers -> SUBSET Paths]
  /\ todo      \in [Indexers -> SUBSET Paths]
  /\ read      \in [Indexers -> [Paths -> Docs \cup {Broken, Unread}]]
  /\ dangling  \in [Indexers -> SUBSET Paths]
  /\ quiet     \in [Indexers -> BOOLEAN]

Nothing == [p \in Paths |-> Unread]

(* The documents and artifacts of a project that is indexed for the first  *)
(* time may be anything.                                                   *)
Init ==
  /\ corpus    \in [Paths -> Docs \cup {Broken, Absent}]
  /\ artifacts \in SUBSET Artifacts
  /\ edits     = 0
  /\ index     = [docs |-> {}, issues |-> {}]
  /\ source    = 0
  /\ notices   = {}
  /\ marked    = [n \in 1 .. MaxRuns |-> {}]
  /\ told      = {}
  /\ lock      = NoOne
  /\ runs      = 0
  /\ pc        = [i \in Indexers |-> "idle"]
  /\ nr        = [i \in Indexers |-> 0]
  /\ found     = [i \in Indexers |-> {}]
  /\ todo      = [i \in Indexers |-> {}]
  /\ read      = [i \in Indexers |-> Nothing]
  /\ dangling  = [i \in Indexers |-> {}]
  /\ quiet     = [i \in Indexers |-> FALSE]

--------------------------------------------------------------------------------
(* The project is edited *)

EditDocument(p, f) ==
  /\ edits < MaxEdits
  /\ corpus[p] # f
  /\ corpus' = [corpus EXCEPT ![p] = f]
  /\ edits'  = edits + 1
  /\ quiet'  = [i \in Indexers |-> FALSE]
  /\ UNCHANGED <<artifacts, database, runs, pc, nr, found, todo, read, dangling>>

(* An artifact is created, or a checkout takes one away. *)
ToggleArtifact(a) ==
  /\ edits < MaxEdits
  /\ artifacts' = IF a \in artifacts THEN artifacts \ {a} ELSE artifacts \cup {a}
  /\ edits'     = edits + 1
  /\ quiet'     = [i \in Indexers |-> FALSE]
  /\ UNCHANGED <<corpus, database, runs, pc, nr, found, todo, read, dangling>>

--------------------------------------------------------------------------------
(* Reindex *)

(* A run that goes on with the candidates of the one before it.            *)
WalkKeepingRead(i) ==
  LET paths == {p \in Paths : corpus[p] # Absent} IN
  /\ pc[i] = "idle"
  /\ runs < MaxRuns
  /\ runs'     = runs + 1
  /\ pc'       = [pc       EXCEPT ![i] = "read"]
  /\ nr'       = [nr       EXCEPT ![i] = runs + 1]
  /\ found'    = [found    EXCEPT ![i] = paths]
  /\ todo'     = [todo     EXCEPT ![i] = Remaining(paths)]
  /\ dangling' = [dangling EXCEPT ![i] = {}]
  /\ quiet'    = [quiet    EXCEPT ![i] = TRUE]
  /\ UNCHANGED <<environment, database, read>>

(* walkDocuments, normalizePaths and detectCaseCollisions. *)
Walk(i) ==
  LET paths == {p \in Paths : corpus[p] # Absent} IN
  /\ pc[i] = "idle"
  /\ runs < MaxRuns
  /\ runs'     = runs + 1
  /\ pc'       = [pc       EXCEPT ![i] = "read"]
  /\ nr'       = [nr       EXCEPT ![i] = runs + 1]
  /\ found'    = [found    EXCEPT ![i] = paths]
  /\ todo'     = [todo     EXCEPT ![i] = Remaining(paths)]
  /\ read'     = [read     EXCEPT ![i] = Nothing]
  /\ dangling' = [dangling EXCEPT ![i] = {}]
  /\ quiet'    = [quiet    EXCEPT ![i] = TRUE]
  /\ UNCHANGED <<environment, database>>

(* A reading that skips a file that is gone instead of drafting an issue.  *)
ReadSkipping(i) ==
  LET p == Least(todo[i]) IN
  /\ pc[i] = "read"
  /\ todo[i] # {}
  /\ todo' = [todo EXCEPT ![i] = @ \ {p}]
  /\ read' = [read EXCEPT ![i] = [read[i] EXCEPT ![p] = corpus[p]]]
  /\ UNCHANGED <<environment, database, runs, pc, nr, found, dangling, quiet>>

(* parseAndValidateAll, one path; a file that is gone by now is an issue.  *)
Read(i) ==
  LET p == Least(todo[i]) IN
  /\ pc[i] = "read"
  /\ todo[i] # {}
  /\ todo' = [todo EXCEPT ![i] = @ \ {p}]
  /\ read' = [read EXCEPT ![i] = [read[i] EXCEPT ![p] =
                IF corpus[p] = Absent THEN Broken ELSE corpus[p]]]
  /\ UNCHANGED <<environment, database, runs, pc, nr, found, dangling, quiet>>

(* groupByID and buildReverseDocumentRefs. *)
Group(i) ==
  /\ pc[i] = "read"
  /\ todo[i] = {}
  /\ pc'   = [pc   EXCEPT ![i] = "check"]
  /\ todo' = [todo EXCEPT ![i] = Resolvable(read[i])]
  /\ UNCHANGED <<environment, database, runs, nr, found, read, dangling, quiet>>

(* checkDocumentRelations, one document.                                   *)
Check(i) ==
  LET p == Least(todo[i]) IN
  /\ pc[i] = "check"
  /\ todo[i] # {}
  /\ todo'     = [todo EXCEPT ![i] = @ \ {p}]
  /\ dangling' = [dangling EXCEPT ![i] =
       IF HasDangling(read[i][p], ResolvableIds(read[i]), artifacts)
       THEN @ \cup {p} ELSE @]
  /\ UNCHANGED <<environment, database, runs, pc, nr, found, read, quiet>>

(* db.Begin, which takes the write lock at once (_txlock=immediate). *)
Begin(i) ==
  /\ pc[i] = "check"
  /\ todo[i] = {}
  /\ lock = NoOne
  /\ lock' = i
  /\ pc'   = [pc EXCEPT ![i] = "write"]
  /\ UNCHANGED <<environment, index, source, notices, marked, told, runs,
                 nr, found, todo, read, dangling, quiet>>

RunDrafts(i) == Drafts(found[i], read[i], dangling[i])

(* A write that only adds to and overwrites the rows it finds.             *)
CommitKeepingOldRows(i) ==
  /\ pc[i] = "write"
  /\ index'  = [docs   |-> index.docs \cup DocRows(read[i], dangling[i]),
                issues |-> RunDrafts(i)]
  /\ source' = nr[i]
  /\ marked' = [marked EXCEPT ![nr[i]] = RunDrafts(i)]
  /\ lock'   = NoOne
  /\ pc'     = [pc EXCEPT ![i] = "notify"]
  /\ todo'   = [todo EXCEPT ![i] = {d.path : d \in RunDrafts(i)}]
  /\ UNCHANGED <<environment, notices, told, runs, nr, found, read, dangling, quiet>>

(* The deletes, the inserts and the commit of write, seen all at once.     *)
Commit(i) ==
  /\ pc[i] = "write"
  /\ index'  = [docs |-> DocRows(read[i], dangling[i]), issues |-> RunDrafts(i)]
  /\ source' = nr[i]
  /\ marked' = [marked EXCEPT ![nr[i]] = RunDrafts(i)]
  /\ lock'   = NoOne
  /\ pc'     = [pc EXCEPT ![i] = "notify"]
  /\ todo'   = [todo EXCEPT ![i] = {d.path : d \in RunDrafts(i)}]
  /\ UNCHANGED <<environment, notices, told, runs, nr, found, read, dangling, quiet>>

(* notifyIssues, one draft: an insert that waits for the write lock.       *)
Notify(i) ==
  LET d == FirstDraft({e \in RunDrafts(i) : e.path \in todo[i]}) IN
  /\ pc[i] = "notify"
  /\ todo[i] # {}
  /\ lock = NoOne
  /\ todo'    = [todo EXCEPT ![i] = @ \ {d.path}]
  /\ notices' = notices \cup
       {[run |-> nr[i], path |-> d.path, phase |-> d.phase,
         level |-> Level(read[i], d),
         id |-> IF d.phase \in {Duplicate, Dangling}
                THEN read[i][d.path].id ELSE Absent]}
  /\ UNCHANGED <<environment, index, source, marked, told, lock, runs,
                 pc, nr, found, read, dangling, quiet>>

Return(i) ==
  /\ pc[i] = "notify"
  /\ todo[i] = {}
  /\ told' = told \cup {nr[i]}
  /\ pc'   = [pc EXCEPT ![i] = "idle"]
  /\ UNCHANGED <<environment, index, source, notices, marked, lock, runs,
                 nr, found, todo, read, dangling, quiet>>

(* A write that returns an error without rolling its transaction back.     *)
AbortHolding(i) ==
  /\ pc[i] # "idle"
  /\ pc' = [pc EXCEPT ![i] = "idle"]
  /\ UNCHANGED <<environment, database, runs,
                 nr, found, todo, read, dangling, quiet>>

(* A Reindex that notifies although its write failed.                      *)
AbortNotifying(i) ==
  /\ pc[i] # "idle"
  /\ pc'   = [pc   EXCEPT ![i] = IF @ = "write" THEN "notify" ELSE "idle"]
  /\ todo' = [todo EXCEPT ![i] = {d.path : d \in RunDrafts(i)}]
  /\ lock' = IF lock = i THEN NoOne ELSE lock
  /\ UNCHANGED <<environment, index, source, notices, marked, told, runs,
                 nr, found, read, dangling, quiet>>

(* The run returns an error (a walk, a busy or failing statement, a commit *)
(* or a notification that fails) or its process is killed.  An open        *)
(* transaction is rolled back; what was committed stays.                   *)
Abort(i) ==
  /\ pc[i] # "idle"
  /\ pc'   = [pc EXCEPT ![i] = "idle"]
  /\ lock' = IF lock = i THEN NoOne ELSE lock
  /\ UNCHANGED <<environment, index, source, notices, marked, told, runs,
                 nr, found, todo, read, dangling, quiet>>

Step(i) ==
  Walk(i) \/ Read(i) \/ Group(i) \/ Check(i) \/ Begin(i) \/ Commit(i)
  \/ Notify(i) \/ Return(i)

Next ==
  \/ \E p \in Paths, f \in Docs \cup {Broken, Absent} : EditDocument(p, f)
  \/ \E a \in Artifacts : ToggleArtifact(a)
  \/ \E i \in Indexers : Step(i) \/ Abort(i)

Spec == Init /\ [][Next]_vars

(* A process that runs goes on running; nothing obliges it to fail, and    *)
(* nobody is obliged to call Reindex or to edit anything.                  *)
Fairness ==
  \A i \in Indexers :
    /\ WF_vars(Read(i) \/ Group(i) \/ Check(i) \/ Begin(i) \/ Commit(i))
    /\ WF_vars(Notify(i) \/ Return(i))

FairSpec == Spec /\ Fairness

--------------------------------------------------------------------------------
(* Properties *)

(* The document index as a reader of docs/ would define it, without        *)
(* phases: the documents whose path nothing collides with, whose id no     *)
(* other well-placed document declares, and whose relations all lead to an *)
(* artifact or to the one document that declares their target.             *)
Placed(p)   == corpus[p] \in Docs /\ \A q \in Paths \ {p} :
                 corpus[q] # Absent => LowerOf[q] # LowerOf[p]
Declares(p, id) == Placed(p) /\ corpus[p].id = id
Sole(id)    == \E p \in Paths : Declares(p, id) /\ \A q \in Paths \ {p} : ~Declares(q, id)
Sound(p)    == /\ Placed(p)
               /\ Sole(corpus[p].id)
               /\ \A r \in corpus[p].refs : r \in artifacts \/ Sole(r)

Exact(x) ==
  /\ {d.path : d \in x.docs} = {p \in Paths : Sound(p)}
  /\ \A d \in x.docs : [id |-> d.id, refs |-> d.refs] = corpus[d.path]
  /\ {d.path : d \in x.issues} = {p \in Paths : corpus[p] # Absent /\ ~Sound(p)}

(* A run during which nothing is edited commits exactly that index, and    *)
(* marks every other document (documentindex.go 242-276; the rebuild from  *)
(* the repository alone that localdb.sql 7-9 relies on).                   *)
Committed(i) == pc[i] = "write" /\ pc'[i] = "notify"

ExactWhenQuiet == \A i \in Indexers : Committed(i) /\ quiet[i] => Exact(index')

RebuildMatchesCorpus == [][ExactWhenQuiet]_vars

(* The index is out of date only if something was edited since the run     *)
(* that made it looked for its paths: whatever older runs were under way,  *)
(* commit, fail or end then, and whatever they leave in the memory of the  *)
(* processes.  So a run that begins after the last edit and is the last to *)
(* commit repairs what a late commit of an older one had brought back.     *)
CurrentUnlessEdited ==
  \A i \in Indexers : source # 0 /\ nr[i] = source /\ quiet[i] => Exact(index)

(* An edited document is never dropped in silence: each path the run found *)
(* ends up indexed or marked, whatever changed since (localdb.sql 80-83).  *)
Accounted ==
  \A i \in Indexers : Committed(i) =>
    found[i] = {d.path : d \in index'.docs} \cup {d.path : d \in index'.issues}

NothingDropped == [][Accounted]_vars

(* The inserts of a rebuild can never hit a key of localdb.sql             *)
(* (documentindex.go 325-331), and no reader sees an index in between.     *)
ImplementsRegister == Register!Spec

(* Nobody is told of an issue that is not in a committed index             *)
(* (documentindex.go 274-276).                                             *)
NoticesAreMarked ==
  \A n \in notices : [path |-> n.path, phase |-> n.phase] \in marked[n.run]

(* When the run that made the index returned, every relation of an indexed *)
(* document that leads to a document outside the index has an error, not a *)
(* warning, behind it (documentindex.go 612-618).                          *)
LostTargetsReported ==
  source \in told =>
    \A d \in index.docs, r \in Ids :
      r \in d.refs /\ (\A e \in index.docs : e.id # r) =>
        \E n \in notices : n.run = source /\ n.id = r /\ n.level = "error"

(* A run that is under way always ends, without anybody having to wait for *)
(* a timeout: no transaction is left holding the write lock.               *)
RunsEnd == \A i \in Indexers : pc[i] # "idle" ~> pc[i] = "idle"

================================================================================
