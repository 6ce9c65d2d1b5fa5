----------------------------- MODULE DocumentRules -----------------------------
(***************************************************************************)
(* The phases of Reindex (store/documentindex.go) as functions of what a   *)
(* run found and read.  A path is its rank in the order normalizePaths     *)
(* sorts by; a file is Broken when it cannot be read, has no front matter  *)
(* that parses, or fails the schema.  A relation is its target: documents  *)
(* and artifacts, told apart by the type field, are disjoint.              *)
(***************************************************************************)
EXTENDS Naturals

CONSTANTS
  Paths,        \* the paths under docs/ that end in .md
  LowerOf,      \* strings.ToLower of each path
  Ids,          \* document ids
  Artifacts,    \* the tasks, decisions, log entries and changelogs
  Docs,         \* the valid documents: an id and a set of relation targets
  Absent,       \* no file at a path
  Broken,       \* a file that is no valid document
  Unread        \* a path a run has not read

ASSUME PathsAreRanks == Paths \subseteq Nat
ASSUME DocsHaveTargets ==
  Docs \subseteq [id : Ids, refs : SUBSET (Ids \cup Artifacts)]
ASSUME TargetsTellApart == Ids \cap Artifacts = {}
ASSUME DistinctMarks ==
  /\ {Absent, Broken, Unread} \cap Docs = {}
  /\ Absent # Broken /\ Broken # Unread /\ Absent # Unread

(* The phase that rejects a document, in the order the drafts are listed.  *)
Collision  == 1
Unparsable == 2
Duplicate  == 3
Dangling   == 4

Draft == [path : Paths, phase : Collision .. Dangling]

Least(S) == CHOOSE p \in S : \A q \in S : p <= q

--------------------------------------------------------------------------------
(* detectCaseCollisions *)

(* A detection that keeps the first path of every group.                   *)
RemainingFirst(found) ==
  {p \in found : \A q \in found : LowerOf[q] = LowerOf[p] => p <= q}

(* Every path of a group is rejected: there is no winner. *)
Remaining(found) ==
  {p \in found : \A q \in found : LowerOf[q] = LowerOf[p] => q = p}

--------------------------------------------------------------------------------
(* groupByID *)

Candidates(read) == {p \in Paths : read[p] \in Docs}

(* A grouping in which the first path that declares an id keeps it.        *)
ResolvableFirst(read) ==
  {p \in Candidates(read) :
     \A q \in Candidates(read) : read[q].id = read[p].id => p <= q}

(* Every member of a duplicate group is rejected. *)
Resolvable(read) ==
  {p \in Candidates(read) :
     \A q \in Candidates(read) : read[q].id = read[p].id => q = p}

(* The set other documents' relations resolve against, fixed before any    *)
(* relation is checked.                                                    *)
ResolvableIds(read) == {read[p].id : p \in Resolvable(read)}

(* buildReverseDocumentRefs, which counts the invalid documents' relations *)
(* and a document's relation to itself too.                                *)
Dependents(read, id) == {p \in Candidates(read) : id \in read[p].refs}

(* A check that looks artifacts up but takes every document on trust.      *)
HasDanglingArtifact(doc, ids, artifacts) == ~(doc.refs \ Ids \subseteq artifacts)

(* checkDocumentRelations, with the artifacts that exist at that moment.   *)
HasDangling(doc, ids, artifacts) == ~(doc.refs \subseteq ids \cup artifacts)

--------------------------------------------------------------------------------
(* The drafts and the rows a run ends with *)

Marks(S, phase) == {[path |-> p, phase |-> phase] : p \in S}

Drafts(found, read, dangling) ==
  Marks(found \ Remaining(found), Collision)
  \cup Marks({p \in Remaining(found) : read[p] = Broken}, Unparsable)
  \cup Marks(Candidates(read) \ Resolvable(read), Duplicate)
  \cup Marks(dangling, Dangling)

DocRows(read, dangling) ==
  {[path |-> p, id |-> read[p].id, refs |-> read[p].refs] :
     p \in Resolvable(read) \ dangling}

(* A level that looks only at documents that lost their own relations.     *)
LevelOfDuplicatesOnly(read, d) ==
  IF d.phase = Duplicate /\ Dependents(read, read[d.path].id) # {}
  THEN "error" ELSE "warning"

(* notifyIssues: an error when relations pointed at the document.  A draft *)
(* of the first two phases has no id that anything could have named.       *)
Level(read, d) ==
  IF /\ d.phase \in {Duplicate, Dangling}
     /\ Dependents(read, read[d.path].id) # {}
  THEN "error" ELSE "warning"

(* The drafts are notified phase by phase, each in path order. *)
Before(d, e) == d.phase < e.phase \/ (d.phase = e.phase /\ d.path <= e.path)

FirstDraft(S) == CHOOSE d \in S : \A e \in S : Before(d, e)

================================================================================
