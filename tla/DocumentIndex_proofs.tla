-------------------------- MODULE DocumentIndex_proofs --------------------------
(***************************************************************************)
(* Proofs about DocumentIndex, for any project, any number of runs at once *)
(* and any edits meanwhile.                                                *)
(***************************************************************************)
EXTENDS DocumentIndex, WellFoundedInduction, TLAPS

--------------------------------------------------------------------------------
(* The next path and the next draft exist *)

(* The least-number principle for sets, by the well-foundedness of <.      *)
LEMMA LeastNumber ==
  ASSUME NEW S, S \subseteq Nat, S # {}
  PROVE  \E m \in S : \A n \in S : m <= n
<1>. DEFINE R == {ss \in Nat \X Nat : ss[1] < ss[2]}
<1>1. \A a, b \in Nat : a < b => <<a, b>> \in R
  <2>. TAKE a, b \in Nat
  <2>. HAVE a < b
  <2>1. <<a, b>> \in Nat \X Nat
    OBVIOUS
  <2>2. <<a, b>>[1] = a /\ <<a, b>>[2] = b
    OBVIOUS
  <2>. QED  BY <2>1, <2>2, Zenon
<1>2. IsWellFoundedOn(R, Nat)
  BY NatLessThanWellFounded, Zenon DEF OpToRel
<1>. HIDE DEF R
<1>3. PICK m \in S : \A n \in S : ~(<<n, m>> \in R)
  BY <1>2, WFMin, Zenon
<1>4. ASSUME NEW n \in S  PROVE m <= n
  <2>1. m \in Nat /\ n \in Nat
    OBVIOUS
  <2>2. ~(n < m)
    BY <2>1, <1>1, <1>3, Zenon
  <2>. QED  BY <2>1, <2>2
<1>. QED  BY <1>4

LEMMA LeastIsAMember ==
  ASSUME NEW S \in SUBSET Paths, S # {}
  PROVE  Least(S) \in S
<1>1. \E p \in S : \A q \in S : p <= q
  BY PathsAreRanks, LeastNumber
<1>. QED  BY <1>1 DEF Least

LEMMA FirstDraftIsAMember ==
  ASSUME NEW S \in SUBSET Draft, S # {}
  PROVE  FirstDraft(S) \in S
<1>. USE PathsAreRanks DEF Draft, Collision, Dangling
<1>. DEFINE phases == {d.phase : d \in S}
<1>1. PICK m \in phases : \A n \in phases : m <= n
  <2>1. phases \subseteq Nat /\ phases # {}
    OBVIOUS
  <2>. QED  BY <2>1, LeastNumber
<1>. DEFINE paths == {d.path : d \in {e \in S : e.phase = m}}
<1>2. PICK k \in paths : \A n \in paths : k <= n
  <2>1. paths \subseteq Nat /\ paths # {}
    BY <1>1
  <2>. QED  BY <2>1, LeastNumber
<1>3. PICK d \in S : d.phase = m /\ d.path = k
  BY <1>2
<1>4. ASSUME NEW e \in S  PROVE Before(d, e)
  <2>1. m <= e.phase /\ m \in Nat /\ e.phase \in Nat
    BY <1>1
  <2>2. e.phase = m => k <= e.path
    BY <1>2
  <2>. QED  BY <1>3, <2>1, <2>2 DEF Before
<1>5. \E f \in S : \A e \in S : Before(f, e)
  BY <1>4
<1>. QED  BY <1>5 DEF FirstDraft

--------------------------------------------------------------------------------
(* What a run ends with *)

(* What a run knows after it has read what detectCaseCollisions left, and  *)
(* the relations of which it rejected none but those of resolvable         *)
(* documents.                                                              *)
ReadThrough(F, R, G) ==
  /\ F \in SUBSET Paths
  /\ R \in [Paths -> Docs \cup {Broken, Unread}]
  /\ {p \in Paths : R[p] # Unread} = Remaining(F)
  /\ G \in SUBSET Resolvable(R)

(* Which phase rejects a path.                                             *)
LEMMA DraftIs ==
  ASSUME NEW F, NEW R, NEW G, NEW d
  PROVE  d \in Drafts(F, R, G) <=>
           \/ \E p \in F \ Remaining(F) : d = [path |-> p, phase |-> Collision]
           \/ \E p \in Remaining(F) :
                R[p] = Broken /\ d = [path |-> p, phase |-> Unparsable]
           \/ \E p \in Candidates(R) \ Resolvable(R) :
                d = [path |-> p, phase |-> Duplicate]
           \/ \E p \in G : d = [path |-> p, phase |-> Dangling]
BY DEF Drafts, Marks

(* Every path that was found is in exactly one place: colliding, broken,   *)
(* duplicate or resolvable.                                                *)
LEMMA PathsPartitioned ==
  ASSUME NEW F, NEW R, NEW G, ReadThrough(F, R, G)
  PROVE  /\ Resolvable(R) \subseteq Candidates(R)
         /\ Candidates(R) \subseteq Remaining(F)
         /\ Remaining(F) \subseteq F
         /\ \A p \in Remaining(F) : R[p] = Broken \/ p \in Candidates(R)
         /\ \A p \in Candidates(R) : R[p] \in Docs /\ R[p] # Broken
BY DistinctMarks DEF ReadThrough, Resolvable, Candidates, Remaining

LEMMA DraftsTyped ==
  ASSUME NEW F, NEW R, NEW G, ReadThrough(F, R, G)
  PROVE  /\ Drafts(F, R, G) \subseteq Draft
         /\ \A d \in Drafts(F, R, G) :
              d.phase \in {Duplicate, Dangling} => R[d.path] \in Docs
<1>. SUFFICES ASSUME NEW d \in Drafts(F, R, G)
              PROVE  /\ d \in Draft
                     /\ d.phase \in {Duplicate, Dangling} => R[d.path] \in Docs
  OBVIOUS
<1>1. F \subseteq Paths /\ G \subseteq Resolvable(R)
  BY DEF ReadThrough
<1>. USE DEF Draft, Collision, Unparsable, Duplicate, Dangling
<1>2. CASE \E p \in F \ Remaining(F) : d = [path |-> p, phase |-> Collision]
  BY <1>1, <1>2
<1>3. CASE \E p \in Remaining(F) :
             R[p] = Broken /\ d = [path |-> p, phase |-> Unparsable]
  BY <1>1, <1>3, PathsPartitioned
<1>4. CASE \E p \in Candidates(R) \ Resolvable(R) :
             d = [path |-> p, phase |-> Duplicate]
  BY <1>1, <1>4, PathsPartitioned
<1>5. CASE \E p \in G : d = [path |-> p, phase |-> Dangling]
  BY <1>1, <1>5, PathsPartitioned
<1>6. \/ \E p \in F \ Remaining(F) : d = [path |-> p, phase |-> Collision]
      \/ \E p \in Remaining(F) :
           R[p] = Broken /\ d = [path |-> p, phase |-> Unparsable]
      \/ \E p \in Candidates(R) \ Resolvable(R) :
           d = [path |-> p, phase |-> Duplicate]
      \/ \E p \in G : d = [path |-> p, phase |-> Dangling]
  BY DraftIs
<1>. QED  BY <1>2, <1>3, <1>4, <1>5, <1>6, Zenon

(* document_issue.path is unique: no path is rejected twice.               *)
LEMMA DraftsOnePerPath ==
  ASSUME NEW F, NEW R, NEW G, ReadThrough(F, R, G),
         NEW d \in Drafts(F, R, G),
         NEW e \in Drafts(F, R, G),
         d.path = e.path
  PROVE  d = e
<1>. DEFINE InPhase(x) ==
       /\ x.phase \in {Collision, Unparsable, Duplicate, Dangling}
       /\ x = [path |-> x.path, phase |-> x.phase]
       /\ x.phase = Collision  <=> x.path \notin Remaining(F)
       /\ x.phase = Unparsable <=> x.path \in Remaining(F) /\ R[x.path] = Broken
       /\ x.phase = Duplicate  <=> x.path \in Candidates(R) \ Resolvable(R)
       /\ x.phase = Dangling   <=> x.path \in Resolvable(R)
<1>. HIDE DEF InPhase
<1>1. ASSUME NEW x \in Drafts(F, R, G)  PROVE InPhase(x)
  <2>0. G \subseteq Resolvable(R)
    BY DEF ReadThrough
  <2>. USE PathsPartitioned DEF InPhase, Collision, Unparsable, Duplicate, Dangling
  <2>1. CASE \E p \in F \ Remaining(F) : x = [path |-> p, phase |-> Collision]
    BY <2>1
  <2>2. CASE \E p \in Remaining(F) :
               R[p] = Broken /\ x = [path |-> p, phase |-> Unparsable]
    BY <2>2
  <2>3. CASE \E p \in Candidates(R) \ Resolvable(R) :
               x = [path |-> p, phase |-> Duplicate]
    BY <2>3
  <2>4. CASE \E p \in G : x = [path |-> p, phase |-> Dangling]
    BY <2>0, <2>4
  <2>5. \/ \E p \in F \ Remaining(F) : x = [path |-> p, phase |-> Collision]
        \/ \E p \in Remaining(F) :
             R[p] = Broken /\ x = [path |-> p, phase |-> Unparsable]
        \/ \E p \in Candidates(R) \ Resolvable(R) :
             x = [path |-> p, phase |-> Duplicate]
        \/ \E p \in G : x = [path |-> p, phase |-> Dangling]
    BY DraftIs
  <2>. HIDE DEF InPhase
  <2>. QED  BY <2>1, <2>2, <2>3, <2>4, <2>5, Zenon
<1>2. InPhase(d) /\ InPhase(e)
  BY <1>1
<1>3. d.phase = e.phase
  BY <1>2 DEF InPhase
<1>. QED  BY <1>2, <1>3 DEF InPhase

(* The paths that the drafts reject.                                       *)
LEMMA RejectedPaths ==
  ASSUME NEW F, NEW R, NEW G, ReadThrough(F, R, G)
  PROVE  {d.path : d \in Drafts(F, R, G)} =
           F \ (Resolvable(R) \ G)
<1>. DEFINE D == Drafts(F, R, G)
<1>1. ASSUME NEW d \in D  PROVE d.path \in F \ (Resolvable(R) \ G)
  <2>1. CASE \E p \in F \ Remaining(F) : d.path = p
    BY <2>1, PathsPartitioned
  <2>2. CASE \E p \in Remaining(F) : R[p] = Broken /\ d.path = p
    BY <2>2, PathsPartitioned
  <2>3. CASE \E p \in Candidates(R) \ Resolvable(R) : d.path = p
    BY <2>3, PathsPartitioned
  <2>4. CASE \E p \in G : d.path = p
    BY <2>4, PathsPartitioned DEF ReadThrough
  <2>5. \/ \E p \in F \ Remaining(F) : d.path = p
        \/ \E p \in Remaining(F) : R[p] = Broken /\ d.path = p
        \/ \E p \in Candidates(R) \ Resolvable(R) : d.path = p
        \/ \E p \in G : d.path = p
    BY DraftIs
  <2>. QED  BY <2>1, <2>2, <2>3, <2>4, <2>5
<1>2. ASSUME NEW p \in F \ (Resolvable(R) \ G)
      PROVE  \E d \in D : d.path = p
  <2>1. CASE p \notin Remaining(F)
    <3>1. [path |-> p, phase |-> Collision] \in D
      BY <2>1, DraftIs
    <3>. QED  BY <3>1
  <2>2. CASE p \in Remaining(F) /\ R[p] = Broken
    <3>1. [path |-> p, phase |-> Unparsable] \in D
      BY <2>2, DraftIs
    <3>. QED  BY <3>1
  <2>3. CASE p \in Candidates(R) \ Resolvable(R)
    <3>1. [path |-> p, phase |-> Duplicate] \in D
      BY <2>3, DraftIs
    <3>. QED  BY <3>1
  <2>4. CASE p \in G
    <3>1. [path |-> p, phase |-> Dangling] \in D
      BY <2>4, DraftIs
    <3>. QED  BY <3>1
  <2>. QED  BY <2>1, <2>2, <2>3, <2>4, PathsPartitioned
<1>. QED  BY <1>1, <1>2

LEMMA RowIs ==
  ASSUME NEW R, NEW G, NEW x
  PROVE  x \in DocRows(R, G) <=>
           \E p \in Resolvable(R) \ G :
             x = [path |-> p, id |-> R[p].id, refs |-> R[p].refs]
BY DEF DocRows

LEMMA IndexedPaths ==
  ASSUME NEW R, NEW G
  PROVE  {x.path : x \in DocRows(R, G)} = Resolvable(R) \ G
<1>1. ASSUME NEW x \in DocRows(R, G)  PROVE x.path \in Resolvable(R) \ G
  BY DEF DocRows
<1>2. ASSUME NEW p \in Resolvable(R) \ G
      PROVE  \E x \in DocRows(R, G) : x.path = p
  <2>1. [path |-> p, id |-> R[p].id, refs |-> R[p].refs] \in DocRows(R, G)
    BY RowIs
  <2>. QED  BY <2>1
<1>. QED  BY <1>1, <1>2

(* What a run commits is an index, and its keys hold.                      *)
LEMMA CommitsAnIndex ==
  ASSUME NEW F, NEW R, NEW G, ReadThrough(F, R, G),
         NEW x, x = [docs   |-> DocRows(R, G),
                     issues |-> Drafts(F, R, G)]
  PROVE  /\ x \in Register!Index
         /\ Register!WellFormed(x)
<1>1. ASSUME NEW a \in x.docs  PROVE a \in Row
  <2>1. PICK p \in Resolvable(R) \ G :
          a = [path |-> p, id |-> R[p].id, refs |-> R[p].refs]
    BY RowIs
  <2>2. p \in Paths /\ R[p] \in Docs
    BY PathsPartitioned DEF ReadThrough
  <2>. QED  BY <2>1, <2>2, DocsHaveTargets DEF Row
<1>2. x \in Register!Index
  BY <1>1, DraftsTyped DEF Register!Index
<1>3. \A a, b \in x.docs : a.id = b.id \/ a.path = b.path => a = b
  BY RowIs DEF Resolvable
<1>4. \A a, b \in x.issues : a.path = b.path => a = b
  BY DraftsOnePerPath
<1>5. \A a \in x.docs, b \in x.issues : a.path # b.path
  <2>1. \A b \in x.issues : b.path \notin Resolvable(R) \ G
    BY RejectedPaths
  <2>2. \A a \in DocRows(R, G) : a.path \in Resolvable(R) \ G
    BY DEF DocRows
  <2>. QED  BY <2>1, <2>2
<1>. QED  BY <1>2, <1>3, <1>4, <1>5 DEF Register!WellFormed

(* localdb.sql 80-83: each path that was found is indexed or marked.       *)
LEMMA AccountsForAll ==
  ASSUME NEW F, NEW R, NEW G, ReadThrough(F, R, G)
  PROVE  F = {x.path : x \in DocRows(R, G)} \cup {d.path : d \in Drafts(F, R, G)}
<1>1. {x.path : x \in DocRows(R, G)} = Resolvable(R) \ G
  BY IndexedPaths
<1>2. {d.path : d \in Drafts(F, R, G)} = F \ (Resolvable(R) \ G)
  BY RejectedPaths
<1>3. Resolvable(R) \ G \subseteq F
  BY PathsPartitioned
<1>. QED  BY <1>1, <1>2, <1>3

(* What a run that saw the corpus as it is commits is the index the corpus *)
(* defines.                                                                *)
LEMMA ExactWhenSeen ==
  ASSUME corpus \in [Paths -> Docs \cup {Broken, Absent}],
         artifacts \in SUBSET Artifacts,
         NEW F, NEW R, NEW G, ReadThrough(F, R, G),
         \A p \in Paths : p \in F <=> corpus[p] # Absent,
         \A p \in Paths : R[p] # Unread => R[p] = corpus[p],
         \A p \in Resolvable(R) :
           p \in G <=> HasDangling(R[p], ResolvableIds(R), artifacts),
         NEW x, x.docs = DocRows(R, G), x.issues = Drafts(F, R, G)
  PROVE  Exact(x)
<1>0. /\ {p \in Paths : R[p] # Unread} = Remaining(F)
      /\ F \subseteq Paths
      /\ G \subseteq Resolvable(R)
      /\ Resolvable(R) \subseteq Candidates(R)
      /\ Candidates(R) \subseteq Paths
  BY PathsPartitioned DEF ReadThrough, Candidates
<1>1. \A p \in Candidates(R) : R[p] = corpus[p] /\ corpus[p] \in Docs
  BY DistinctMarks DEF Candidates
<1>2. ASSUME NEW p \in Paths  PROVE Placed(p) <=> p \in Candidates(R)
  <2>1. ASSUME Placed(p)  PROVE p \in Candidates(R)
    <3>1. p \in F /\ corpus[p] \in Docs
      BY <2>1, DistinctMarks DEF Placed
    <3>2. p \in Remaining(F)
      BY <1>0, <2>1, <3>1 DEF Placed, Remaining
    <3>3. R[p] = corpus[p]
      BY <1>0, <3>2
    <3>. QED  BY <3>1, <3>3 DEF Candidates
  <2>2. ASSUME p \in Candidates(R)  PROVE Placed(p)
    <3>1. corpus[p] \in Docs /\ p \in Remaining(F)
      BY <1>1, <2>2, PathsPartitioned
    <3>. QED  BY <3>1 DEF Placed, Remaining
  <2>. QED  BY <2>1, <2>2
<1>3. \A p \in Paths : \A id :
        Declares(p, id) <=> p \in Candidates(R) /\ R[p].id = id
  BY <1>1, <1>2 DEF Declares
<1>4. ASSUME NEW p \in Resolvable(R)  PROVE Sole(R[p].id)
  <2>1. Declares(p, R[p].id)
    BY <1>0, <1>3
  <2>2. ASSUME NEW q \in Paths \ {p}  PROVE ~Declares(q, R[p].id)
    BY <1>3 DEF Resolvable
  <2>. QED  BY <1>0, <2>1, <2>2 DEF Sole
<1>5. \A p \in Candidates(R) : Sole(R[p].id) => p \in Resolvable(R)
  <2>. SUFFICES ASSUME NEW p \in Candidates(R), Sole(R[p].id),
                       NEW q \in Candidates(R), R[q].id = R[p].id
                PROVE  q = p
    BY DEF Resolvable
  <2>1. PICK s \in Paths : \A o \in Paths \ {s} : ~Declares(o, R[p].id)
    BY DEF Sole
  <2>2. Declares(p, R[p].id) /\ Declares(q, R[p].id)
    BY <1>0, <1>3
  <2>. QED  BY <1>0, <2>1, <2>2
<1>6. \A id : id \in ResolvableIds(R) <=> Sole(id)
  <2>1. \A id : id \in ResolvableIds(R) => Sole(id)
    BY <1>4 DEF ResolvableIds
  <2>2. ASSUME NEW id, Sole(id)  PROVE id \in ResolvableIds(R)
    <3>1. PICK s \in Paths : Declares(s, id)
      BY <2>2 DEF Sole
    <3>2. s \in Candidates(R) /\ R[s].id = id
      BY <1>3, <3>1
    <3>3. s \in Resolvable(R)
      BY <1>5, <2>2, <3>2
    <3>. QED  BY <3>2, <3>3 DEF ResolvableIds
  <2>. QED  BY <2>1, <2>2
<1>7. ASSUME NEW p \in Paths  PROVE Sound(p) <=> p \in Resolvable(R) \ G
  <2>1. Placed(p) /\ Sole(corpus[p].id) <=> p \in Resolvable(R)
    BY <1>0, <1>1, <1>2, <1>4, <1>5
  <2>2. ASSUME p \in Resolvable(R)
        PROVE  (\A r \in corpus[p].refs : r \in artifacts \/ Sole(r)) <=> p \notin G
    <3>1. corpus[p] = R[p]
      BY <1>0, <1>1, <2>2
    <3>2. p \notin G <=> R[p].refs \subseteq ResolvableIds(R) \cup artifacts
      BY <2>2 DEF HasDangling
    <3>. QED  BY <1>6, <3>1, <3>2
  <2>. QED  BY <2>1, <2>2 DEF Sound
<1>8. {d.path : d \in x.docs} = {p \in Paths : Sound(p)}
  <2>1. {d.path : d \in x.docs} = Resolvable(R) \ G
    BY IndexedPaths
  <2>. QED  BY <1>0, <1>7, <2>1
<1>9. {d.path : d \in x.issues} = {p \in Paths : corpus[p] # Absent /\ ~Sound(p)}
  <2>1. {d.path : d \in Drafts(F, R, G)} = F \ (Resolvable(R) \ G)
    BY RejectedPaths
  <2>2. {d.path : d \in x.issues} = F \ (Resolvable(R) \ G)
    BY <2>1, Zenon
  <2>. QED  BY <1>0, <1>7, <2>2
<1>10. ASSUME NEW d \in x.docs  PROVE [id |-> d.id, refs |-> d.refs] = corpus[d.path]
  <2>1. PICK p \in Resolvable(R) \ G :
          d = [path |-> p, id |-> R[p].id, refs |-> R[p].refs]
    BY RowIs
  <2>2. corpus[p] \in [id : Ids, refs : SUBSET (Ids \cup Artifacts)] /\ R[p] = corpus[p]
    BY <1>0, <1>1, DocsHaveTargets
  <2>. QED  BY <2>1, <2>2
<1>. QED  BY <1>8, <1>9, <1>10 DEF Exact

--------------------------------------------------------------------------------
(* The inductive invariant *)

(* A run keeps its number to itself, is told of no end while it is under   *)
(* way, has notified nobody before it committed, and holds the write lock  *)
(* exactly while it writes.                                                *)
RunsInv ==
  /\ source <= runs
  /\ \A n \in told : n <= runs
  /\ \A n \in notices : n.run <= runs
  /\ \A i \in Indexers :
       /\ nr[i] <= runs
       /\ pc[i] # "idle" => nr[i] # 0 /\ nr[i] \notin told
       /\ pc[i] = "write" <=> lock = i
       /\ pc[i] \in {"read", "check", "write"} => \A n \in notices : n.run # nr[i]
  /\ \A i, j \in Indexers : nr[i] = nr[j] /\ nr[i] # 0 => i = j

(* What a run has read is what it has taken off its list.                  *)
Known(i) == {p \in Paths : read[i][p] # Unread}

ReadInv(i) ==
  /\ pc[i] = "read" =>
       /\ todo[i] \subseteq Remaining(found[i])
       /\ Known(i) = Remaining(found[i]) \ todo[i]
       /\ dangling[i] = {}
  /\ pc[i] \in {"check", "write", "notify"} => Known(i) = Remaining(found[i])

(* A document it has checked and did not reject has only relations to      *)
(* documents of the resolvable set, whatever artifacts came and went.      *)
Unchecked(i) == IF pc[i] = "check" THEN todo[i] ELSE {}

CheckInv(i) ==
  pc[i] \in {"check", "write", "notify"} =>
    /\ Unchecked(i) \subseteq Resolvable(read[i])
    /\ dangling[i] \subseteq Resolvable(read[i]) \ Unchecked(i)
    /\ \A p \in Resolvable(read[i]) \ (Unchecked(i) \cup dangling[i]), r \in Ids :
         r \in read[i][p].refs => r \in ResolvableIds(read[i])

(* While nothing is edited, what it has read and rejected is what the      *)
(* project says.                                                           *)
QuietInv(i) ==
  quiet[i] =>
    /\ pc[i] \in {"read", "check", "write"} =>
         \A p \in Paths :
           /\ p \in found[i] <=> corpus[p] # Absent
           /\ read[i][p] # Unread => read[i][p] = corpus[p]
    /\ pc[i] \in {"check", "write"} =>
         \A p \in Resolvable(read[i]) \ Unchecked(i) :
           p \in dangling[i] <=>
             HasDangling(read[i][p], ResolvableIds(read[i]), artifacts)

(* Of the drafts it committed, the ones off its list are notified.         *)
NoticeOf(i, d) ==
  [run |-> nr[i], path |-> d.path, phase |-> d.phase, level |-> Level(read[i], d),
   id |-> IF d.phase \in {Duplicate, Dangling} THEN read[i][d.path].id ELSE Absent]

NoticeInv(i) ==
  pc[i] = "notify" =>
    /\ marked[nr[i]] = RunDrafts(i)
    /\ todo[i] \subseteq {d.path : d \in RunDrafts(i)}
    /\ \A d \in RunDrafts(i) : d.path \notin todo[i] => NoticeOf(i, d) \in notices
    /\ source = nr[i] => index.docs = DocRows(read[i], dangling[i])

RunInv(i) == ReadInv(i) /\ CheckInv(i) /\ QuietInv(i) /\ NoticeInv(i)

IInv ==
  /\ TypeOK
  /\ RunsInv
  /\ \A i \in Indexers : RunInv(i)
  /\ NoticesAreMarked
  /\ CurrentUnlessEdited
  /\ LostTargetsReported

(* What a run commits or notifies is what the lemmas above speak of.       *)
LEMMA RunReadThrough ==
  ASSUME IInv, NEW i \in Indexers, pc[i] \in {"check", "write", "notify"}
  PROVE  ReadThrough(found[i], read[i], dangling[i])
<1>1. found[i] \in SUBSET Paths /\ read[i] \in [Paths -> Docs \cup {Broken, Unread}]
  BY DEF IInv, TypeOK
<1>2. {p \in Paths : read[i][p] # Unread} = Remaining(found[i])
  BY DEF IInv, RunInv, ReadInv, Known
<1>3. dangling[i] \subseteq Resolvable(read[i])
  BY DEF IInv, RunInv, CheckInv
<1>. QED  BY <1>1, <1>2, <1>3 DEF ReadThrough

LEMMA InitIInv == Init => IInv
<1>. SUFFICES ASSUME Init  PROVE IInv
  OBVIOUS
<1>1. TypeOK
  <2>1. \A i \in Indexers : read[i] \in [Paths -> Docs \cup {Broken, Unread}]
    BY DEF Init, Nothing
  <2>2. index \in Register!Index
    BY DEF Init, Register!Index
  <2>. QED  BY <2>1, <2>2, BoundsAreNat DEF Init, TypeOK
<1>2. RunsInv
  BY BoundsAreNat, NoOneIsNoIndexer DEF Init, RunsInv
<1>3. \A i \in Indexers : RunInv(i)
  BY DEF Init, RunInv, ReadInv, CheckInv, QuietInv, NoticeInv
<1>4. NoticesAreMarked /\ CurrentUnlessEdited /\ LostTargetsReported
  BY DEF Init, NoticesAreMarked, CurrentUnlessEdited, LostTargetsReported
<1>. QED  BY <1>1, <1>2, <1>3, <1>4 DEF IInv

--------------------------------------------------------------------------------
(* The runs that do not move *)

(* A run keeps its part of the invariant while its own memory stays, if    *)
(* the project is edited only when it is told so, what it marked and what  *)
(* is notified stays, and the tables hold its index as long as they hold   *)
(* that of its run.                                                        *)
Still(j) ==
  /\ pc'[j] = pc[j] /\ nr'[j] = nr[j] /\ found'[j] = found[j]
  /\ todo'[j] = todo[j] /\ read'[j] = read[j] /\ dangling'[j] = dangling[j]
  /\ quiet'[j] => quiet[j] /\ corpus' = corpus /\ artifacts' = artifacts

LEMMA StillRunKeeps ==
  ASSUME NEW j \in Indexers, RunInv(j), Still(j),
         notices \subseteq notices',
         pc[j] = "notify" => marked'[nr[j]] = marked[nr[j]],
         (index' = index /\ source' = source) \/ source' # nr[j]
  PROVE  RunInv(j)'
<1>. USE DEF Still
<1>1. ReadInv(j)'
  BY DEF RunInv, ReadInv, Known
<1>2. CheckInv(j)'
  BY DEF RunInv, CheckInv, Unchecked
<1>3. QuietInv(j)'
  BY DEF RunInv, QuietInv, Unchecked
<1>4. NoticeInv(j)'
  <2>1. RunDrafts(j)' = RunDrafts(j)
    BY DEF RunDrafts
  <2>2. \A d : NoticeOf(j, d)' = NoticeOf(j, d)
    BY DEF NoticeOf
  <2>. QED  BY <2>1, <2>2 DEF RunInv, NoticeInv
<1>. QED  BY <1>1, <1>2, <1>3, <1>4 DEF RunInv

(* The index a reader of docs/ would define depends on the project only.   *)
LEMMA ExactKept ==
  ASSUME corpus' = corpus, artifacts' = artifacts, index' = index, Exact(index)
  PROVE  Exact(index)'
BY DEF Exact, Sound, Sole, Declares, Placed

LEMMA TablesStill ==
  ASSUME IInv,
         UNCHANGED <<index, source, notices, marked, told, nr>>,
         \A j \in Indexers : quiet'[j] =>
           quiet[j] /\ corpus' = corpus /\ artifacts' = artifacts
  PROVE  NoticesAreMarked' /\ CurrentUnlessEdited' /\ LostTargetsReported'
<1>1. NoticesAreMarked' /\ LostTargetsReported'
  BY DEF IInv, NoticesAreMarked, LostTargetsReported
<1>2. CurrentUnlessEdited'
  <2>. SUFFICES ASSUME NEW j \in Indexers, source # 0, nr[j] = source, quiet'[j]
                PROVE  Exact(index)'
    BY DEF CurrentUnlessEdited
  <2>. QED  BY ExactKept DEF IInv, CurrentUnlessEdited
<1>. QED  BY <1>1, <1>2

--------------------------------------------------------------------------------
(* The steps *)

(* An edit takes from every run that nothing was edited, and nothing else. *)
LEMMA EditKeeps ==
  ASSUME IInv,
         corpus' \in [Paths -> Docs \cup {Broken, Absent}],
         artifacts' \in SUBSET Artifacts,
         edits' \in 0 .. MaxEdits,
         quiet' = [i \in Indexers |-> FALSE],
         UNCHANGED <<database, runs, pc, nr, found, todo, read, dangling>>
  PROVE  IInv'
<1>. USE DEF database
<1>1. TypeOK'
  BY DEF IInv, TypeOK
<1>2. RunsInv'
  BY DEF IInv, RunsInv
<1>3. ASSUME NEW j \in Indexers  PROVE RunInv(j)'
  <2>1. RunInv(j) /\ Still(j)
    BY DEF IInv, Still
  <2>. QED  BY <2>1, StillRunKeeps
<1>4. NoticesAreMarked' /\ CurrentUnlessEdited' /\ LostTargetsReported'
  BY TablesStill
<1>. QED  BY <1>1, <1>2, <1>3, <1>4 DEF IInv

LEMMA EditDocumentKeeps ==
  ASSUME IInv, NEW p \in Paths, NEW f \in Docs \cup {Broken, Absent},
         EditDocument(p, f)
  PROVE  IInv'
<1>1. /\ corpus' \in [Paths -> Docs \cup {Broken, Absent}]
      /\ artifacts' \in SUBSET Artifacts
      /\ edits' \in 0 .. MaxEdits
  BY BoundsAreNat DEF IInv, TypeOK, EditDocument
<1>. QED  BY <1>1, EditKeeps DEF EditDocument

LEMMA ToggleArtifactKeeps ==
  ASSUME IInv, NEW a \in Artifacts, ToggleArtifact(a)
  PROVE  IInv'
<1>1. /\ corpus' \in [Paths -> Docs \cup {Broken, Absent}]
      /\ artifacts' \in SUBSET Artifacts
      /\ edits' \in 0 .. MaxEdits
  BY BoundsAreNat DEF IInv, TypeOK, ToggleArtifact
<1>. QED  BY <1>1, EditKeeps DEF ToggleArtifact

(* A new run has a number that nothing knows yet.                          *)
LEMMA WalkKeeps ==
  ASSUME IInv, NEW i \in Indexers, Walk(i)
  PROVE  IInv'
<1>. DEFINE paths == {p \in Paths : corpus[p] # Absent}
<1>0. /\ runs \in 0 .. MaxRuns /\ runs < MaxRuns /\ runs' = runs + 1
      /\ Remaining(paths) \subseteq paths /\ paths \subseteq Paths
      /\ UNCHANGED <<corpus, artifacts, edits, index, source, notices, marked, told, lock>>
  BY DEF IInv, TypeOK, Walk, Remaining, environment, database
<1>1. TypeOK'
  <2>1. /\ pc' \in [Indexers -> {"idle", "read", "check", "write", "notify"}]
        /\ nr' \in [Indexers -> 0 .. MaxRuns]
        /\ quiet' \in [Indexers -> BOOLEAN]
    BY <1>0, BoundsAreNat DEF IInv, TypeOK, Walk
  <2>2. /\ found' \in [Indexers -> SUBSET Paths]
        /\ todo' \in [Indexers -> SUBSET Paths]
        /\ dangling' \in [Indexers -> SUBSET Paths]
    BY <1>0 DEF IInv, TypeOK, Walk
  <2>3. read' \in [Indexers -> [Paths -> Docs \cup {Broken, Unread}]]
    <3>1. Nothing \in [Paths -> Docs \cup {Broken, Unread}]
      BY DEF Nothing
    <3>. QED  BY <3>1 DEF IInv, TypeOK, Walk
  <2>. QED  BY <1>0, <2>1, <2>2, <2>3, BoundsAreNat DEF IInv, TypeOK
<1>2. RunsInv'
  <2>1. \A n \in told : n \in Nat /\ n <= runs
    BY DEF IInv, TypeOK, RunsInv
  <2>2. \A n \in notices : n.run \in Nat /\ n.run <= runs
    BY DEF IInv, TypeOK, RunsInv, Notice
  <2>3. \A j \in Indexers : nr[j] \in Nat /\ nr[j] <= runs
    BY DEF IInv, TypeOK, RunsInv
  <2>4. lock # i
    BY DEF IInv, RunsInv, Walk
  <2>. QED  BY <1>0, <2>1, <2>2, <2>3, <2>4 DEF IInv, TypeOK, RunsInv, Walk
<1>3. ASSUME NEW j \in Indexers  PROVE RunInv(j)'
  <2>1. CASE j # i
    <3>1. RunInv(j) /\ Still(j)
      BY <1>0, <2>1 DEF IInv, TypeOK, Still, Walk
    <3>. QED  BY <1>0, <3>1, StillRunKeeps
  <2>2. CASE j = i
    <3>1. /\ pc'[i] = "read" /\ found'[i] = paths /\ todo'[i] = Remaining(paths)
          /\ read'[i] = Nothing /\ dangling'[i] = {}
      BY DEF IInv, TypeOK, Walk
    <3>2. ReadInv(i)'
      BY <3>1 DEF ReadInv, Known, Nothing
    <3>3. CheckInv(i)' /\ NoticeInv(i)'
      BY <3>1 DEF CheckInv, NoticeInv
    <3>4. QuietInv(i)'
      BY <1>0, <3>1 DEF QuietInv, Nothing
    <3>. QED  BY <2>2, <3>2, <3>3, <3>4 DEF RunInv
  <2>. QED  BY <2>1, <2>2
<1>4. NoticesAreMarked' /\ LostTargetsReported'
  BY <1>0 DEF IInv, NoticesAreMarked, LostTargetsReported
<1>5. CurrentUnlessEdited'
  <2>. SUFFICES ASSUME NEW j \in Indexers, source # 0, nr'[j] = source, quiet'[j]
                PROVE  Exact(index)'
    BY <1>0 DEF CurrentUnlessEdited
  <2>1. j # i
    BY <1>0 DEF IInv, TypeOK, RunsInv, Walk
  <2>2. nr[j] = source /\ quiet[j]
    BY <2>1 DEF IInv, TypeOK, Walk
  <2>. QED  BY <1>0, <2>2, ExactKept DEF IInv, CurrentUnlessEdited
<1>. QED  BY <1>1, <1>2, <1>3, <1>4, <1>5 DEF IInv

LEMMA ReadKeeps ==
  ASSUME IInv, NEW i \in Indexers, Read(i)
  PROVE  IInv'
<1>. DEFINE p == Least(todo[i])
            text == IF corpus[p] = Absent THEN Broken ELSE corpus[p]
<1>0. /\ p \in todo[i] /\ p \in Paths
      /\ UNCHANGED <<corpus, artifacts, edits, index, source, notices, marked, told,
                     lock, runs, pc, nr, found, dangling, quiet>>
  <2>1. todo[i] \in SUBSET Paths /\ todo[i] # {}
    BY DEF IInv, TypeOK, Read
  <2>. QED  BY <2>1, LeastIsAMember DEF Read, environment, database
<1>. HIDE DEF p
<1>00. /\ pc[i] = "read"
       /\ todo' = [todo EXCEPT ![i] = @ \ {p}]
       /\ read' = [read EXCEPT ![i] = [read[i] EXCEPT ![p] = text]]
       /\ text \in Docs \cup {Broken} /\ text # Unread
       /\ corpus[p] # Absent => text = corpus[p]
  BY <1>0, DistinctMarks DEF Read, p, IInv, TypeOK
<1>. HIDE DEF text
<1>1. TypeOK'
  <2>1. todo' \in [Indexers -> SUBSET Paths]
    BY <1>00 DEF IInv, TypeOK
  <2>2. read' \in [Indexers -> [Paths -> Docs \cup {Broken, Unread}]]
    <3>1. read[i] \in [Paths -> Docs \cup {Broken, Unread}]
      BY DEF IInv, TypeOK
    <3>2. [read[i] EXCEPT ![p] = text] \in [Paths -> Docs \cup {Broken, Unread}]
      BY <1>00, <3>1
    <3>. QED  BY <1>00, <3>2 DEF IInv, TypeOK
  <2>. QED  BY <1>0, <2>1, <2>2 DEF IInv, TypeOK
<1>2. RunsInv'
  BY <1>0 DEF IInv, RunsInv
<1>3. ASSUME NEW j \in Indexers  PROVE RunInv(j)'
  <2>1. CASE j # i
    <3>1. RunInv(j) /\ Still(j)
      BY <1>0, <1>00, <2>1 DEF IInv, TypeOK, Still
    <3>. QED  BY <1>0, <3>1, StillRunKeeps
  <2>2. CASE j = i
    <3>1. /\ pc'[i] = "read" /\ todo'[i] = todo[i] \ {p}
          /\ \A q \in Paths : read'[i][q] = IF q = p THEN text ELSE read[i][q]
      BY <1>0, <1>00 DEF IInv, TypeOK
    <3>2. /\ todo[i] \subseteq Remaining(found[i])
          /\ Known(i) = Remaining(found[i]) \ todo[i]
          /\ dangling[i] = {}
      BY <1>00 DEF IInv, RunInv, ReadInv
    <3>3. ReadInv(i)'
      BY <1>0, <1>00, <3>1, <3>2 DEF ReadInv, Known
    <3>4. CheckInv(i)' /\ NoticeInv(i)'
      BY <3>1 DEF CheckInv, NoticeInv
    <3>5. QuietInv(i)'
      <4>1. p \in found[i]
        BY <1>0, <3>2 DEF Remaining
      <4>2. QuietInv(i)
        BY DEF IInv, RunInv
      <4>. QED  BY <1>0, <1>00, <3>1, <4>1, <4>2 DEF QuietInv
    <3>. QED  BY <2>2, <3>3, <3>4, <3>5 DEF RunInv
  <2>. QED  BY <2>1, <2>2
<1>4. NoticesAreMarked' /\ CurrentUnlessEdited' /\ LostTargetsReported'
  BY <1>0, TablesStill
<1>. QED  BY <1>1, <1>2, <1>3, <1>4 DEF IInv

LEMMA GroupKeeps ==
  ASSUME IInv, NEW i \in Indexers, Group(i)
  PROVE  IInv'
<1>0. /\ Resolvable(read[i]) \subseteq Candidates(read[i])
      /\ Resolvable(read[i]) \subseteq Paths
      /\ UNCHANGED <<corpus, artifacts, edits, index, source, notices, marked, told,
                     lock, runs, nr, found, read, dangling, quiet>>
  BY DEF Group, Resolvable, Candidates, environment, database
<1>1. TypeOK'
  BY <1>0 DEF IInv, TypeOK, Group
<1>2. RunsInv'
  <2>1. pc' = [pc EXCEPT ![i] = "check"] /\ pc[i] = "read"
    BY DEF Group
  <2>. QED  BY <1>0, <2>1 DEF IInv, TypeOK, RunsInv
<1>3. ASSUME NEW j \in Indexers  PROVE RunInv(j)'
  <2>1. CASE j # i
    <3>1. RunInv(j) /\ Still(j)
      BY <1>0, <2>1 DEF IInv, TypeOK, Still, Group
    <3>. QED  BY <1>0, <3>1, StillRunKeeps
  <2>2. CASE j = i
    <3>1. /\ pc[i] = "read" /\ todo[i] = {}
          /\ pc'[i] = "check" /\ todo'[i] = Resolvable(read[i])
      BY DEF IInv, TypeOK, Group
    <3>2. Known(i) = Remaining(found[i]) /\ dangling[i] = {}
      BY <3>1 DEF IInv, RunInv, ReadInv
    <3>3. ReadInv(i)'
      BY <1>0, <3>1, <3>2 DEF ReadInv, Known
    <3>4. Unchecked(i)' = Resolvable(read'[i])
      BY <1>0, <3>1 DEF Unchecked
    <3>5. CheckInv(i)'
      BY <1>0, <3>2, <3>4 DEF CheckInv
    <3>6. QuietInv(i)'
      BY <1>0, <3>1, <3>4 DEF IInv, RunInv, QuietInv
    <3>7. NoticeInv(i)'
      BY <3>1 DEF NoticeInv
    <3>. QED  BY <2>2, <3>3, <3>5, <3>6, <3>7 DEF RunInv
  <2>. QED  BY <2>1, <2>2
<1>4. NoticesAreMarked' /\ CurrentUnlessEdited' /\ LostTargetsReported'
  BY <1>0, TablesStill
<1>. QED  BY <1>1, <1>2, <1>3, <1>4 DEF IInv

(* The check may see other artifacts than those that exist later, but the  *)
(* documents it resolves against are fixed.                                *)
LEMMA CheckKeeps ==
  ASSUME IInv, NEW i \in Indexers, Check(i)
  PROVE  IInv'
<1>. DEFINE p == Least(todo[i])
            lost == HasDangling(read[i][p], ResolvableIds(read[i]), artifacts)
<1>0. /\ p \in todo[i] /\ p \in Paths
      /\ UNCHANGED <<corpus, artifacts, edits, index, source, notices, marked, told,
                     lock, runs, pc, nr, found, read, quiet>>
  <2>1. todo[i] \in SUBSET Paths /\ todo[i] # {}
    BY DEF IInv, TypeOK, Check
  <2>. QED  BY <2>1, LeastIsAMember DEF Check, environment, database
<1>00. /\ pc[i] = "check"
       /\ todo' = [todo EXCEPT ![i] = @ \ {p}]
       /\ dangling' = [dangling EXCEPT ![i] = IF lost THEN @ \cup {p} ELSE @]
  BY DEF Check
<1>. HIDE DEF p
<1>1. TypeOK'
  <2>1. todo' \in [Indexers -> SUBSET Paths]
    BY <1>00 DEF IInv, TypeOK
  <2>2. dangling' \in [Indexers -> SUBSET Paths]
    BY <1>0, <1>00 DEF IInv, TypeOK
  <2>. QED  BY <1>0, <2>1, <2>2 DEF IInv, TypeOK
<1>2. RunsInv'
  BY <1>0 DEF IInv, RunsInv
<1>3. ASSUME NEW j \in Indexers  PROVE RunInv(j)'
  <2>1. CASE j # i
    <3>1. RunInv(j) /\ Still(j)
      BY <1>0, <1>00, <2>1 DEF IInv, TypeOK, Still
    <3>. QED  BY <1>0, <3>1, StillRunKeeps
  <2>2. CASE j = i
    <3>1. /\ pc'[i] = "check" /\ todo'[i] = todo[i] \ {p}
          /\ dangling'[i] = IF lost THEN dangling[i] \cup {p} ELSE dangling[i]
      BY <1>0, <1>00 DEF IInv, TypeOK
    <3>2. Unchecked(i) = todo[i] /\ Unchecked(i)' = todo[i] \ {p}
      BY <1>00, <3>1 DEF Unchecked
    <3>3. /\ todo[i] \subseteq Resolvable(read[i])
          /\ dangling[i] \subseteq Resolvable(read[i]) \ todo[i]
          /\ \A q \in Resolvable(read[i]) \ (todo[i] \cup dangling[i]), r \in Ids :
               r \in read[i][q].refs => r \in ResolvableIds(read[i])
      BY <1>00, <3>2 DEF IInv, RunInv, CheckInv
    <3>4. ReadInv(i)'
      BY <1>0, <1>00, <3>1 DEF IInv, RunInv, ReadInv, Known
    <3>5. CheckInv(i)'
      <4>1. ~lost => \A r \in Ids : r \in read[i][p].refs => r \in ResolvableIds(read[i])
        BY TargetsTellApart DEF HasDangling, IInv, TypeOK
      <4>. HIDE DEF lost
      <4>2. /\ todo[i] \ {p} \subseteq Resolvable(read[i])
            /\ dangling'[i] \subseteq Resolvable(read[i]) \ (todo[i] \ {p})
        BY <1>0, <3>1, <3>3
      <4>3. \A q \in Resolvable(read[i]) \ ((todo[i] \ {p}) \cup dangling'[i]), r \in Ids :
              r \in read[i][q].refs => r \in ResolvableIds(read[i])
        BY <3>1, <3>3, <4>1
      <4>. QED  BY <1>0, <3>2, <4>2, <4>3 DEF CheckInv
    <3>6. QuietInv(i)'
      <4>1. QuietInv(i)
        BY DEF IInv, RunInv
      <4>2. quiet[i] => \A q \in Resolvable(read[i]) \ todo[i] :
              q \in dangling[i] <=>
                HasDangling(read[i][q], ResolvableIds(read[i]), artifacts)
        BY <1>00, <3>2, <4>1 DEF QuietInv
      <4>3. quiet[i] => \A q \in Resolvable(read[i]) \ (todo[i] \ {p}) :
              q \in dangling'[i] <=>
                HasDangling(read[i][q], ResolvableIds(read[i]), artifacts)
        BY <1>0, <3>1, <3>3, <4>2
      <4>. QED  BY <1>0, <1>00, <3>1, <3>2, <4>1, <4>3 DEF QuietInv
    <3>7. NoticeInv(i)'
      BY <3>1 DEF NoticeInv
    <3>. QED  BY <2>2, <3>4, <3>5, <3>6, <3>7 DEF RunInv
  <2>. QED  BY <2>1, <2>2
<1>4. NoticesAreMarked' /\ CurrentUnlessEdited' /\ LostTargetsReported'
  BY <1>0, TablesStill
<1>. QED  BY <1>1, <1>2, <1>3, <1>4 DEF IInv

LEMMA BeginKeeps ==
  ASSUME IInv, NEW i \in Indexers, Begin(i)
  PROVE  IInv'
<1>0. UNCHANGED <<corpus, artifacts, edits, index, source, notices, marked, told, runs,
                  nr, found, todo, read, dangling, quiet>>
  BY DEF Begin, environment
<1>1. TypeOK'
  BY <1>0 DEF IInv, TypeOK, Begin
<1>2. RunsInv'
  <2>1. /\ pc' = [pc EXCEPT ![i] = "write"] /\ pc[i] = "check"
        /\ lock = NoOne /\ lock' = i
    BY DEF Begin
  <2>. QED  BY <1>0, <2>1, NoOneIsNoIndexer DEF IInv, TypeOK, RunsInv
<1>3. ASSUME NEW j \in Indexers  PROVE RunInv(j)'
  <2>1. CASE j # i
    <3>1. RunInv(j) /\ Still(j)
      BY <1>0, <2>1 DEF IInv, TypeOK, Still, Begin
    <3>. QED  BY <1>0, <3>1, StillRunKeeps
  <2>2. CASE j = i
    <3>1. pc[i] = "check" /\ todo[i] = {} /\ pc'[i] = "write"
      BY DEF IInv, TypeOK, Begin
    <3>2. Unchecked(i) = {} /\ Unchecked(i)' = {}
      BY <3>1 DEF Unchecked
    <3>3. ReadInv(i)'
      BY <1>0, <3>1 DEF IInv, RunInv, ReadInv, Known
    <3>4. CheckInv(i)'
      BY <1>0, <3>1, <3>2 DEF IInv, RunInv, CheckInv
    <3>5. QuietInv(i)'
      BY <1>0, <3>1, <3>2 DEF IInv, RunInv, QuietInv
    <3>6. NoticeInv(i)'
      BY <3>1 DEF NoticeInv
    <3>. QED  BY <2>2, <3>3, <3>4, <3>5, <3>6 DEF RunInv
  <2>. QED  BY <2>1, <2>2
<1>4. NoticesAreMarked' /\ CurrentUnlessEdited' /\ LostTargetsReported'
  BY <1>0, TablesStill
<1>. QED  BY <1>1, <1>2, <1>3, <1>4 DEF IInv

(* A run that ends in an error or is killed leaves the tables alone.       *)
LEMMA AbortKeeps ==
  ASSUME IInv, NEW i \in Indexers, Abort(i)
  PROVE  IInv'
<1>0. UNCHANGED <<corpus, artifacts, edits, index, source, notices, marked, told, runs,
                  nr, found, todo, read, dangling, quiet>>
  BY DEF Abort, environment
<1>1. TypeOK'
  BY <1>0 DEF IInv, TypeOK, Abort
<1>2. RunsInv'
  <2>1. /\ pc' = [pc EXCEPT ![i] = "idle"]
        /\ lock' = IF lock = i THEN NoOne ELSE lock
    BY DEF Abort
  <2>. QED  BY <1>0, <2>1, NoOneIsNoIndexer DEF IInv, TypeOK, RunsInv
<1>3. ASSUME NEW j \in Indexers  PROVE RunInv(j)'
  <2>1. CASE j # i
    <3>1. RunInv(j) /\ Still(j)
      BY <1>0, <2>1 DEF IInv, TypeOK, Still, Abort
    <3>. QED  BY <1>0, <3>1, StillRunKeeps
  <2>2. CASE j = i
    <3>1. pc'[i] = "idle"
      BY DEF IInv, TypeOK, Abort
    <3>. QED  BY <2>2, <3>1 DEF RunInv, ReadInv, CheckInv, QuietInv, NoticeInv
  <2>. QED  BY <2>1, <2>2
<1>4. NoticesAreMarked' /\ CurrentUnlessEdited' /\ LostTargetsReported'
  BY <1>0, TablesStill
<1>. QED  BY <1>1, <1>2, <1>3, <1>4 DEF IInv

(* What Commit does to the tables and to the run.                          *)
LEMMA CommitEffect ==
  ASSUME IInv, NEW i \in Indexers, Commit(i)
  PROVE  /\ pc[i] = "write" /\ nr[i] \in 1 .. MaxRuns /\ nr[i] <= runs
         /\ ReadThrough(found[i], read[i], dangling[i])
         /\ index' = [docs |-> DocRows(read[i], dangling[i]), issues |-> RunDrafts(i)]
         /\ index' \in Register!Index
         /\ Register!WellFormed(index')
         /\ RunDrafts(i) \subseteq Draft
         /\ quiet[i] => Exact(index')
<1>0. pc[i] = "write"
  BY DEF Commit
<1>1. nr[i] \in 1 .. MaxRuns /\ nr[i] <= runs
  BY <1>0, BoundsAreNat DEF IInv, TypeOK, RunsInv
<1>2. ReadThrough(found[i], read[i], dangling[i])
  BY <1>0, RunReadThrough
<1>3. index' = [docs   |-> DocRows(read[i], dangling[i]),
                issues |-> Drafts(found[i], read[i], dangling[i])]
  BY DEF Commit, RunDrafts
<1>4. index' \in Register!Index /\ Register!WellFormed(index')
  BY <1>2, <1>3, CommitsAnIndex
<1>5. Drafts(found[i], read[i], dangling[i]) \subseteq Draft
  BY <1>2, DraftsTyped
<1>6. ASSUME quiet[i]  PROVE Exact(index')
  <2>1. /\ \A p \in Paths : p \in found[i] <=> corpus[p] # Absent
        /\ \A p \in Paths : read[i][p] # Unread => read[i][p] = corpus[p]
        /\ \A p \in Resolvable(read[i]) :
             p \in dangling[i] <=>
               HasDangling(read[i][p], ResolvableIds(read[i]), artifacts)
    <3>1. QuietInv(i) /\ Unchecked(i) = {}
      BY <1>0 DEF IInv, RunInv, Unchecked
    <3>. QED  BY <1>0, <1>6, <3>1 DEF QuietInv
  <2>2. /\ corpus \in [Paths -> Docs \cup {Broken, Absent}]
        /\ artifacts \in SUBSET Artifacts
    BY DEF IInv, TypeOK
  <2>3. /\ index'.docs = DocRows(read[i], dangling[i])
        /\ index'.issues = Drafts(found[i], read[i], dangling[i])
    BY <1>3
  <2>. QED  BY <1>2, <2>1, <2>2, <2>3, ExactWhenSeen
<1>. QED  BY <1>0, <1>1, <1>2, <1>3, <1>4, <1>5, <1>6 DEF RunDrafts

LEMMA CommitKeeps ==
  ASSUME IInv, NEW i \in Indexers, Commit(i)
  PROVE  IInv'
<1>0. /\ pc[i] = "write" /\ nr[i] \in 1 .. MaxRuns /\ nr[i] <= runs
      /\ index' = [docs |-> DocRows(read[i], dangling[i]), issues |-> RunDrafts(i)]
      /\ index' \in Register!Index
      /\ RunDrafts(i) \subseteq Draft
      /\ quiet[i] => Exact(index')
  BY CommitEffect
<1>00. /\ source' = nr[i]
       /\ marked' = [marked EXCEPT ![nr[i]] = RunDrafts(i)]
       /\ lock' = NoOne
       /\ pc' = [pc EXCEPT ![i] = "notify"]
       /\ todo' = [todo EXCEPT ![i] = {d.path : d \in RunDrafts(i)}]
       /\ UNCHANGED <<corpus, artifacts, edits, notices, told, runs, nr, found, read,
                      dangling, quiet>>
  BY DEF Commit, environment
<1>1. TypeOK'
  <2>1. {d.path : d \in RunDrafts(i)} \subseteq Paths
    BY <1>0 DEF Draft
  <2>2. todo' \in [Indexers -> SUBSET Paths]
    BY <1>00, <2>1 DEF IInv, TypeOK
  <2>3. marked' \in [1 .. MaxRuns -> SUBSET Draft]
    BY <1>0, <1>00 DEF IInv, TypeOK
  <2>4. source' \in 0 .. MaxRuns /\ lock' \in Indexers \cup {NoOne}
    BY <1>0, <1>00, BoundsAreNat
  <2>5. pc' \in [Indexers -> {"idle", "read", "check", "write", "notify"}]
    BY <1>00 DEF IInv, TypeOK
  <2>. QED  BY <1>0, <1>00, <2>2, <2>3, <2>4, <2>5 DEF IInv, TypeOK
<1>2. RunsInv'
  <2>1. lock = i
    BY <1>0 DEF IInv, RunsInv
  <2>. QED  BY <1>0, <1>00, <2>1, NoOneIsNoIndexer DEF IInv, TypeOK, RunsInv
<1>3. ASSUME NEW j \in Indexers  PROVE RunInv(j)'
  <2>1. CASE j # i
    <3>1. RunInv(j) /\ Still(j)
      BY <1>00, <2>1 DEF IInv, TypeOK, Still
    <3>2. pc[j] = "notify" => nr[j] # nr[i]
      BY <2>1 DEF IInv, RunsInv
    <3>3. pc[j] = "notify" => marked'[nr[j]] = marked[nr[j]] /\ source' # nr[j]
      BY <1>0, <1>00, <3>2, BoundsAreNat DEF IInv, TypeOK, RunsInv
    <3>4. CASE pc[j] = "notify"
      BY <1>00, <3>1, <3>3, <3>4, StillRunKeeps
    <3>5. CASE pc[j] # "notify"
      <4>1. nr[j] # nr[i]
        BY <1>0, <2>1 DEF IInv, RunsInv
      <4>. QED  BY <1>00, <3>1, <3>5, <4>1, StillRunKeeps
    <3>. QED  BY <3>4, <3>5
  <2>2. CASE j = i
    <3>1. /\ pc'[i] = "notify" /\ todo'[i] = {d.path : d \in RunDrafts(i)}
          /\ marked'[nr[i]] = RunDrafts(i)
      BY <1>0, <1>00 DEF IInv, TypeOK
    <3>2. Unchecked(i) = {} /\ Unchecked(i)' = {}
      BY <1>0, <3>1 DEF Unchecked
    <3>3. RunDrafts(i)' = RunDrafts(i)
      BY <1>00 DEF RunDrafts
    <3>4. ReadInv(i)'
      BY <1>0, <1>00, <3>1 DEF IInv, RunInv, ReadInv, Known
    <3>5. CheckInv(i)'
      BY <1>0, <1>00, <3>1, <3>2 DEF IInv, RunInv, CheckInv
    <3>6. QuietInv(i)'
      BY <3>1 DEF QuietInv
    <3>7. NoticeInv(i)'
      BY <1>0, <1>00, <3>1, <3>3 DEF NoticeInv
    <3>. QED  BY <2>2, <3>4, <3>5, <3>6, <3>7 DEF RunInv
  <2>. QED  BY <2>1, <2>2
<1>4. NoticesAreMarked'
  <2>1. \A n \in notices : n.run # nr[i]
    BY <1>0 DEF IInv, RunsInv
  <2>2. \A n \in notices : n.run \in 1 .. MaxRuns
    BY DEF IInv, TypeOK, Notice
  <2>. QED  BY <1>00, <2>1, <2>2 DEF IInv, TypeOK, NoticesAreMarked
<1>5. CurrentUnlessEdited'
  <2>. SUFFICES ASSUME NEW j \in Indexers, nr[j] = nr[i], quiet[j]
                PROVE  Exact(index)'
    BY <1>00 DEF CurrentUnlessEdited
  <2>1. j = i
    BY <1>0 DEF IInv, RunsInv
  <2>2. Exact(index')
    BY <1>0, <2>1
  <2>. QED  BY <1>00, <2>2 DEF Exact, Sound, Sole, Declares, Placed
<1>6. LostTargetsReported'
  <2>1. nr[i] \notin told
    BY <1>0 DEF IInv, RunsInv
  <2>. QED  BY <1>00, <2>1 DEF LostTargetsReported
<1>. QED  BY <1>1, <1>2, <1>3, <1>4, <1>5, <1>6 DEF IInv

(* The draft that Notify takes is one of those the run committed.          *)
LEMMA NotifyTakes ==
  ASSUME IInv, NEW i \in Indexers, Notify(i)
  PROVE  \E d \in RunDrafts(i) :
           /\ d.path \in todo[i]
           /\ todo' = [todo EXCEPT ![i] = @ \ {d.path}]
           /\ notices' = notices \cup {NoticeOf(i, d)}
<1>. DEFINE S == {e \in RunDrafts(i) : e.path \in todo[i]}
            d == FirstDraft(S)
<1>1. pc[i] = "notify" /\ todo[i] # {}
  BY DEF Notify
<1>2. S # {}
  BY <1>1 DEF IInv, RunInv, NoticeInv
<1>3. S \in SUBSET Draft
  BY <1>1, RunReadThrough, DraftsTyped DEF RunDrafts
<1>4. d \in S
  BY <1>2, <1>3, FirstDraftIsAMember
<1>5. /\ todo' = [todo EXCEPT ![i] = @ \ {d.path}]
      /\ notices' = notices \cup {NoticeOf(i, d)}
  BY DEF Notify, NoticeOf
<1>. HIDE DEF d
<1>. QED  BY <1>4, <1>5

LEMMA NotifyKeeps ==
  ASSUME IInv, NEW i \in Indexers, Notify(i)
  PROVE  IInv'
<1>0. PICK d \in RunDrafts(i) :
           /\ d.path \in todo[i]
           /\ todo' = [todo EXCEPT ![i] = @ \ {d.path}]
           /\ notices' = notices \cup {NoticeOf(i, d)}
  BY NotifyTakes
<1>00. /\ pc[i] = "notify"
       /\ UNCHANGED <<corpus, artifacts, edits, index, source, marked, told, lock, runs,
                      pc, nr, found, read, dangling, quiet>>
  BY DEF Notify, environment
<1>01. ReadThrough(found[i], read[i], dangling[i])
  BY <1>00, RunReadThrough
<1>02. nr[i] \in 1 .. MaxRuns /\ nr[i] <= runs
  BY <1>00, BoundsAreNat DEF IInv, TypeOK, RunsInv
<1>1. TypeOK'
  <2>1. todo' \in [Indexers -> SUBSET Paths]
    BY <1>0 DEF IInv, TypeOK
  <2>2. /\ d \in Draft
        /\ d.phase \in {Duplicate, Dangling} => read[i][d.path] \in Docs
    BY <1>01, DraftsTyped DEF RunDrafts
  <2>3. Level(read[i], d) \in {"warning", "error"}
    BY DEF Level
  <2>4. d.phase \in {Duplicate, Dangling} => read[i][d.path].id \in Ids
    BY <2>2, DocsHaveTargets
  <2>5. NoticeOf(i, d) \in Notice
    BY <1>02, <2>2, <2>3, <2>4 DEF NoticeOf, Notice, Draft
  <2>. QED  BY <1>0, <1>00, <2>1, <2>5 DEF IInv, TypeOK
<1>2. RunsInv'
  <2>1. NoticeOf(i, d).run = nr[i]
    BY DEF NoticeOf
  <2>2. \A j \in Indexers : pc[j] \in {"read", "check", "write"} => nr[j] # nr[i]
    BY <1>00 DEF IInv, RunsInv
  <2>. QED  BY <1>0, <1>00, <1>02, <2>1, <2>2 DEF IInv, RunsInv
<1>3. ASSUME NEW j \in Indexers  PROVE RunInv(j)'
  <2>1. CASE j # i
    <3>1. RunInv(j) /\ Still(j)
      BY <1>0, <1>00, <2>1 DEF IInv, TypeOK, Still
    <3>. QED  BY <1>0, <1>00, <3>1, StillRunKeeps
  <2>2. CASE j = i
    <3>1. pc'[i] = "notify" /\ todo'[i] = todo[i] \ {d.path}
      BY <1>0, <1>00 DEF IInv, TypeOK
    <3>2. RunDrafts(i)' = RunDrafts(i) /\ \A e : NoticeOf(i, e)' = NoticeOf(i, e)
      BY <1>00 DEF RunDrafts, NoticeOf
    <3>3. ReadInv(i)' /\ CheckInv(i)' /\ QuietInv(i)'
      BY <1>00, <3>1
      DEF IInv, RunInv, ReadInv, Known, CheckInv, QuietInv, Unchecked
    <3>4. ASSUME NEW e \in RunDrafts(i), e.path \notin todo'[i]
          PROVE  NoticeOf(i, e) \in notices'
      <4>1. CASE e.path \notin todo[i]
        BY <1>0, <1>00, <4>1 DEF IInv, RunInv, NoticeInv
      <4>2. CASE e.path = d.path
        <5>1. e = d
          BY <1>01, <4>2, DraftsOnePerPath DEF RunDrafts
        <5>. QED  BY <1>0, <5>1
      <4>. QED  BY <3>1, <3>4, <4>1, <4>2
    <3>5. NoticeInv(i)'
      BY <1>00, <3>1, <3>2, <3>4 DEF IInv, RunInv, NoticeInv
    <3>. QED  BY <2>2, <3>3, <3>5 DEF RunInv
  <2>. QED  BY <2>1, <2>2
<1>4. NoticesAreMarked'
  <2>1. marked[nr[i]] = RunDrafts(i)
    BY <1>00 DEF IInv, RunInv, NoticeInv
  <2>2. d \in Draft
    BY <1>01, DraftsTyped DEF RunDrafts
  <2>3. [path |-> NoticeOf(i, d).path, phase |-> NoticeOf(i, d).phase]
          \in marked[NoticeOf(i, d).run]
    BY <2>1, <2>2 DEF NoticeOf, Draft
  <2>. QED  BY <1>0, <1>00, <2>3 DEF IInv, NoticesAreMarked
<1>5. CurrentUnlessEdited'
  <2>. SUFFICES ASSUME NEW j \in Indexers, source # 0, nr[j] = source, quiet[j]
                PROVE  Exact(index)'
    BY <1>00 DEF CurrentUnlessEdited
  <2>. QED  BY <1>00, ExactKept DEF IInv, CurrentUnlessEdited
<1>6. LostTargetsReported'
  BY <1>0, <1>00 DEF IInv, LostTargetsReported
<1>. QED  BY <1>1, <1>2, <1>3, <1>4, <1>5, <1>6 DEF IInv

(* When a run has notified all it marked, the loss of every target that an *)
(* indexed document relies on was reported as an error.                    *)
LEMMA LossesReported ==
  ASSUME IInv, NEW i \in Indexers, pc[i] = "notify", todo[i] = {},
         NEW d \in DocRows(read[i], dangling[i]), NEW r \in Ids, r \in d.refs,
         \A e \in DocRows(read[i], dangling[i]) : e.id # r
  PROVE  \E n \in notices : n.run = nr[i] /\ n.id = r /\ n.level = "error"
<1>0. ReadThrough(found[i], read[i], dangling[i])
  BY RunReadThrough
<1>1. PICK p \in Resolvable(read[i]) \ dangling[i] :
        d = [path |-> p, id |-> read[i][p].id, refs |-> read[i][p].refs]
  BY RowIs
<1>2. r \in ResolvableIds(read[i])
  <2>1. Unchecked(i) = {}
    BY DEF Unchecked
  <2>. QED  BY <1>1, <2>1 DEF IInv, RunInv, CheckInv
<1>3. PICK q \in Resolvable(read[i]) : read[i][q].id = r
  BY <1>2 DEF ResolvableIds
<1>4. q \in dangling[i]
  <2>. SUFFICES ASSUME q \notin dangling[i]  PROVE FALSE
    OBVIOUS
  <2>1. [path |-> q, id |-> read[i][q].id, refs |-> read[i][q].refs]
          \in DocRows(read[i], dangling[i])
    BY RowIs
  <2>. QED  BY <1>3, <2>1
<1>. DEFINE x == [path |-> q, phase |-> Dangling]
<1>5. x \in RunDrafts(i)
  BY <1>4, DraftIs DEF RunDrafts
<1>6. NoticeOf(i, x) \in notices
  BY <1>5 DEF IInv, RunInv, NoticeInv
<1>7. p \in Dependents(read[i], r)
  BY <1>0, <1>1, PathsPartitioned DEF Dependents
<1>8. Level(read[i], x) = "error"
  BY <1>3, <1>7 DEF Level
<1>9. /\ NoticeOf(i, x).run = nr[i]
      /\ NoticeOf(i, x).id = r
      /\ NoticeOf(i, x).level = "error"
  BY <1>3, <1>8 DEF NoticeOf
<1>. QED  BY <1>6, <1>9

LEMMA ReturnKeeps ==
  ASSUME IInv, NEW i \in Indexers, Return(i)
  PROVE  IInv'
<1>0. /\ pc[i] = "notify" /\ todo[i] = {}
      /\ told' = told \cup {nr[i]}
      /\ pc' = [pc EXCEPT ![i] = "idle"]
      /\ UNCHANGED <<corpus, artifacts, edits, index, source, notices, marked, lock, runs,
                     nr, found, todo, read, dangling, quiet>>
  BY DEF Return, environment
<1>00. nr[i] \in 1 .. MaxRuns /\ nr[i] <= runs
  BY <1>0, BoundsAreNat DEF IInv, TypeOK, RunsInv
<1>1. TypeOK'
  BY <1>0, <1>00 DEF IInv, TypeOK
<1>2. RunsInv'
  BY <1>0, <1>00 DEF IInv, TypeOK, RunsInv
<1>3. ASSUME NEW j \in Indexers  PROVE RunInv(j)'
  <2>1. CASE j # i
    <3>1. RunInv(j) /\ Still(j)
      BY <1>0, <2>1 DEF IInv, TypeOK, Still
    <3>. QED  BY <1>0, <3>1, StillRunKeeps
  <2>2. CASE j = i
    <3>1. pc'[i] = "idle"
      BY <1>0 DEF IInv, TypeOK
    <3>. QED  BY <2>2, <3>1 DEF RunInv, ReadInv, CheckInv, QuietInv, NoticeInv
  <2>. QED  BY <2>1, <2>2
<1>4. NoticesAreMarked'
  BY <1>0 DEF IInv, NoticesAreMarked
<1>5. CurrentUnlessEdited'
  <2>. SUFFICES ASSUME NEW j \in Indexers, source # 0, nr[j] = source, quiet[j]
                PROVE  Exact(index)'
    BY <1>0 DEF CurrentUnlessEdited
  <2>. QED  BY <1>0, ExactKept DEF IInv, CurrentUnlessEdited
<1>6. LostTargetsReported'
  <2>1. CASE source = nr[i]
    <3>1. index.docs = DocRows(read[i], dangling[i])
      BY <1>0, <2>1 DEF IInv, RunInv, NoticeInv
    <3>2. \A d \in DocRows(read[i], dangling[i]), r \in Ids :
            r \in d.refs /\ (\A e \in DocRows(read[i], dangling[i]) : e.id # r) =>
              \E n \in notices : n.run = nr[i] /\ n.id = r /\ n.level = "error"
      BY <1>0, LossesReported
    <3>. QED  BY <1>0, <2>1, <3>1, <3>2 DEF LostTargetsReported
  <2>2. CASE source # nr[i]
    BY <1>0, <2>2 DEF IInv, LostTargetsReported
  <2>. QED  BY <2>1, <2>2
<1>. QED  BY <1>1, <1>2, <1>3, <1>4, <1>5, <1>6 DEF IInv

LEMMA NextIInv == IInv /\ [Next]_vars => IInv'
<1>. SUFFICES ASSUME IInv, [Next]_vars  PROVE IInv'
  OBVIOUS
<1>1. ASSUME NEW p \in Paths, NEW f \in Docs \cup {Broken, Absent}, EditDocument(p, f)
      PROVE  IInv'
  BY <1>1, EditDocumentKeeps
<1>2. ASSUME NEW a \in Artifacts, ToggleArtifact(a)
      PROVE  IInv'
  BY <1>2, ToggleArtifactKeeps
<1>3. ASSUME NEW i \in Indexers, Step(i)
      PROVE  IInv'
  BY <1>3, WalkKeeps, ReadKeeps, GroupKeeps, CheckKeeps, BeginKeeps, CommitKeeps,
     NotifyKeeps, ReturnKeeps DEF Step
<1>4. ASSUME NEW i \in Indexers, Abort(i)
      PROVE  IInv'
  BY <1>4, AbortKeeps
<1>5. CASE UNCHANGED vars
  <2>. USE <1>5 DEF vars, environment, database, memory
  <2>1. TypeOK' /\ RunsInv'
    BY DEF IInv, TypeOK, RunsInv
  <2>2. ASSUME NEW j \in Indexers  PROVE RunInv(j)'
    <3>1. RunInv(j) /\ Still(j)
      BY DEF IInv, Still
    <3>. QED  BY <3>1, StillRunKeeps
  <2>3. NoticesAreMarked' /\ CurrentUnlessEdited' /\ LostTargetsReported'
    BY TablesStill
  <2>. QED  BY <2>1, <2>2, <2>3 DEF IInv
<1>. QED  BY <1>1, <1>2, <1>3, <1>4, <1>5 DEF Next

LEMMA Inductive == Spec => []IInv
BY InitIInv, NextIInv, PTL DEF Spec

--------------------------------------------------------------------------------
(* The theorems *)

(* Every variable has its type; in particular the ids of notifications are *)
(* those of the documents they are about.                                  *)
THEOREM TypeCorrect == Spec => []TypeOK
<1>1. IInv => TypeOK
  BY DEF IInv
<1>. QED  BY <1>1, Inductive, PTL

(* Nobody is told of an issue that is not in a committed index             *)
(* (documentindex.go 274-276), however the runs overlap.                   *)
THEOREM OnlyMarkedNotified == Spec => []NoticesAreMarked
<1>1. IInv => NoticesAreMarked
  BY DEF IInv
<1>. QED  BY <1>1, Inductive, PTL

(* The index is out of date only if something was edited since the run     *)
(* that made it looked for its paths.                                      *)
THEOREM UpToDate == Spec => []CurrentUnlessEdited
<1>1. IInv => CurrentUnlessEdited
  BY DEF IInv
<1>. QED  BY <1>1, Inductive, PTL

(* Every lost target of an indexed document has an error behind it once    *)
(* the run that made the index has returned (documentindex.go 612-618).    *)
THEOREM LossesAreErrors == Spec => []LostTargetsReported
<1>1. IInv => LostTargetsReported
  BY DEF IInv
<1>. QED  BY <1>1, Inductive, PTL

(* Only a Commit of its own takes a run from writing to notifying, and     *)
(* only a Commit changes the tables.                                       *)
LEMMA CommittedByCommit ==
  ASSUME IInv, Next, NEW i \in Indexers, Committed(i)
  PROVE  Commit(i)
<1>. USE DEF Committed
<1>1. ASSUME NEW j \in Indexers, Step(j)  PROVE Commit(i)
  <2>1. ASSUME j # i  PROVE pc'[i] = pc[i]
    BY <1>1, <2>1
    DEF IInv, TypeOK, Step, Walk, Read, Group, Check, Begin, Commit, Notify, Return
  <2>2. ASSUME j = i  PROVE Commit(i)
    BY <1>1, <2>2 DEF Step, Walk, Read, Group, Check, Begin, Notify, Return
  <2>. QED  BY <2>1, <2>2
<1>2. ASSUME NEW j \in Indexers, Abort(j)  PROVE FALSE
  BY <1>2 DEF IInv, TypeOK, Abort
<1>3. ASSUME NEW p \in Paths, NEW f \in Docs \cup {Broken, Absent}, EditDocument(p, f)
      PROVE  FALSE
  BY <1>3 DEF EditDocument
<1>4. ASSUME NEW a \in Artifacts, ToggleArtifact(a)  PROVE FALSE
  BY <1>4 DEF ToggleArtifact
<1>. QED  BY <1>1, <1>2, <1>3, <1>4 DEF Next

(* A run during which nothing is edited commits exactly the index that a   *)
(* reader of docs/ would define (documentindex.go 242-276).                *)
THEOREM RebuildsAreExact == Spec => RebuildMatchesCorpus
<1>1. IInv /\ [Next]_vars => [ExactWhenQuiet]_vars
  <2>. SUFFICES ASSUME IInv, Next, NEW i \in Indexers, Committed(i), quiet[i]
                PROVE  Exact(index')
    BY DEF ExactWhenQuiet
  <2>. QED  BY CommittedByCommit, CommitEffect
<1>. QED  BY <1>1, Inductive, PTL DEF Spec, RebuildMatchesCorpus

(* Each path a run found ends up indexed or marked, whatever was edited    *)
(* meanwhile (localdb.sql 80-83).                                          *)
THEOREM EveryPathAccounted == Spec => NothingDropped
<1>1. IInv /\ [Next]_vars => [Accounted]_vars
  <2>. SUFFICES ASSUME IInv, Next, NEW i \in Indexers, Committed(i)
                PROVE  found[i] = {d.path : d \in index'.docs}
                                    \cup {d.path : d \in index'.issues}
    BY DEF Accounted
  <2>1. /\ ReadThrough(found[i], read[i], dangling[i])
        /\ index'.docs = DocRows(read[i], dangling[i])
        /\ index'.issues = Drafts(found[i], read[i], dangling[i])
    BY CommittedByCommit, CommitEffect DEF RunDrafts
  <2>. QED  BY <2>1, AccountsForAll
<1>. QED  BY <1>1, Inductive, PTL DEF Spec, NothingDropped

(* The refinement: whatever runs overlap, end or are killed, readers see   *)
(* one register of indexes that is replaced whole, and no insert of a      *)
(* rebuild hits a key of localdb.sql (documentindex.go 325-331).           *)
THEOREM Refinement == Spec => ImplementsRegister
<1>1. Init => Register!Init
  BY DEF Init, Register!Init
<1>2. IInv /\ [Next]_vars => [Register!Rebuild]_index
  <2>. SUFFICES ASSUME IInv, Next, index' # index  PROVE Register!Rebuild
    BY DEF vars, database
  <2>1. ASSUME NEW i \in Indexers, Step(i)  PROVE Commit(i)
    BY <2>1
    DEF Step, Walk, Read, Group, Check, Begin, Notify, Return, database
  <2>2. ASSUME NEW i \in Indexers, Abort(i)  PROVE FALSE
    BY <2>2 DEF Abort
  <2>3. ASSUME NEW p \in Paths, NEW f \in Docs \cup {Broken, Absent}, EditDocument(p, f)
        PROVE  FALSE
    BY <2>3 DEF EditDocument, database
  <2>4. ASSUME NEW a \in Artifacts, ToggleArtifact(a)  PROVE FALSE
    BY <2>4 DEF ToggleArtifact, database
  <2>5. \E i \in Indexers : Commit(i)
    BY <2>1, <2>2, <2>3, <2>4 DEF Next
  <2>. QED  BY <2>5, CommitEffect DEF Register!Rebuild
<1>. QED  BY <1>1, <1>2, Inductive, PTL DEF Spec, ImplementsRegister, Register!Spec

================================================================================
