------------------------ MODULE DocumentQueries_proofs ------------------------
(***************************************************************************)
(* What holds of the tables of the document index, and of the queries that *)
(* read them while they are rebuilt, whatever the documents, the indexes   *)
(* written and the number of readers.                                      *)
(*                                                                         *)
(* The tables: TablesInv says of an open transaction that its statements   *)
(* are taken in their order, that each table is emptied before anything is *)
(* written into it, and that it holds exactly what was written since.  The *)
(* search table keeps the order of insertion, so that it holds the ids of  *)
(* the documents found in the order of their paths: the lemmas about that  *)
(* order come first.                                                       *)
(*                                                                         *)
(* The queries: QueryInv says of a reader what it has while nothing is     *)
(* committed: the documents it asked for, those it is done with hydrated.  *)
(***************************************************************************)
EXTENDS DocumentQueries, FiniteSetTheorems, SequenceTheorems, TLAPS

--------------------------------------------------------------------------------
(* The order of the paths *)

(* Documents that can be told apart by their paths. *)
Distinct(S) ==
  /\ S \subseteq Row /\ IsFiniteSet(S)
  /\ \A q, r \in S : q.path = r.path => q = r

Ahead(S, r) == {q \in S : q.path < r.path}

(* The documents ahead of one are fewer than all. *)
LEMMA AheadIs ==
  ASSUME NEW S, Distinct(S), NEW r \in S
  PROVE  /\ Ahead(S, r) \in SUBSET S /\ IsFiniteSet(Ahead(S, r)) /\ r \notin Ahead(S, r)
         /\ Cardinality(Ahead(S, r)) \in Nat /\ Cardinality(S) \in Nat
         /\ Cardinality(Ahead(S, r)) < Cardinality(S)
         /\ r.path \in Nat
<1>1. r.path \in Nat
  BY PathsAreRanks DEF Distinct, Row
<1>2. Ahead(S, r) \in SUBSET S /\ IsFiniteSet(S) /\ r \notin Ahead(S, r)
  BY <1>1 DEF Ahead, Distinct
<1>3. /\ IsFiniteSet(Ahead(S, r)) /\ Cardinality(Ahead(S, r)) <= Cardinality(S)
      /\ Cardinality(S) # Cardinality(Ahead(S, r))
  BY <1>2, FS_Subset
<1>4. Cardinality(S) \in Nat /\ Cardinality(Ahead(S, r)) \in Nat
  BY <1>2, <1>3, FS_CardinalityType
<1> QED
  BY <1>1, <1>2, <1>3, <1>4

(* Of two documents, the one with the greater path has more ahead of it. *)
LEMMA AheadGrows ==
  ASSUME NEW S, Distinct(S), NEW q \in S, NEW r \in S, q.path < r.path
  PROVE  Cardinality(Ahead(S, q)) < Cardinality(Ahead(S, r))
<1>1. q.path \in Nat /\ r.path \in Nat /\ \A p \in S : p.path \in Nat
  BY AheadIs
<1>2. Ahead(S, q) \in SUBSET Ahead(S, r) /\ q \in Ahead(S, r) /\ q \notin Ahead(S, q)
  BY <1>1 DEF Ahead
<1>3. /\ IsFiniteSet(Ahead(S, r))
      /\ Cardinality(Ahead(S, q)) \in Nat /\ Cardinality(Ahead(S, r)) \in Nat
  BY AheadIs
<1>4. /\ Cardinality(Ahead(S, q)) <= Cardinality(Ahead(S, r))
      /\ Cardinality(Ahead(S, q)) # Cardinality(Ahead(S, r))
  BY <1>2, <1>3, FS_Subset
<1> QED
  BY <1>3, <1>4

(* Every place is taken, by one document. *)
LEMMA OneAtAPlace ==
  ASSUME NEW S, Distinct(S), NEW q \in S, NEW r \in S,
         Cardinality(Ahead(S, q)) = Cardinality(Ahead(S, r))
  PROVE  q = r
<1>1. q.path \in Nat /\ r.path \in Nat /\ Cardinality(Ahead(S, q)) \in Nat
  BY AheadIs
<1>2. ~(q.path < r.path) /\ ~(r.path < q.path)
  BY <1>1, AheadGrows
<1> QED
  BY <1>1, <1>2 DEF Distinct

(* There are as many places as documents, so that each is taken: the       *)
(* number of the documents ahead is one to one from the documents into the *)
(* places.                                                                 *)
LEMMA PlacesAreTaken ==
  ASSUME NEW S, Distinct(S)
  PROVE  /\ Cardinality(S) \in Nat
         /\ \A i \in 1 .. Cardinality(S) : \E r \in S : Cardinality(Ahead(S, r)) = i - 1
<1> DEFINE n == Cardinality(S)
           place == [r \in S |-> Cardinality(Ahead(S, r)) + 1]
<1>1. IsFiniteSet(S) /\ n \in Nat
  BY FS_CardinalityType DEF Distinct
<1>2. place \in [S -> 1 .. n]
  <2>1. ASSUME NEW r \in S PROVE Cardinality(Ahead(S, r)) + 1 \in 1 .. n
    BY <1>1, AheadIs
  <2> QED
    BY <2>1
<1>3. ASSUME NEW q \in S, NEW r \in S, place[q] = place[r] PROVE q = r
  <2>1. Cardinality(Ahead(S, q)) \in Nat /\ Cardinality(Ahead(S, r)) \in Nat
    BY AheadIs
  <2>2. Cardinality(Ahead(S, q)) = Cardinality(Ahead(S, r))
    BY <1>3, <2>1
  <2> QED
    BY <2>2, OneAtAPlace
<1>4. place \in Injection(S, 1 .. n)
  <2> HIDE DEF place
  <2> QED
    BY <1>2, <1>3 DEF Injection, IsInjective
<1>5. IsFiniteSet(1 .. n) /\ Cardinality(1 .. n) = n
  <2>1. 1 \in Int /\ n \in Int
    BY <1>1
  <2>2. /\ IsFiniteSet(1 .. n)
        /\ Cardinality(1 .. n) = IF 1 > n THEN 0 ELSE n - 1 + 1
    BY <2>1, FS_Interval
  <2> HIDE DEF n
  <2> QED
    BY <1>1, <2>2
<1>6. place \in Surjection(S, 1 .. n)
  <2> HIDE DEF place, n
  <2>1. Cardinality(S) = Cardinality(1 .. n)
    BY <1>5 DEF n
  <2> QED
    BY <1>4, <1>5, <2>1, FS_Injection
<1>7. \A i \in 1 .. n : \E r \in S : place[r] = i
  <2> HIDE DEF place
  <2> QED
    BY <1>6 DEF Surjection
<1>8. ASSUME NEW i \in 1 .. n PROVE \E r \in S : Cardinality(Ahead(S, r)) = i - 1
  <2>1. PICK r \in S : Cardinality(Ahead(S, r)) + 1 = i
    BY <1>7
  <2>2. Cardinality(Ahead(S, r)) \in Nat
    BY AheadIs
  <2> QED
    BY <2>1, <2>2
<1> QED
  BY <1>1, <1>8

(* The document that InPathOrder puts at a place has that many ahead of it. *)
LEMMA InPathOrderIs ==
  ASSUME NEW S, Distinct(S)
  PROVE  /\ Cardinality(S) \in Nat
         /\ DOMAIN InPathOrder(S) = 1 .. Cardinality(S)
         /\ \A i \in 1 .. Cardinality(S) :
              InPathOrder(S)[i] \in S /\ Cardinality(Ahead(S, InPathOrder(S)[i])) = i - 1
<1>1. ASSUME NEW i \in 1 .. Cardinality(S)
      PROVE  InPathOrder(S)[i] \in S /\ Cardinality(Ahead(S, InPathOrder(S)[i])) = i - 1
  <2>1. \E r \in S : Cardinality({q \in S : q.path < r.path}) = i - 1
    BY PlacesAreTaken DEF Ahead
  <2>2. InPathOrder(S)[i] = CHOOSE r \in S : Cardinality({q \in S : q.path < r.path}) = i - 1
    BY DEF InPathOrder
  <2> QED
    BY <2>1, <2>2 DEF Ahead
<1>2. DOMAIN InPathOrder(S) = 1 .. Cardinality(S)
  BY DEF InPathOrder
<1>3. Cardinality(S) \in Nat
  BY PlacesAreTaken
<1> QED
  BY <1>1, <1>2, <1>3

(* The ids in the order of the paths, which is what the search table holds.*)
Searched(S) == [i \in 1 .. Cardinality(S) |-> InPathOrder(S)[i].id]

(* What the search table holds is a sequence of ids, one for each document. *)
LEMMA SearchedType ==
  ASSUME NEW S, Distinct(S)
  PROVE  Searched(S) \in Seq(Ids) /\ Len(Searched(S)) = Cardinality(S)
<1>1. Cardinality(S) \in Nat /\ \A i \in 1 .. Cardinality(S) : InPathOrder(S)[i].id \in Ids
  BY InPathOrderIs DEF Distinct, Row
<1> QED
  BY <1>1 DEF Searched

(* A document behind all the others comes last. *)
LEMMA SearchedGrows ==
  ASSUME NEW S, Distinct(S), NEW d \in Row, \A q \in S : q.path < d.path
  PROVE  Searched(S \cup {d}) = Append(Searched(S), d.id)
<1> DEFINE T == S \cup {d}
           n == Cardinality(S)
<1>0. d.path \in Nat /\ \A q \in S : q.path \in Nat
  BY PathsAreRanks DEF Row, Distinct
<1>1. d \notin S
  BY <1>0
<1>2. IsFiniteSet(T) /\ Cardinality(T) = n + 1 /\ n \in Nat
  BY <1>1, FS_AddElement, FS_CardinalityType DEF Distinct
<1>3. Distinct(T)
  BY <1>0, <1>2 DEF Distinct
<1>4. Ahead(T, d) = S /\ \A q \in S : Ahead(T, q) = Ahead(S, q)
  <2>1. \A q \in S : ~(d.path < q.path) /\ ~(d.path < d.path)
    BY <1>0
  <2> QED
    BY <1>0, <2>1 DEF Ahead
<1> HIDE DEF T, n
<1>5. InPathOrder(T)[n + 1] = d
  <2>1. n + 1 \in 1 .. Cardinality(T) /\ (n + 1) - 1 = n
    BY <1>2
  <2>2. InPathOrder(T)[n + 1] \in T /\ Cardinality(Ahead(T, InPathOrder(T)[n + 1])) = n
    BY <1>3, <2>1, InPathOrderIs
  <2>3. d \in T /\ Cardinality(Ahead(T, d)) = n
    BY <1>4 DEF T, n
  <2> QED
    BY <1>3, <2>2, <2>3, OneAtAPlace
<1>6. ASSUME NEW i \in 1 .. n PROVE InPathOrder(T)[i] = InPathOrder(S)[i]
  <2>1. InPathOrder(S)[i] \in S /\ Cardinality(Ahead(S, InPathOrder(S)[i])) = i - 1
    BY InPathOrderIs DEF n
  <2>2. i \in 1 .. Cardinality(T)
    BY <1>2
  <2>3. InPathOrder(T)[i] \in T /\ Cardinality(Ahead(T, InPathOrder(T)[i])) = i - 1
    BY <1>3, <2>2, InPathOrderIs
  <2>4. InPathOrder(S)[i] \in T /\ Cardinality(Ahead(T, InPathOrder(S)[i])) = i - 1
    BY <1>4, <2>1 DEF T
  <2> QED
    BY <1>3, <2>3, <2>4, OneAtAPlace
<1>7. /\ Searched(S) \in Seq(Ids) /\ Len(Searched(S)) = n
      /\ Searched(T) \in Seq(Ids) /\ Len(Searched(T)) = n + 1
  BY <1>2, <1>3, SearchedType DEF n
<1>8. \A i \in 1 .. n + 1 : Searched(T)[i] = Append(Searched(S), d.id)[i]
  <2>1. Searched(T)[n + 1] = d.id
    BY <1>2, <1>5 DEF Searched
  <2>2. \A i \in 1 .. n : Searched(T)[i] = Searched(S)[i]
    BY <1>2, <1>6 DEF Searched, n
  <2> QED
    BY <1>2, <1>7, <2>1, <2>2 DEF Row
<1>9. /\ Append(Searched(S), d.id) \in Seq(Ids)
      /\ Len(Append(Searched(S), d.id)) = n + 1
  BY <1>2, <1>7 DEF Row
<1>10. Searched(T) = Append(Searched(S), d.id)
  BY <1>2, <1>7, <1>8, <1>9, SeqEqual
<1> QED
  BY <1>10 DEF T

--------------------------------------------------------------------------------
(* The tables *)

Tables(fts) ==
  [document : SUBSET [id : Ids, path : Paths], tag : SUBSET (Ids \X Tags),
   relation : SUBSET (Ids \X Targets), fts : fts, issue : SUBSET Paths]

(* What the inserts that are done have written into a table. *)
Done           == Inserts(batch) \ script
Written(table) == {RowOf(s) : s \in {u \in Done : u.table = table}}
Found          == {d \in batch.docs : Insert("fts", d, Nothing) \in Done}

BatchInv ==
  /\ batch.docs \subseteq Row /\ IsFiniteSet(batch.docs)
  /\ batch.issues \subseteq [path : Paths]
  /\ \A a, b \in batch.docs : a.id = b.id \/ a.path = b.path => a = b
  /\ \A a \in batch.docs, b \in batch.issues : a.path # b.path
  /\ batch = [docs |-> batch.docs, issues |-> batch.issues]

(* The statements are executed in their order, each table is emptied before *)
(* anything is written into it, and holds exactly what was written since.   *)
TxInv ==
  tx # Closed =>
    /\ script \subseteq Statements(batch)
    /\ \A s \in Statements(batch), t \in script : Before(t, s) => s \in script
    /\ tx \in Tables({tx.fts})
    /\ Clear("document") \notin script =>
         \A table \in {"document", "tag", "relation"} : tx[table] = Written(table)
    /\ Clear("issue") \notin script => tx.issue = Written("issue")
    /\ Clear("fts") \notin script => tx.fts = Searched(Found)

TablesInv == db \in Tables(Seq(Ids)) /\ BatchInv /\ TxInv

(* What an insert of the batch is. *)
LEMMA InsertIs ==
  ASSUME NEW s \in Inserts(batch)
  PROVE  \/ \E d \in batch.docs : s = Insert("document", d, Nothing)
         \/ \E d \in batch.docs : s = Insert("fts", d, Nothing)
         \/ \E d \in batch.docs : \E t \in d.tags : s = Insert("tag", d, t)
         \/ \E d \in batch.docs : \E t \in d.refs : s = Insert("relation", d, t)
         \/ \E i \in batch.issues :
              s = InsertIssue(i)
<1>1. CASE s \in UNION {InsertsOf(d) : d \in batch.docs}
  <2>1. PICK d \in batch.docs : s \in InsertsOf(d)
    BY <1>1
  <2>2. \/ s = Insert("document", d, Nothing) \/ s = Insert("fts", d, Nothing)
        \/ \E t \in d.tags : s = Insert("tag", d, t)
        \/ \E t \in d.refs : s = Insert("relation", d, t)
    BY <2>1 DEF InsertsOf
  <2> QED
    BY <2>2
<1>2. CASE s \in {InsertIssue(i) : i \in batch.issues}
  BY <1>2
<1> QED
  BY <1>1, <1>2 DEF Inserts

(* Which inserts a batch has. *)
LEMMA InsertsAre ==
  /\ \A d \in batch.docs :
       /\ Insert("document", d, Nothing) \in Inserts(batch)
       /\ Insert("fts", d, Nothing) \in Inserts(batch)
       /\ \A t \in d.tags : Insert("tag", d, t) \in Inserts(batch)
       /\ \A t \in d.refs : Insert("relation", d, t) \in Inserts(batch)
  /\ \A i \in batch.issues :
       InsertIssue(i) \in Inserts(batch)
<1>1. ASSUME NEW d \in batch.docs PROVE InsertsOf(d) \subseteq Inserts(batch)
  BY DEF Inserts
<1>2. \A i \in batch.issues :
        InsertIssue(i) \in Inserts(batch)
  BY DEF Inserts
<1> QED
  BY <1>1, <1>2 DEF InsertsOf

(* The columns of a statement. *)
LEMMA InsertFields ==
  ASSUME NEW table, NEW doc, NEW item
  PROVE  /\ Insert(table, doc, item).op = "insert"
         /\ Insert(table, doc, item).table = table
         /\ Insert(table, doc, item).path = doc.path
         /\ Insert(table, doc, item).id = doc.id
         /\ Insert(table, doc, item).item = item
BY DEF Insert

LEMMA IssueFields ==
  ASSUME NEW i
  PROVE  /\ InsertIssue(i).op = "insert" /\ InsertIssue(i).table = "issue"
         /\ InsertIssue(i).path = i.path
BY DEF InsertIssue

LEMMA ClearFields ==
  ASSUME NEW table
  PROVE  /\ Clear(table).op = "delete" /\ Clear(table).table = table
         /\ Clear(table).path = 0
BY DEF Clear

(* An insert names its table, and comes after every delete. *)
LEMMA InsertTables ==
  ASSUME NEW s \in Inserts(batch)
  PROVE  /\ s.op = "insert"
         /\ s.table \in {"document", "tag", "relation", "fts", "issue"}
         /\ \A table : Before(Clear(table), s)
<1>1. s.op = "insert" /\ s.table \in {"document", "tag", "relation", "fts", "issue"}
  <2>1. CASE \E d \in batch.docs : s = Insert("document", d, Nothing)
    BY <2>1, InsertFields
  <2>2. CASE \E d \in batch.docs : s = Insert("fts", d, Nothing)
    BY <2>2, InsertFields
  <2>3. CASE \E d \in batch.docs : \E t \in d.tags : s = Insert("tag", d, t)
    BY <2>3, InsertFields
  <2>4. CASE \E d \in batch.docs : \E t \in d.refs : s = Insert("relation", d, t)
    BY <2>4, InsertFields
  <2>5. CASE \E i \in batch.issues : s = InsertIssue(i)
    BY <2>5, IssueFields
  <2> QED
    BY <2>1, <2>2, <2>3, <2>4, <2>5, InsertIs
<1> QED
  BY <1>1, ClearFields DEF Before

(* A statement of a rebuild is an insert or one of the three deletes. *)
LEMMA StatementIs ==
  ASSUME NEW s \in Statements(batch)
  PROVE  s \in Inserts(batch) \/ \E table \in {"document", "fts", "issue"} : s = Clear(table)
BY DEF Statements

(* The row of an insert is one its table can hold. *)
LEMMA RowTypes ==
  ASSUME BatchInv, NEW s \in Inserts(batch)
  PROVE  /\ s.table = "document" => RowOf(s) \in [id : Ids, path : Paths]
         /\ s.table = "tag" => RowOf(s) \in Ids \X Tags
         /\ s.table = "relation" => RowOf(s) \in Ids \X Targets
         /\ s.table = "issue" => RowOf(s) \in Paths
<1> USE InsertFields DEF RowOf
<1>1. ASSUME NEW d \in batch.docs PROVE d.id \in Ids /\ d.path \in Paths
                                        /\ d.tags \subseteq Tags /\ d.refs \subseteq Targets
  BY DEF BatchInv, Row
<1>2. CASE \E d \in batch.docs : s = Insert("document", d, Nothing)
  BY <1>1, <1>2
<1>3. CASE \E d \in batch.docs : s = Insert("fts", d, Nothing)
  BY <1>3
<1>4. CASE \E d \in batch.docs : \E t \in d.tags : s = Insert("tag", d, t)
  BY <1>1, <1>4
<1>5. CASE \E d \in batch.docs : \E t \in d.refs : s = Insert("relation", d, t)
  BY <1>1, <1>5
<1>6. CASE \E i \in batch.issues :
             s = InsertIssue(i)
  BY <1>6, IssueFields DEF BatchInv
<1> QED
  BY <1>2, <1>3, <1>4, <1>5, <1>6, InsertIs

(* The documents already in the search table are told apart by their paths. *)
LEMMA FoundIsDistinct ==
  ASSUME BatchInv
  PROVE  Distinct(Found)
<1>1. Found \in SUBSET batch.docs
  BY DEF Found
<1>2. IsFiniteSet(Found)
  BY <1>1, FS_Subset DEF BatchInv
<1> QED
  BY <1>1, <1>2 DEF Distinct, BatchInv

(* No statement is executed before its turn. *)
LEMMA OrderKept ==
  ASSUME TxInv, tx # Closed, NEW s \in Due, script' = script \ {s}, batch' = batch
  PROVE  /\ s \in script /\ s \in Statements(batch)
         /\ script' \subseteq Statements(batch')
         /\ \A u \in Statements(batch'), t \in script' : Before(t, u) => u \in script'
<1>1. s \in script /\ \A t \in script : ~Before(t, s)
  BY DEF Due
<1>2. script \subseteq Statements(batch)
      /\ \A u \in Statements(batch), t \in script : Before(t, u) => u \in script
  BY DEF TxInv
<1> HIDE DEF Statements
<1> QED
  BY <1>1, <1>2

(* A delete keeps the invariant: it comes before every insert, and the one *)
(* of document, which also touches the search table, before the other two. *)
LEMMA DeleteKeeps ==
  ASSUME BatchInv, TxInv, tx # Closed, NEW table \in {"document", "fts", "issue"},
         Clear(table) \in Due, tx' = After(tx, Clear(table)),
         script' = script \ {Clear(table)}, batch' = batch
  PROVE  TxInv'
<1>1. /\ Clear(table) \in script
      /\ script' \subseteq Statements(batch')
      /\ \A u \in Statements(batch'), t \in script' : Before(t, u) => u \in script'
  BY OrderKept
<1>2. Inserts(batch) \subseteq script /\ Inserts(batch) \subseteq script'
  <2>1. ASSUME NEW u \in Inserts(batch) PROVE u \in script /\ u # Clear(table)
    <3>1. u \in Statements(batch) /\ Before(Clear(table), u) /\ u.op = "insert"
      BY InsertTables DEF Statements
    <3> QED
      BY <1>1, <3>1, ClearFields DEF TxInv
  <2> QED
    BY <2>1
<1>3. /\ Done = {} /\ Done' = {} /\ \A t : Written(t) = {} /\ Written(t)' = {}
      /\ Found = {} /\ Found' = {}
  <2>1. Done = {} /\ Done' = {}
    BY <1>2 DEF Done
  <2> QED
    BY <2>1 DEF Written, Found
<1>4. Searched({}) = <<>>
  BY FS_EmptySet DEF Searched
<1>5. tx' = Cleared(tx, table)
  BY ClearFields DEF After
<1>6. tx \in Tables({tx.fts})
  BY DEF TxInv
<1>7. CASE table = "document"
  <2>1. \E f : tx' = [tx EXCEPT !.document = {}, !.tag = {}, !.relation = {}, !.fts = f]
    BY <1>5, <1>7 DEF Cleared
  <2>2. /\ tx' \in Tables({tx'.fts})
        /\ tx'.document = {} /\ tx'.tag = {} /\ tx'.relation = {} /\ tx'.issue = tx.issue
    BY <1>6, <2>1 DEF Tables
  <2>3. Clear("fts") \in script /\ Clear("issue") \in script
    <3>1. Before(Clear("document"), Clear("fts")) /\ Before(Clear("document"), Clear("issue"))
      BY ClearFields DEF Before, Turn
    <3> QED
      BY <1>1, <1>7, <3>1 DEF TxInv, Statements
  <2>4. Clear("fts") \in script' /\ Clear("issue") \in script'
    BY <1>7, <2>3, ClearFields
  <2> QED
    BY <1>1, <1>3, <2>2, <2>4 DEF TxInv
<1>8. CASE table = "fts"
  <2>1. tx' = [tx EXCEPT !.fts = <<>>]
    BY <1>5, <1>8 DEF Cleared
  <2>2. /\ tx' \in Tables({tx'.fts}) /\ tx'.fts = <<>>
        /\ \A t \in {"document", "tag", "relation", "issue"} : tx'[t] = tx[t]
    BY <1>6, <2>1 DEF Tables
  <2>3. \A t \in {"document", "issue"} : Clear(t) \notin script' => Clear(t) \notin script
    BY <1>8, ClearFields
  <2> QED
    BY <1>1, <1>3, <1>4, <2>2, <2>3 DEF TxInv
<1>9. CASE table = "issue"
  <2>1. tx' = [tx EXCEPT !.issue = {}]
    BY <1>5, <1>9 DEF Cleared
  <2>2. /\ tx' \in Tables({tx'.fts}) /\ tx'.issue = {}
        /\ \A t \in {"document", "tag", "relation", "fts"} : tx'[t] = tx[t]
    BY <1>6, <2>1 DEF Tables
  <2>3. \A t \in {"document", "fts"} : Clear(t) \notin script' => Clear(t) \notin script
    BY <1>9, ClearFields
  <2> QED
    BY <1>1, <1>3, <2>2, <2>3 DEF TxInv
<1> QED
  BY <1>7, <1>8, <1>9

(* An insert keeps the invariant: it adds its row to what was written; one *)
(* into the search table is of a document behind all that are found.       *)
LEMMA InsertKeeps ==
  ASSUME BatchInv, TxInv, tx # Closed, NEW s \in Inserts(batch), s \in Due,
         tx' = After(tx, s), script' = script \ {s}, batch' = batch
  PROVE  TxInv'
<1>1. /\ s \in script
      /\ script' \subseteq Statements(batch')
      /\ \A u \in Statements(batch'), t \in script' : Before(t, u) => u \in script'
  BY OrderKept
<1>2. /\ s.op = "insert"
      /\ s.table \in {"document", "tag", "relation", "fts", "issue"}
      /\ \A table : Clear(table) \notin script
  BY InsertTables DEF Due
<1>3. /\ \A table \in {"document", "tag", "relation", "issue"} : tx[table] = Written(table)
      /\ tx.fts = Searched(Found) /\ tx \in Tables({tx.fts})
  BY <1>2 DEF TxInv
<1>4. Done' = Done \cup {s} /\ s \notin Done
  BY <1>1 DEF Done
<1>5. /\ Written(s.table)' = Written(s.table) \cup {RowOf(s)}
      /\ \A table : table # s.table => Written(table)' = Written(table)
  BY <1>4 DEF Written
<1>6. CASE s.table # "fts"
  <2>1. tx' = [tx EXCEPT ![s.table] = tx[s.table] \cup {RowOf(s)}]
    BY <1>2, <1>6 DEF After
  <2>2. s.table \in {"document", "tag", "relation", "issue"}
    BY <1>2, <1>6
  <2>3. /\ tx'[s.table] = tx[s.table] \cup {RowOf(s)}
        /\ \A table \in {"document", "tag", "relation", "issue", "fts"} \ {s.table} :
             tx'[table] = tx[table]
    BY <1>3, <2>1, <2>2 DEF Tables
  <2>4. tx' \in Tables({tx'.fts})
    BY <1>3, <2>1, <2>2, RowTypes DEF Tables
  <2>5. Found' = Found
    <3>1. \A d \in batch.docs : Insert("fts", d, Nothing) # s
      BY <1>6, InsertFields
    <3> QED
      BY <1>4, <3>1 DEF Found
  <2>6. \A table \in {"document", "tag", "relation", "issue"} : tx'[table] = Written(table)'
    BY <1>3, <1>5, <2>2, <2>3
  <2>7. tx'.fts = Searched(Found')
    BY <1>3, <1>6, <2>3, <2>5
  <2> QED
    BY <1>1, <2>4, <2>6, <2>7 DEF TxInv
<1>7. CASE s.table = "fts"
  <2>1. tx' = [tx EXCEPT !.fts = Append(tx.fts, s.id)]
    BY <1>2, <1>7 DEF After
  <2>2. /\ tx' \in Tables({tx'.fts}) /\ tx'.fts = Append(tx.fts, s.id)
        /\ \A table \in {"document", "tag", "relation", "issue"} : tx'[table] = tx[table]
    BY <1>3, <2>1 DEF Tables
  <2>3. PICK d \in batch.docs : s = Insert("fts", d, Nothing)
    <3>1. \A d : /\ s # Insert("document", d, Nothing)
                /\ \A t : s # Insert("tag", d, t) /\ s # Insert("relation", d, t)
      BY <1>7, InsertFields
    <3>2. \A i : s # InsertIssue(i)
      BY <1>7, IssueFields
    <3> QED
      BY <3>1, <3>2, InsertIs
  <2>4. Found' = Found \cup {d}
    <3>1. \A q \in batch.docs : Insert("fts", q, Nothing) = s => q = d
      BY <2>3, InsertFields DEF BatchInv
    <3> QED
      BY <1>4, <2>3, <3>1 DEF Found
  <2>5. d \in Row /\ d \notin Found /\ Distinct(Found)
    BY <1>4, <2>3, FoundIsDistinct DEF Found, BatchInv
  <2>6. ASSUME NEW q \in Found PROVE q.path < d.path
    <3>1. q \in batch.docs /\ Insert("fts", q, Nothing) \notin script
      BY DEF Found, Done
    <3>2. ~Before(s, Insert("fts", q, Nothing))
      BY <1>1, <3>1, InsertsAre DEF TxInv, Statements
    <3>3. ~(d.path < q.path)
      BY <2>3, <3>2, InsertFields DEF Before
    <3>4. q.path # d.path
      BY <2>5, <3>1 DEF BatchInv
    <3>5. q.path \in Nat /\ d.path \in Nat
      BY <2>5, <3>1, PathsAreRanks DEF BatchInv, Row
    <3> QED
      BY <3>3, <3>4, <3>5
  <2>7. tx'.fts = Searched(Found')
    <3>1. s.id = d.id
      BY <2>3, InsertFields
    <3> QED
      BY <1>3, <2>2, <2>4, <2>5, <2>6, <3>1, SearchedGrows
  <2>8. \A table \in {"document", "tag", "relation", "issue"} : tx'[table] = Written(table)'
    BY <1>3, <1>5, <1>7, <2>2
  <2> QED
    BY <1>1, <2>2, <2>7, <2>8 DEF TxInv
<1> QED
  BY <1>6, <1>7

(* What is written is what was done, table by table. *)
(* A statement that is done is an insert of the batch, and no longer due. *)
LEMMA DoneIs ==
  ASSUME NEW s \in Done
  PROVE  s \in Inserts(batch) /\ s \notin script
BY DEF Done

(* The inserts into each table. *)
LEMMA DocumentInserts ==
  ASSUME NEW s \in Inserts(batch), s.table = "document"
  PROVE  \E d \in batch.docs : s = Insert("document", d, Nothing)
<1>1. \A d : /\ s # Insert("fts", d, Nothing)
             /\ \A t : s # Insert("tag", d, t) /\ s # Insert("relation", d, t)
  BY InsertFields
<1>2. \A i : s # InsertIssue(i)
  BY IssueFields
<1> QED
  BY <1>1, <1>2, InsertIs

LEMMA TagInserts ==
  ASSUME NEW s \in Inserts(batch), s.table = "tag"
  PROVE  \E d \in batch.docs : \E t \in d.tags : s = Insert("tag", d, t)
<1>1. \A d : /\ s # Insert("fts", d, Nothing) /\ s # Insert("document", d, Nothing)
             /\ \A t : s # Insert("relation", d, t)
  BY InsertFields
<1>2. \A i : s # InsertIssue(i)
  BY IssueFields
<1> QED
  BY <1>1, <1>2, InsertIs

LEMMA RelationInserts ==
  ASSUME NEW s \in Inserts(batch), s.table = "relation"
  PROVE  \E d \in batch.docs : \E t \in d.refs : s = Insert("relation", d, t)
<1>1. \A d : /\ s # Insert("fts", d, Nothing) /\ s # Insert("document", d, Nothing)
             /\ \A t : s # Insert("tag", d, t)
  BY InsertFields
<1>2. \A i : s # InsertIssue(i)
  BY IssueFields
<1> QED
  BY <1>1, <1>2, InsertIs

LEMMA IssueInserts ==
  ASSUME NEW s \in Inserts(batch), s.table = "issue"
  PROVE  \E i \in batch.issues : s = InsertIssue(i)
<1>1. \A d : /\ s # Insert("fts", d, Nothing) /\ s # Insert("document", d, Nothing)
             /\ \A t : s # Insert("tag", d, t) /\ s # Insert("relation", d, t)
  BY InsertFields
<1> QED
  BY <1>1, InsertIs

(* The row of each insert. *)
LEMMA RowsOf ==
  ASSUME NEW d, NEW t
  PROVE  /\ RowOf(Insert("document", d, Nothing)) = [id |-> d.id, path |-> d.path]
         /\ RowOf(Insert("tag", d, t)) = <<d.id, t>>
         /\ RowOf(Insert("relation", d, t)) = <<d.id, t>>
BY InsertFields DEF RowOf

LEMMA IssueRow ==
  ASSUME NEW i
  PROVE  RowOf(InsertIssue(i)) = i.path
BY IssueFields DEF RowOf

--------------------------------------------------------------------------------
(* No key is hit *)

(* When an insert is due, the tables are empty of all but what was written *)
(* and everything before it is done.                                       *)
LEMMA DueInsert ==
  ASSUME TxInv, tx # Closed, NEW s \in Due, s.op = "insert"
  PROVE  /\ s \in script /\ s \in Inserts(batch)
         /\ \A table \in {"document", "tag", "relation", "issue"} : tx[table] = Written(table)
         /\ \A u \in Inserts(batch) : Before(u, s) => u \in Done
<1>1. s \in script /\ s \in Statements(batch) /\ \A t \in script : ~Before(t, s)
  BY DEF Due, TxInv
<1>2. s \in Inserts(batch)
  BY <1>1, StatementIs, ClearFields
<1>3. \A table : Clear(table) \notin script
  BY <1>1, <1>2, InsertTables
<1>4. \A u \in Inserts(batch) : Before(u, s) => u \in Done
  BY <1>1 DEF Done
<1> QED
  BY <1>1, <1>2, <1>3, <1>4 DEF TxInv

(* The keys of a batch are distinct and each statement is executed once, so*)
(* that no insert finds its key taken; a tag or a relation comes after its *)
(* document.                                                               *)
LEMMA NoKeyHit ==
  ASSUME BatchInv, TxInv, tx # Closed, NEW s \in Due
  PROVE  ~KeyHit(tx, s)
<1> SUFFICES ASSUME s.op = "insert"
             PROVE  /\ s.table = "document" =>
                         \A e \in tx.document : e.id # s.id /\ e.path # s.path
                    /\ s.table \in {"tag", "relation"} =>
                         RowOf(s) \notin tx[s.table] /\ ~HangsInTheAir(tx, s)
                    /\ s.table = "issue" => s.path \notin tx.issue
  BY DEF KeyHit
<1>1. /\ s \in script /\ s \in Inserts(batch)
      /\ \A table \in {"document", "tag", "relation", "issue"} : tx[table] = Written(table)
      /\ \A u \in Inserts(batch) : Before(u, s) => u \in Done
  BY DueInsert
<1>2. ASSUME s.table = "document", NEW e \in tx.document
      PROVE  e.id # s.id /\ e.path # s.path
  <2>1. PICK u \in Done : u.table = "document" /\ e = RowOf(u)
    BY <1>1 DEF Written
  <2>2. u # s /\ u \in Inserts(batch)
    BY <1>1, DoneIs
  <2>3. PICK c \in batch.docs : u = Insert("document", c, Nothing)
    BY <2>1, <2>2, DocumentInserts
  <2>4. PICK d \in batch.docs : s = Insert("document", d, Nothing)
    BY <1>1, <1>2, DocumentInserts
  <2>5. c # d
    BY <2>2, <2>3, <2>4
  <2>6. c.id # d.id /\ c.path # d.path
    BY <2>5 DEF BatchInv
  <2> QED
    BY <2>1, <2>3, <2>4, <2>6, RowsOf, InsertFields
<1>3. ASSUME NEW d \in batch.docs, s.path = d.path, s.id = d.id,
             s.table \in {"tag", "relation"}
      PROVE  ~HangsInTheAir(tx, s)
  <2>1. Before(Insert("document", d, Nothing), s)
    <3>1. /\ Turn["document"] = 1 /\ Turn["tag"] = 2 /\ Turn["relation"] = 3
          /\ s.table # "issue"
      BY <1>3 DEF Turn
    <3> QED
      BY <1>3, <3>1, InsertFields DEF Before
  <2>2. Insert("document", d, Nothing) \in Done
    BY <1>1, <2>1, InsertsAre
  <2>3. [id |-> d.id, path |-> d.path] \in tx.document
    <3>1. Insert("document", d, Nothing).table = "document"
      BY InsertFields
    <3>2. RowOf(Insert("document", d, Nothing)) \in Written("document")
      BY <2>2, <3>1 DEF Written
    <3>3. RowOf(Insert("document", d, Nothing)) = [id |-> d.id, path |-> d.path]
      BY RowsOf
    <3> QED
      BY <1>1, <3>2, <3>3
  <2> QED
    BY <1>3, <2>3 DEF HangsInTheAir
<1>4. ASSUME s.table = "tag" PROVE RowOf(s) \notin tx[s.table] /\ ~HangsInTheAir(tx, s)
  <2>1. PICK d \in batch.docs : \E t \in d.tags : s = Insert("tag", d, t)
    BY <1>1, <1>4, TagInserts
  <2>2. PICK t \in d.tags : s = Insert("tag", d, t)
    BY <2>1
  <2>3. ASSUME RowOf(s) \in tx.tag PROVE FALSE
    <3>1. PICK u \in Done : u.table = "tag" /\ RowOf(s) = RowOf(u)
      BY <1>1, <2>3 DEF Written
    <3>2. u # s /\ u \in Inserts(batch)
      BY <1>1, DoneIs
    <3>3. PICK c \in batch.docs : \E x \in c.tags : u = Insert("tag", c, x)
      BY <3>1, <3>2, TagInserts
    <3>4. PICK x \in c.tags : u = Insert("tag", c, x)
      BY <3>3
    <3>5. c.id = d.id /\ x = t
      BY <2>2, <3>1, <3>4, RowsOf
    <3>6. c = d
      BY <3>5 DEF BatchInv
    <3> QED
      BY <2>2, <3>2, <3>4, <3>5, <3>6
  <2>4. s.path = d.path /\ s.id = d.id
    BY <2>2, InsertFields
  <2> QED
    BY <1>3, <1>4, <2>3, <2>4
<1>5. ASSUME s.table = "relation" PROVE RowOf(s) \notin tx[s.table] /\ ~HangsInTheAir(tx, s)
  <2>1. PICK d \in batch.docs : \E t \in d.refs : s = Insert("relation", d, t)
    BY <1>1, <1>5, RelationInserts
  <2>2. PICK t \in d.refs : s = Insert("relation", d, t)
    BY <2>1
  <2>3. ASSUME RowOf(s) \in tx.relation PROVE FALSE
    <3>1. PICK u \in Done : u.table = "relation" /\ RowOf(s) = RowOf(u)
      BY <1>1, <2>3 DEF Written
    <3>2. u # s /\ u \in Inserts(batch)
      BY <1>1, DoneIs
    <3>3. PICK c \in batch.docs : \E x \in c.refs : u = Insert("relation", c, x)
      BY <3>1, <3>2, RelationInserts
    <3>4. PICK x \in c.refs : u = Insert("relation", c, x)
      BY <3>3
    <3>5. c.id = d.id /\ x = t
      BY <2>2, <3>1, <3>4, RowsOf
    <3>6. c = d
      BY <3>5 DEF BatchInv
    <3> QED
      BY <2>2, <3>2, <3>4, <3>5, <3>6
  <2>4. s.path = d.path /\ s.id = d.id
    BY <2>2, InsertFields
  <2> QED
    BY <1>3, <1>5, <2>3, <2>4
<1>6. ASSUME s.table = "issue" PROVE s.path \notin tx.issue
  <2>1. PICK i \in batch.issues : s = InsertIssue(i)
    BY <1>1, <1>6, IssueInserts
  <2>2. ASSUME s.path \in tx.issue PROVE FALSE
    <3>1. PICK u \in Done : u.table = "issue" /\ s.path = RowOf(u)
      BY <1>1, <2>2 DEF Written
    <3>2. u # s /\ u \in Inserts(batch)
      BY <1>1, DoneIs
    <3>3. PICK j \in batch.issues : u = InsertIssue(j)
      BY <3>1, <3>2, IssueInserts
    <3>4. i.path = j.path
      BY <2>1, <3>1, <3>3, IssueRow, IssueFields
    <3> QED
      BY <2>1, <3>2, <3>3, <3>4 DEF InsertIssue
  <2> QED
    BY <2>2
<1> QED
  BY <1>2, <1>4, <1>5, <1>6

--------------------------------------------------------------------------------
(* What is committed *)

(* When no statement is left, the tables hold the batch and nothing else. *)
LEMMA AllWritten ==
  ASSUME BatchInv, TxInv, tx # Closed, script = {}
  PROVE  /\ tx = Holding(batch)
         /\ tx \in Tables(Seq(Ids))
<1>1. /\ \A table \in {"document", "tag", "relation", "issue"} : tx[table] = Written(table)
      /\ tx.fts = Searched(Found) /\ tx \in Tables({tx.fts})
  BY DEF TxInv
<1>2. Done = Inserts(batch)
  BY DEF Done
<1>3. \A table : Written(table) = {RowOf(s) : s \in {u \in Inserts(batch) : u.table = table}}
  BY <1>2 DEF Written
<1>4. Found = batch.docs
  BY <1>2, InsertsAre DEF Found
<1>5. tx.document = {[id |-> d.id, path |-> d.path] : d \in batch.docs}
  <2>1. ASSUME NEW e \in tx.document
        PROVE  \E d \in batch.docs : e = [id |-> d.id, path |-> d.path]
    <3>1. PICK s \in Inserts(batch) : s.table = "document" /\ e = RowOf(s)
      BY <1>1, <1>3
    <3>2. PICK d \in batch.docs : s = Insert("document", d, Nothing)
      BY <3>1, DocumentInserts
    <3> QED
      BY <3>1, <3>2, RowsOf
  <2>2. ASSUME NEW d \in batch.docs PROVE [id |-> d.id, path |-> d.path] \in tx.document
    <3>1. /\ Insert("document", d, Nothing) \in Inserts(batch)
          /\ Insert("document", d, Nothing).table = "document"
      BY InsertsAre, InsertFields
    <3>2. RowOf(Insert("document", d, Nothing)) \in Written("document")
      BY <1>3, <3>1
    <3>3. RowOf(Insert("document", d, Nothing)) = [id |-> d.id, path |-> d.path]
      BY RowsOf
    <3> QED
      BY <1>1, <3>2, <3>3
  <2> QED
    BY <2>1, <2>2
<1>6. tx.tag = UNION {{d.id} \X d.tags : d \in batch.docs}
  <2>1. ASSUME NEW e \in tx.tag
        PROVE  \E d \in batch.docs : e \in {d.id} \X d.tags
    <3>1. PICK s \in Inserts(batch) : s.table = "tag" /\ e = RowOf(s)
      BY <1>1, <1>3
    <3>2. PICK d \in batch.docs : \E t \in d.tags : s = Insert("tag", d, t)
      BY <3>1, TagInserts
    <3> QED
      BY <3>1, <3>2, RowsOf
  <2>2. ASSUME NEW d \in batch.docs, NEW t \in d.tags PROVE <<d.id, t>> \in tx.tag
    <3>1. Insert("tag", d, t) \in Inserts(batch)
      BY InsertsAre
    <3> QED
      BY <1>1, <1>3, <3>1, RowsOf, InsertFields
  <2> QED
    BY <2>1, <2>2
<1>7. tx.relation = UNION {{d.id} \X d.refs : d \in batch.docs}
  <2>1. ASSUME NEW e \in tx.relation
        PROVE  \E d \in batch.docs : e \in {d.id} \X d.refs
    <3>1. PICK s \in Inserts(batch) : s.table = "relation" /\ e = RowOf(s)
      BY <1>1, <1>3
    <3>2. PICK d \in batch.docs : \E t \in d.refs : s = Insert("relation", d, t)
      BY <3>1, RelationInserts
    <3> QED
      BY <3>1, <3>2, RowsOf
  <2>2. ASSUME NEW d \in batch.docs, NEW t \in d.refs PROVE <<d.id, t>> \in tx.relation
    <3>1. Insert("relation", d, t) \in Inserts(batch)
      BY InsertsAre
    <3> QED
      BY <1>1, <1>3, <3>1, RowsOf, InsertFields
  <2> QED
    BY <2>1, <2>2
<1>8. tx.issue = {i.path : i \in batch.issues}
  <2>1. ASSUME NEW e \in tx.issue PROVE \E i \in batch.issues : e = i.path
    <3>1. PICK s \in Inserts(batch) : s.table = "issue" /\ e = RowOf(s)
      BY <1>1, <1>3
    <3> QED
      BY <3>1, IssueInserts, IssueRow
  <2>2. ASSUME NEW i \in batch.issues PROVE i.path \in tx.issue
    <3>1. InsertIssue(i) \in Inserts(batch)
      BY InsertsAre
    <3> QED
      BY <1>1, <1>3, <3>1, IssueRow, IssueFields
  <2> QED
    BY <2>1, <2>2
<1>9. /\ tx.fts = [i \in 1 .. Cardinality(batch.docs) |-> InPathOrder(batch.docs)[i].id]
      /\ tx.fts \in Seq(Ids)
  BY <1>1, <1>4, FoundIsDistinct, SearchedType DEF Searched
<1>10. tx = [document |-> tx.document, tag |-> tx.tag, relation |-> tx.relation,
             fts |-> tx.fts, issue |-> tx.issue]
  BY <1>1 DEF Tables
<1>11. tx \in Tables(Seq(Ids))
  BY <1>1, <1>9 DEF Tables
<1> QED
  BY <1>5, <1>6, <1>7, <1>8, <1>9, <1>10, <1>11 DEF Holding

--------------------------------------------------------------------------------
(* The invariant of the transactions *)

(* The tables are empty to begin with. *)
LEMMA InitTablesInv ==
  InitTables => TablesInv
<1> SUFFICES ASSUME InitTables PROVE TablesInv
  OBVIOUS
<1>1. db \in Tables(Seq(Ids))
  <2>1. <<>> \in Seq(Ids)
    OBVIOUS
  <2> QED
    BY <2>1 DEF InitTables, Empty, Tables
<1>2. BatchInv
  BY FS_EmptySet DEF InitTables, BatchInv
<1>3. TxInv
  BY DEF InitTables, TxInv
<1> QED
  BY <1>1, <1>2, <1>3 DEF TablesInv

(* A new transaction has everything still to do. *)
LEMMA BeginKeeps ==
  ASSUME TablesInv, NEW b \in Batches, Begin(b)
  PROVE  TablesInv'
<1>1. BatchInv'
  BY BatchesAreIndexes DEF Begin, BatchInv, Register!WellFormed
<1>2. db' = db /\ tx' = db /\ batch' = b /\ script' = Statements(b)
  BY DEF Begin
<1>3. db' \in Tables(Seq(Ids)) /\ tx' \in Tables({tx'.fts})
  BY <1>2 DEF TablesInv, Tables
<1>4. \A table \in {"document", "issue", "fts"} : Clear(table) \in script'
  BY <1>2 DEF Statements
<1>5. TxInv'
  <2> HIDE DEF Statements
  <2> QED
    BY <1>2, <1>3, <1>4 DEF TxInv
<1> QED
  BY <1>1, <1>3, <1>5 DEF TablesInv

(* A statement is a delete or an insert. *)
LEMMA ExecuteKeeps ==
  ASSUME TablesInv, Execute
  PROVE  TablesInv'
<1>1. /\ tx # Closed /\ db' = db /\ batch' = batch /\ BatchInv /\ TxInv
  BY DEF Execute, TablesInv
<1>2. PICK s \in Due : tx' = After(tx, s) /\ script' = script \ {s}
  BY DEF Execute
<1>3. s \in Statements(batch)
  BY <1>1, <1>2 DEF Due, TxInv
<1>4. TxInv'
  <2>1. CASE s \in Inserts(batch)
    BY <1>1, <1>2, <2>1, InsertKeeps
  <2>2. CASE \E table \in {"document", "fts", "issue"} : s = Clear(table)
    BY <1>1, <1>2, <2>2, DeleteKeeps
  <2> QED
    BY <1>3, <2>1, <2>2, StatementIs
<1>5. BatchInv'
  BY <1>1 DEF BatchInv
<1> QED
  BY <1>1, <1>4, <1>5 DEF TablesInv

(* A commit publishes the tables of the whole batch. *)
LEMMA CommitKeeps ==
  ASSUME TablesInv, Commit
  PROVE  TablesInv' /\ db' = Holding(batch) /\ batch' = batch
<1>1. db' \in Tables(Seq(Ids)) /\ db' = Holding(batch)
  BY AllWritten DEF Commit, TablesInv
<1>2. BatchInv' /\ TxInv'
  BY DEF Commit, TablesInv, BatchInv, TxInv
<1> QED
  BY <1>1, <1>2 DEF TablesInv, Commit

(* A failure leaves the committed tables alone. *)
LEMMA FailKeeps ==
  ASSUME TablesInv, Fail
  PROVE  TablesInv'
BY DEF Fail, TablesInv, BatchInv, TxInv

(* What a step of the specification does to the tables. *)
LEMMA TableSteps ==
  ASSUME TablesInv, [Next]_vars
  PROVE  /\ TablesInv'
         /\ db' = db \/ (Commit /\ db' = Holding(batch) /\ batch' = batch)
<1>1. CASE UNCHANGED tableVars
  <2>1. TablesInv' /\ db' = db
    BY <1>1 DEF tableVars, TablesInv, BatchInv, TxInv, Done, Written, Found
  <2> QED
    BY <2>1
<1>2. CASE \E b \in Batches : Begin(b)
  BY <1>2, BeginKeeps DEF Begin
<1>3. CASE Execute
  BY <1>3, ExecuteKeeps DEF Execute
<1>4. CASE Commit
  BY <1>4, CommitKeeps
<1>5. CASE Fail
  BY <1>5, FailKeeps DEF Fail
<1> QED
  BY <1>1, <1>2, <1>3, <1>4, <1>5
     DEF Next, Reindex, SelectRows, LoadTags, LoadRelations, vars

(* The inductive invariant of the transactions holds of every behaviour. *)
THEOREM TablesAsWritten == Spec => []TablesInv
<1>1. Init => TablesInv
  BY InitTablesInv DEF Init
<1>2. TablesInv /\ [Next]_vars => TablesInv'
  BY TableSteps
<1> QED
  BY <1>1, <1>2, PTL DEF Spec

(* No insert of a rebuild hits a primary key, a unique path or a missing   *)
(* foreign key (documentindex.go 548-597): KeysNeverHit.                   *)
THEOREM NoRebuildFailsOnItsData == Spec => []KeysNeverHit
<1>1. TablesInv => KeysNeverHit
  BY NoKeyHit DEF TablesInv, KeysNeverHit
<1> QED
  BY <1>1, TablesAsWritten, PTL

(* The committed tables only ever change to those of a whole rebuild, with *)
(* no row of the one before (documentindex.go 515-530): RebuiltWhole.      *)
THEOREM RebuildsAreWhole == Spec => RebuiltWhole
<1>1. TablesInv /\ [Next]_vars => [db' # db => db' = Holding(batch)]_db
  BY TableSteps
<1> QED
  BY <1>1, TablesAsWritten, PTL DEF Spec, RebuiltWhole

--------------------------------------------------------------------------------
(* The tables are the register *)

(* The index that the tables of a batch hold is the batch. *)
LEMMA HoldingIsIndexed ==
  ASSUME BatchInv, db' = Holding(batch)
  PROVE  Indexed' = batch
<1> DEFINE Hydrated(d) == [id |-> d.id, path |-> d.path,
                           tags |-> {t \in Tags : <<d.id, t>> \in db'.tag},
                           refs |-> {t \in Targets : <<d.id, t>> \in db'.relation}]
<1>1. /\ db'.document = {[id |-> d.id, path |-> d.path] : d \in batch.docs}
      /\ db'.tag = UNION {{d.id} \X d.tags : d \in batch.docs}
      /\ db'.relation = UNION {{d.id} \X d.refs : d \in batch.docs}
      /\ db'.issue = {i.path : i \in batch.issues}
  BY DEF Holding
<1>2. ASSUME NEW d \in batch.docs
      PROVE  Hydrated([id |-> d.id, path |-> d.path]) = d
  <2>1. \A c \in batch.docs : c.id = d.id => c = d
    BY DEF BatchInv
  <2>2. d.tags \subseteq Tags /\ d.refs \subseteq Targets
        /\ d = [id |-> d.id, path |-> d.path, tags |-> d.tags, refs |-> d.refs]
    BY DEF BatchInv, Row
  <2>3. {t \in Tags : <<d.id, t>> \in db'.tag} = d.tags
    <3>1. \A t : <<d.id, t>> \in db'.tag <=> t \in d.tags
      BY <1>1, <2>1
    <3> QED
      BY <2>2, <3>1
  <2>4. {t \in Targets : <<d.id, t>> \in db'.relation} = d.refs
    <3>1. \A t : <<d.id, t>> \in db'.relation <=> t \in d.refs
      BY <1>1, <2>1
    <3> QED
      BY <2>2, <3>1
  <2> QED
    BY <2>2, <2>3, <2>4
<1> HIDE DEF Hydrated
<1>3. {Hydrated(e) : e \in db'.document} = batch.docs
  <2>1. ASSUME NEW e \in db'.document PROVE Hydrated(e) \in batch.docs
    BY <1>1, <1>2
  <2>2. ASSUME NEW d \in batch.docs PROVE \E e \in db'.document : d = Hydrated(e)
    BY <1>1, <1>2
  <2> QED
    BY <2>1, <2>2
<1>4. {[path |-> p] : p \in db'.issue} = batch.issues
  <2>1. \A i \in batch.issues : i = [path |-> i.path]
    BY DEF BatchInv
  <2> QED
    BY <1>1, <2>1
<1>5. Indexed' = [docs   |-> {Hydrated(e) : e \in db'.document},
                  issues |-> {[path |-> p] : p \in db'.issue}]
  BY DEF Indexed, Hydrated
<1> QED
  BY <1>3, <1>4, <1>5 DEF BatchInv

(* Seen through their rows, the tables are the register of whole,          *)
(* well-formed indexes that IndexRegister promises the readers.            *)
THEOREM TablesAreTheRegister == Spec => Register!Spec
<1>1. Init => Register!Init
  <2> SUFFICES ASSUME Init PROVE Indexed = [docs |-> {}, issues |-> {}]
    BY DEF Register!Init
  <2>1. db.document = {} /\ db.issue = {}
    BY DEF Init, InitTables, Empty
  <2> QED
    BY <2>1 DEF Indexed
<1>2. TablesInv /\ [Next]_vars => [Register!Rebuild]_Indexed
  <2> SUFFICES ASSUME TablesInv, [Next]_vars, Indexed' # Indexed PROVE Register!Rebuild
    OBVIOUS
  <2>1. db' # db
    BY DEF Indexed
  <2>2. db' = Holding(batch) /\ BatchInv
    BY <2>1, TableSteps DEF TablesInv
  <2>3. Indexed' = batch
    BY <2>2, HoldingIsIndexed
  <2>4. batch \in [docs : SUBSET Row, issues : SUBSET [path : Paths]]
    BY <2>2 DEF BatchInv
  <2>5. /\ \A a, b \in batch.docs : a.id = b.id \/ a.path = b.path => a = b
        /\ \A a, b \in batch.issues : a.path = b.path => a = b
        /\ \A a \in batch.docs, b \in batch.issues : a.path # b.path
    BY <2>2 DEF BatchInv
  <2> QED
    BY <2>3, <2>4, <2>5 DEF Register!Rebuild, Register!Index, Register!WellFormed
<1> QED
  BY <1>1, <1>2, TablesAsWritten, PTL DEF Spec, Register!Spec

--------------------------------------------------------------------------------
(* The types *)

(* Every step keeps the types; those of the tables follow from TablesInv. *)
LEMMA TypesKept ==
  ASSUME QueriesTypeOK, TablesInv, TablesInv', [Next]_vars
  PROVE  QueriesTypeOK'
<1>1. ASSUME NEW id PROVE TagsOf(id) \subseteq Tags /\ RefsOf(id) \subseteq Targets
  BY DEF TagsOf, RefsOf
<1>2. TypeOK'
  <2>1. /\ DOMAIN db' = DOMAIN Empty
        /\ db'.document \subseteq [id : Ids, path : Paths]
        /\ db'.tag \subseteq Ids \X Tags /\ db'.relation \subseteq Ids \X Targets
        /\ db'.fts \in Seq(Ids) /\ db'.issue \subseteq Paths
    BY DEF TablesInv, Tables, Empty
  <2>2. tx' = Closed \/ DOMAIN tx' = DOMAIN Empty
    BY DEF TablesInv, TxInv, Tables, Empty
  <2>3. rebuilds' \in 0 .. MaxRebuilds
    BY BoundIsANumber
       DEF QueriesTypeOK, TypeOK, Next, Reindex, Begin, Execute, Commit, Fail,
           SelectRows, LoadTags, LoadRelations, vars, tableVars
  <2> QED
    BY <2>1, <2>2, <2>3 DEF TypeOK
<1>3. CASE UNCHANGED vars
  BY <1>2, <1>3 DEF QueriesTypeOK, vars, readerVars
<1>4. CASE Reindex
  BY <1>2, <1>4 DEF QueriesTypeOK, Reindex, readerVars
<1>5. ASSUME NEW r \in Readers, NEW tags \in SUBSET Tags, SelectRows(r, tags)
      PROVE  QueriesTypeOK'
  <2>1. Indexed.docs \subseteq Row
    <3>1. \A e \in db.document : e.id \in Ids /\ e.path \in Paths
      BY DEF TablesInv, Tables
    <3>2. \A e : /\ {t \in Tags : <<e.id, t>> \in db.tag} \in SUBSET Tags
                 /\ {t \in Targets : <<e.id, t>> \in db.relation} \in SUBSET Targets
      OBVIOUS
    <3>3. ASSUME NEW e \in db.document
          PROVE  [id |-> e.id, path |-> e.path,
                  tags |-> {t \in Tags : <<e.id, t>> \in db.tag},
                  refs |-> {t \in Targets : <<e.id, t>> \in db.relation}] \in Row
      BY <3>1, <3>2 DEF Row
    <3> HIDE DEF Row
    <3> QED
      BY <3>3 DEF Indexed
  <2>2. /\ \A d \in Row : [id |-> d.id, path |-> d.path, tags |-> {}, refs |-> {}] \in Row
        /\ \A d \in Row : d.id \in Ids
    BY DEF Row
  <2> HIDE DEF Row
  <2> QED
    BY <1>2, <1>5, <2>1, <2>2 DEF SelectRows, QueriesTypeOK
<1>6. ASSUME NEW r \in Readers, LoadTags(r) PROVE QueriesTypeOK'
  <2>1. \A h \in Row : \A id : [h EXCEPT !.tags = TagsOf(id)] \in Row
    BY <1>1 DEF Row
  <2> HIDE DEF Row, TagsOf
  <2> QED
    BY <1>2, <1>6, <2>1 DEF LoadTags, QueriesTypeOK
<1>7. ASSUME NEW r \in Readers, LoadRelations(r) PROVE QueriesTypeOK'
  <2>1. \A h \in Row : \A id : [h EXCEPT !.refs = RefsOf(id)] \in Row
    BY <1>1 DEF Row
  <2> HIDE DEF Row, RefsOf
  <2> QED
    BY <1>2, <1>7, <2>1 DEF LoadRelations, QueriesTypeOK
<1> QED
  BY <1>3, <1>4, <1>5, <1>6, <1>7 DEF Next

--------------------------------------------------------------------------------
(* What a reader has *)

QueryInv(r) ==
  /\ pc[r] = "idle" => todo[r] = {}
  /\ quiet[r] =>
       /\ \A d \in Indexed.docs : Matches(d, asked[r]) =>
            \E h \in hits[r] : h.id = d.id /\ h.path = d.path
       /\ \A h \in hits[r] :
            /\ \E d \in Indexed.docs :
                 Matches(d, asked[r]) /\ d.id = h.id /\ d.path = h.path
            /\ h.id \notin todo[r] => h.tags = TagsOf(h.id) /\ h.refs = RefsOf(h.id)
            /\ pc[r] = "relations" /\ h.id = Least(todo[r]) => h.tags = TagsOf(h.id)

IInv == QueriesTypeOK /\ TablesInv /\ \A r \in Readers : QueryInv(r)

(* What a reader has depends on its own variables and on the tables.       *)
LEMMA QueryStays ==
  ASSUME NEW r, QueryInv(r), pc'[r] = pc[r], asked'[r] = asked[r], hits'[r] = hits[r],
         todo'[r] = todo[r], quiet'[r] => quiet[r] /\ db' = db
  PROVE  QueryInv(r)'
<1>1. quiet'[r] => /\ Indexed' = Indexed
                   /\ \A id : TagsOf(id)' = TagsOf(id) /\ RefsOf(id)' = RefsOf(id)
  BY DEF Indexed, TagsOf, RefsOf
<1>2. Least(todo[r])' = Least(todo[r])
  BY DEF Least
<1> HIDE DEF Indexed, TagsOf, RefsOf, Least
<1> QED
  BY <1>1, <1>2 DEF QueryInv

(* A step of one reader leaves what the others have. *)
LEMMA Others ==
  ASSUME IInv, NEW r \in Readers, NEW p \in Readers, p # r,
         LoadTags(r) \/ LoadRelations(r) \/ (\E tags \in SUBSET Tags : SelectRows(r, tags))
  PROVE  QueryInv(p)'
<1>1. /\ pc'[p] = pc[p] /\ asked'[p] = asked[p] /\ hits'[p] = hits[p]
      /\ todo'[p] = todo[p] /\ quiet'[p] = quiet[p] /\ db' = db
  BY DEF IInv, QueriesTypeOK, LoadTags, LoadRelations, SelectRows, tableVars
<1> QED
  BY <1>1, QueryStays DEF IInv

(* What is read of the tables changes only with them. *)
LEMMA Reading ==
  ASSUME db' = db
  PROVE  Indexed' = Indexed /\ \A id : TagsOf(id)' = TagsOf(id) /\ RefsOf(id)' = RefsOf(id)
BY DEF Indexed, TagsOf, RefsOf

(* After the first statement everything is still to hydrate. *)
LEMMA Selected ==
  ASSUME IInv, NEW r \in Readers, NEW tags \in SUBSET Tags, SelectRows(r, tags)
  PROVE  QueryInv(r)'
<1> DEFINE rows == {d \in Indexed.docs : Matches(d, tags)}
           Bare(d) == [id |-> d.id, path |-> d.path, tags |-> {}, refs |-> {}]
<1>1. /\ pc'[r] = (IF rows = {} THEN "idle" ELSE "tags")
      /\ asked'[r] = tags /\ quiet'[r] = TRUE
      /\ hits'[r] = {Bare(d) : d \in rows} /\ todo'[r] = {d.id : d \in rows}
      /\ db' = db
  BY DEF IInv, QueriesTypeOK, SelectRows, tableVars
<1>2. \A d : Bare(d).id = d.id /\ Bare(d).path = d.path
  OBVIOUS
<1>3. Indexed' = Indexed
  BY <1>1, Reading
<1> HIDE DEF Bare
<1>4. \A d \in Indexed.docs : Matches(d, tags) =>
        \E h \in hits'[r] : h.id = d.id /\ h.path = d.path
  BY <1>1, <1>2
<1>5. ASSUME NEW h \in hits'[r]
      PROVE  /\ h.id \in todo'[r]
             /\ \E d \in Indexed.docs : Matches(d, tags) /\ d.id = h.id /\ d.path = h.path
  <2>1. PICK d \in rows : h = Bare(d)
    BY <1>1
  <2> QED
    BY <1>1, <1>2, <2>1
<1>6. pc'[r] = "idle" => todo'[r] = {}
  BY <1>1
<1>7. pc'[r] # "relations"
  BY <1>1
<1>8. \A d : Matches(d, asked[r])' <=> Matches(d, tags)
  BY <1>1 DEF Matches
<1> HIDE DEF rows
<1> QED
  BY <1>1, <1>3, <1>4, <1>5, <1>6, <1>7, <1>8 DEF QueryInv

(* loadTags hydrates the tags of one document. *)
LEMMA TagsLoaded ==
  ASSUME IInv, NEW r \in Readers, LoadTags(r)
  PROVE  QueryInv(r)'
<1> DEFINE id == Least(todo[r])
           Loaded(h) == IF h.id = id THEN [h EXCEPT !.tags = TagsOf(id)] ELSE h
<1>1. /\ pc[r] = "tags" /\ pc'[r] = "relations"
      /\ hits'[r] = {Loaded(h) : h \in hits[r]}
      /\ asked'[r] = asked[r] /\ todo'[r] = todo[r] /\ quiet'[r] = quiet[r] /\ db' = db
  BY DEF IInv, QueriesTypeOK, LoadTags, tableVars
<1>2. \A h \in Row : /\ Loaded(h).id = h.id /\ Loaded(h).path = h.path
                     /\ Loaded(h).refs = h.refs
                     /\ Loaded(h).tags = IF h.id = id THEN TagsOf(id) ELSE h.tags
  BY DEF Row
<1>3. hits[r] \subseteq Row
  BY DEF IInv, QueriesTypeOK
<1>4. QueryInv(r)
  BY DEF IInv
<1>5. Indexed' = Indexed /\ \A i : TagsOf(i)' = TagsOf(i) /\ RefsOf(i)' = RefsOf(i)
  BY <1>1, Reading
<1>6. Least(todo[r])' = id
  BY <1>1 DEF Least
<1> HIDE DEF Loaded, id, Row
<1>7. ASSUME quiet[r], NEW d \in Indexed.docs, Matches(d, asked[r])
      PROVE  \E h \in hits'[r] : h.id = d.id /\ h.path = d.path
  <2>1. PICK h \in hits[r] : h.id = d.id /\ h.path = d.path
    BY <1>4, <1>7 DEF QueryInv
  <2> QED
    BY <1>1, <1>2, <1>3, <2>1
<1>8. ASSUME quiet[r], NEW g \in hits'[r]
      PROVE  /\ \E d \in Indexed.docs :
                  Matches(d, asked[r]) /\ d.id = g.id /\ d.path = g.path
             /\ g.id \notin todo[r] => g.tags = TagsOf(g.id) /\ g.refs = RefsOf(g.id)
             /\ g.id = id => g.tags = TagsOf(g.id)
  <2>1. PICK h \in hits[r] : g = Loaded(h)
    BY <1>1
  <2>2. /\ g.id = h.id /\ g.path = h.path /\ g.refs = h.refs
        /\ g.tags = IF h.id = id THEN TagsOf(id) ELSE h.tags
    BY <1>2, <1>3, <2>1
  <2>3. /\ \E d \in Indexed.docs :
             Matches(d, asked[r]) /\ d.id = h.id /\ d.path = h.path
        /\ h.id \notin todo[r] => h.tags = TagsOf(h.id) /\ h.refs = RefsOf(h.id)
    BY <1>4, <1>8 DEF QueryInv
  <2> QED
    BY <2>2, <2>3
<1>9. \A d : Matches(d, asked[r])' <=> Matches(d, asked[r])
  BY <1>1 DEF Matches
<1> QED
  BY <1>1, <1>5, <1>6, <1>7, <1>8, <1>9 DEF QueryInv

(* loadRelations completes the document, and takes it off the list. *)
LEMMA RelationsLoaded ==
  ASSUME IInv, NEW r \in Readers, LoadRelations(r)
  PROVE  QueryInv(r)'
<1> DEFINE id == Least(todo[r])
           Loaded(h) == IF h.id = id THEN [h EXCEPT !.refs = RefsOf(id)] ELSE h
<1>1. /\ pc[r] = "relations" /\ pc'[r] = (IF todo[r] = {id} THEN "idle" ELSE "tags")
      /\ hits'[r] = {Loaded(h) : h \in hits[r]} /\ todo'[r] = todo[r] \ {id}
      /\ asked'[r] = asked[r] /\ quiet'[r] = quiet[r] /\ db' = db
  BY DEF IInv, QueriesTypeOK, LoadRelations, tableVars
<1>2. \A h \in Row : /\ Loaded(h).id = h.id /\ Loaded(h).path = h.path
                     /\ Loaded(h).tags = h.tags
                     /\ Loaded(h).refs = IF h.id = id THEN RefsOf(id) ELSE h.refs
  BY DEF Row
<1>3. hits[r] \subseteq Row
  BY DEF IInv, QueriesTypeOK
<1>4. QueryInv(r)
  BY DEF IInv
<1>5. Indexed' = Indexed /\ \A i : TagsOf(i)' = TagsOf(i) /\ RefsOf(i)' = RefsOf(i)
  BY <1>1, Reading
<1>6. pc[r] = "relations"
  BY <1>1
<1> HIDE DEF Loaded, Row
<1>7. ASSUME quiet[r], NEW d \in Indexed.docs, Matches(d, asked[r])
      PROVE  \E h \in hits'[r] : h.id = d.id /\ h.path = d.path
  <2>1. PICK h \in hits[r] : h.id = d.id /\ h.path = d.path
    BY <1>4, <1>7 DEF QueryInv
  <2> QED
    BY <1>1, <1>2, <1>3, <2>1
<1>8. ASSUME quiet[r], NEW g \in hits'[r]
      PROVE  /\ \E d \in Indexed.docs :
                  Matches(d, asked[r]) /\ d.id = g.id /\ d.path = g.path
             /\ g.id \notin todo'[r] => g.tags = TagsOf(g.id) /\ g.refs = RefsOf(g.id)
  <2>1. PICK h \in hits[r] : g = Loaded(h)
    BY <1>1
  <2>2. /\ g.id = h.id /\ g.path = h.path /\ g.tags = h.tags
        /\ g.refs = IF h.id = id THEN RefsOf(id) ELSE h.refs
    BY <1>2, <1>3, <2>1
  <2>3. /\ \E d \in Indexed.docs :
             Matches(d, asked[r]) /\ d.id = h.id /\ d.path = h.path
        /\ h.id \notin todo[r] => h.tags = TagsOf(h.id) /\ h.refs = RefsOf(h.id)
        /\ h.id = id => h.tags = TagsOf(h.id)
    BY <1>4, <1>6, <1>8 DEF QueryInv
  <2>4. h.id \notin todo'[r] => h.id \notin todo[r] \/ h.id = id
    BY <1>1
  <2> QED
    BY <2>2, <2>3, <2>4
<1>9. \A d : Matches(d, asked[r])' <=> Matches(d, asked[r])
  BY <1>1 DEF Matches
<1>10. pc'[r] # "relations" /\ (pc'[r] = "idle" => todo'[r] = {})
  BY <1>1
<1> HIDE DEF id
<1> QED
  BY <1>1, <1>5, <1>7, <1>8, <1>9, <1>10 DEF QueryInv

(* No reader has asked for anything to begin with. *)
LEMMA InitIInv ==
  Init => IInv
<1> SUFFICES ASSUME Init PROVE IInv
  OBVIOUS
<1>1. TablesInv
  BY InitTablesInv DEF Init
<1>2. QueriesTypeOK
  <2>1. TypeOK
    <3>1. <<>> \in Seq(Ids)
      OBVIOUS
    <3> QED
      BY <3>1, BoundIsANumber DEF Init, InitTables, TypeOK, Empty
  <2> QED
    BY <2>1 DEF Init, QueriesTypeOK
<1>3. \A r \in Readers : QueryInv(r)
  BY DEF Init, QueryInv
<1> QED
  BY <1>1, <1>2, <1>3 DEF IInv

(* The step of a reader is its own; a step of the tables either commits,   *)
(* after which no reader is quiet, or is not visible to any.               *)
LEMMA NextIInv ==
  IInv /\ [Next]_vars => IInv'
<1> SUFFICES ASSUME IInv, [Next]_vars PROVE IInv'
  OBVIOUS
<1>1. TablesInv'
  BY TableSteps DEF IInv
<1>2. QueriesTypeOK'
  BY <1>1, TypesKept DEF IInv
<1>3. ASSUME NEW p \in Readers PROVE QueryInv(p)'
  <2>1. CASE UNCHANGED vars
    BY <2>1, QueryStays DEF IInv, vars, tableVars, readerVars
  <2>2. CASE Reindex
    <3>1. quiet'[p] => quiet[p] /\ db' = db
      BY <2>2 DEF Reindex
    <3> QED
      BY <2>2, <3>1, QueryStays DEF IInv, Reindex, readerVars
  <2>3. ASSUME NEW r \in Readers, NEW tags \in SUBSET Tags, SelectRows(r, tags)
        PROVE  QueryInv(p)'
    BY <2>3, Others, Selected
  <2>4. ASSUME NEW r \in Readers, LoadTags(r) PROVE QueryInv(p)'
    BY <2>4, Others, TagsLoaded
  <2>5. ASSUME NEW r \in Readers, LoadRelations(r) PROVE QueryInv(p)'
    BY <2>5, Others, RelationsLoaded
  <2> QED
    BY <2>1, <2>2, <2>3, <2>4, <2>5 DEF Next
<1> QED
  BY <1>1, <1>2, <1>3 DEF IInv

(* The variables keep their types. *)
THEOREM TypeCorrect == Spec => []QueriesTypeOK
<1>1. IInv => QueriesTypeOK
  BY DEF IInv
<1> QED
  BY <1>1, InitIInv, NextIInv, PTL DEF Spec

(* A reader that is done and undisturbed has the rows of the tables. *)
LEMMA QuietIsExact ==
  ASSUME IInv, NEW r \in Readers, pc[r] = "idle", quiet[r]
  PROVE  hits[r] = {d \in Indexed.docs : \E t \in asked[r] : t \in d.tags}
<1>1. /\ todo[r] = {}
      /\ \A d \in Indexed.docs : Matches(d, asked[r]) =>
           \E h \in hits[r] : h.id = d.id /\ h.path = d.path
      /\ \A h \in hits[r] :
           /\ \E d \in Indexed.docs :
                Matches(d, asked[r]) /\ d.id = h.id /\ d.path = h.path
           /\ h.tags = TagsOf(h.id) /\ h.refs = RefsOf(h.id)
  BY DEF IInv, QueryInv
<1>2. hits[r] \subseteq Row
  BY DEF IInv, QueriesTypeOK
<1>3. \A d \in Indexed.docs :
        d = [id |-> d.id, path |-> d.path, tags |-> TagsOf(d.id), refs |-> RefsOf(d.id)]
  BY DEF Indexed, TagsOf, RefsOf
<1>4. \A h \in hits[r] :
        h = [id |-> h.id, path |-> h.path, tags |-> TagsOf(h.id), refs |-> RefsOf(h.id)]
  <2>1. \A h \in Row :
          h = [id |-> h.id, path |-> h.path, tags |-> h.tags, refs |-> h.refs]
    BY DEF Row
  <2> QED
    BY <1>1, <1>2, <2>1
<1> HIDE DEF Indexed, TagsOf, RefsOf
<1>5. \A h \in hits[r], d \in Indexed.docs : h.id = d.id /\ h.path = d.path => h = d
  BY <1>3, <1>4
<1>6. hits[r] = {d \in Indexed.docs : Matches(d, asked[r])}
  BY <1>1, <1>5
<1>7. \A d : Matches(d, asked[r]) <=> \E t \in asked[r] : t \in d.tags
  BY DEF Matches
<1> QED
  BY <1>6, <1>7

(* DocumentsByTag answers with exactly the documents that carry one of the *)
(* tags, hydrated, when no rebuild commits between its statements          *)
(* (documentindex.go 737-806): ExactWhenQuiet.                             *)
THEOREM QuietReadsAreExact == Spec => []ExactWhenQuiet
<1>1. IInv => ExactWhenQuiet
  BY QuietIsExact DEF ExactWhenQuiet
<1> QED
  BY <1>1, InitIInv, NextIInv, PTL DEF Spec

================================================================================
