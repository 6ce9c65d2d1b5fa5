------------------------- MODULE Notifications_proofs --------------------------
(***************************************************************************)
(* Proofs about Notifications, for any number of callers, rows, levels and *)
(* filters: what MarkRead does to the table, and what List answers.  That  *)
(* the rows of a statement can be sorted at all is proved by their ranks:  *)
(* as the order is total, the numbers of rows ahead of each row are all    *)
(* different, so that every place is taken once.                           *)
(***************************************************************************)
EXTENDS Notifications, FiniteSetTheorems, TLAPS

--------------------------------------------------------------------------------
(* The inductive invariant *)

(* An id names one row, and the next one to be given out names none. *)
RowsInv ==
  /\ IsFiniteSet(rows)
  /\ \A r, s \in rows : r.id = s.id => r = s
  /\ \A r \in rows : r.id <= Cardinality(rows)

(* Between Begin and Commit a caller holds the write lock, so that what it *)
(* has updated was unread and still is, and every id it is done with names *)
(* a row it has updated or one that is read already, or no row at all.     *)
MarkInv(c) ==
  /\ pc[c] = "update" => lock = c
  /\ pc[c] = "update" => \A r \in rows :
       /\ r.id \in moved[c] => r.read = Unread
       /\ r.id \in batch[c] \ todo[c] => r.id \in moved[c] \/ r.read # Unread

IInv == TypeOK /\ RowsInv /\ \A c \in Callers : MarkInv(c)

(* The row MarkRead leaves of a row. *)
LEMMA MarkedRow ==
  ASSUME TypeOK, NEW c \in Callers, NEW r \in Row
  PROVE  /\ Marked(r, c) \in Row
         /\ Marked(r, c).id = r.id /\ Marked(r, c).at = r.at
         /\ Marked(r, c).level = r.level /\ Marked(r, c).category = r.category
         /\ r.id \in moved[c] => Marked(r, c).read = readAt[c]
         /\ r.id \notin moved[c] => Marked(r, c).read = r.read
         /\ readAt[c] \in Time
<1>1. readAt[c] \in Time
  BY DEF TypeOK
<1> QED
  BY <1>1 DEF Marked, Row

LEMMA InitIInv == Init => IInv
<1> SUFFICES ASSUME Init PROVE IInv
  OBVIOUS
<1>1. TypeOK
  BY BoundsAreNat DEF Init, TypeOK, Time
<1>2. RowsInv
  BY FS_EmptySet DEF Init, RowsInv
<1> QED
  BY <1>1, <1>2 DEF Init, IInv, MarkInv

LEMMA NotifyKeeps ==
  ASSUME IInv, NEW level \in Levels, NEW category \in Categories,
         Notify(level, category)
  PROVE  IInv'
<1> DEFINE id  == Cardinality(rows) + 1
           new == [id |-> id, at |-> now, level |-> level, category |-> category,
                   read |-> Unread]
<1>1. /\ lock = NoOne /\ id \in Ids /\ rows' = rows \cup {new}
      /\ UNCHANGED <<now, lock, pc, batch, todo, moved, readAt>>
  BY DEF Notify
<1>2. new \in Row /\ new.id = id
  BY <1>1 DEF Row, IInv, TypeOK
<1>3. TypeOK'
  BY <1>1, <1>2 DEF IInv, TypeOK
<1>4. Cardinality(rows) \in Nat /\ \A r \in rows : r.id < id
  <2>1. Cardinality(rows) \in Nat
    BY FS_CardinalityType DEF IInv, RowsInv
  <2>2. \A r \in rows : r.id \in Nat /\ r.id <= Cardinality(rows)
    BY DEF IInv, RowsInv, TypeOK, Row, Ids
  <2> QED
    BY <2>1, <2>2
<1>5. new \notin rows
  BY <1>2, <1>4
<1>6. IsFiniteSet(rows') /\ Cardinality(rows') = id
  <2>1. IsFiniteSet(rows)
    BY DEF IInv, RowsInv
  <2> HIDE DEF new
  <2> QED
    BY <1>1, <1>5, <2>1, FS_AddElement
<1>7. RowsInv'
  <2>1. \A r \in rows' : r.id <= Cardinality(rows')
    BY <1>1, <1>2, <1>4, <1>6 DEF IInv, TypeOK, Row, Ids
  <2>2. ASSUME NEW r \in rows', NEW s \in rows', r.id = s.id PROVE r = s
    <3>0. \A q \in rows : q.id # new.id
      BY <1>2, <1>4 DEF IInv, TypeOK, Row, Ids
    <3>1. (r \in rows /\ s \in rows) \/ (r = new /\ s = new)
      <4> HIDE DEF new
      <4> QED
        BY <1>1, <2>2, <3>0
    <3> QED
      BY <2>2, <3>1 DEF IInv, RowsInv
  <2> QED
    BY <1>6, <2>1, <2>2 DEF RowsInv
<1>8. \A c \in Callers : MarkInv(c)'
  BY <1>1, NoOneIsNoCaller DEF IInv, MarkInv
<1> QED
  BY <1>3, <1>7, <1>8 DEF IInv

LEMMA BeginMarkKeeps ==
  ASSUME IInv, NEW c \in Callers, NEW ids \in SUBSET Ids, BeginMark(c, ids)
  PROVE  IInv'
<1>1. TypeOK'
  BY DEF BeginMark, IInv, TypeOK
<1>2. RowsInv'
  BY DEF BeginMark, IInv, RowsInv
<1>3. ASSUME NEW d \in Callers PROVE MarkInv(d)'
  <2>1. CASE d = c
    BY <2>1 DEF BeginMark, IInv, TypeOK, MarkInv
  <2>2. CASE d # c
    BY <2>2, NoOneIsNoCaller DEF BeginMark, IInv, TypeOK, MarkInv
  <2> QED
    BY <2>1, <2>2
<1> QED
  BY <1>1, <1>2, <1>3 DEF IInv

LEMMA UpdateKeeps ==
  ASSUME IInv, NEW c \in Callers, NEW id \in Ids, Update(c, id)
  PROVE  IInv'
<1> DEFINE hit == {r \in rows : Updates(r, id)}
<1>1. /\ pc[c] = "update" /\ id \in todo[c]
      /\ todo'  = [todo  EXCEPT ![c] = todo[c] \ {id}]
      /\ moved' = [moved EXCEPT ![c] = moved[c] \cup {r.id : r \in hit}]
      /\ UNCHANGED <<now, rows, lock, pc, batch, readAt>>
  BY DEF Update
<1>2. {r.id : r \in hit} \subseteq Ids
  BY DEF IInv, TypeOK, Row
<1>3. TypeOK'
  BY <1>1, <1>2 DEF IInv, TypeOK
<1>4. RowsInv'
  BY <1>1 DEF IInv, RowsInv
<1>5. MarkInv(c)'
  <2>1. todo'[c] = todo[c] \ {id} /\ moved'[c] = moved[c] \cup {r.id : r \in hit}
    BY <1>1 DEF IInv, TypeOK
  <2>2. ASSUME NEW r \in rows, r.id \in moved'[c] PROVE r.read = Unread
    <3>1. CASE r.id \in moved[c]
      BY <1>1, <3>1 DEF IInv, MarkInv
    <3>2. CASE r.id \notin moved[c]
      <4>1. PICK s \in hit : s.id = r.id
        BY <2>1, <2>2, <3>2
      <4>2. s = r
        BY <4>1 DEF IInv, RowsInv
      <4> QED
        BY <4>1, <4>2 DEF Updates
    <3> QED
      BY <3>1, <3>2
  <2>3. ASSUME NEW r \in rows, r.id \in batch[c] \ todo'[c], r.read = Unread
        PROVE  r.id \in moved'[c]
    <3>1. CASE r.id = id
      <4>1. r \in hit
        BY <2>3, <3>1 DEF Updates
      <4> QED
        BY <2>1, <4>1
    <3>2. CASE r.id # id
      BY <1>1, <2>1, <2>3, <3>2 DEF IInv, MarkInv
    <3> QED
      BY <3>1, <3>2
  <2>4. pc'[c] = "update" => lock' = c
    BY <1>1 DEF IInv, MarkInv
  <2> QED
    BY <1>1, <2>2, <2>3, <2>4 DEF MarkInv
<1>6. ASSUME NEW d \in Callers \ {c} PROVE MarkInv(d)'
  BY <1>1 DEF IInv, TypeOK, MarkInv
<1> QED
  BY <1>3, <1>4, <1>5, <1>6 DEF IInv

(* The end of a MarkRead: nobody holds the lock. *)
LEMMA ReturnLeaves ==
  ASSUME IInv, NEW c \in Callers, pc[c] = "update", Return(c), now' = now,
         rows' \in SUBSET Row
  PROVE  TypeOK' /\ \A d \in Callers : MarkInv(d)'
<1>1. TypeOK'
  BY BoundsAreNat DEF Return, IInv, TypeOK, Time
<1>2. \A d \in Callers : pc'[d] # "update"
  BY DEF Return, IInv, TypeOK, MarkInv
<1> QED
  BY <1>1, <1>2 DEF MarkInv

LEMMA CommitMarkKeeps ==
  ASSUME IInv, NEW c \in Callers, CommitMark(c)
  PROVE  IInv'
<1>1. pc[c] = "update" /\ rows' = {Marked(r, c) : r \in rows} /\ Return(c) /\ now' = now
  BY DEF CommitMark
<1>2. /\ \A r \in rows : Marked(r, c) \in Row /\ Marked(r, c).id = r.id
      /\ rows \subseteq Row
  BY MarkedRow DEF IInv, TypeOK
<1>3. TypeOK' /\ \A d \in Callers : MarkInv(d)'
  BY <1>1, <1>2, ReturnLeaves
<1>4. IsFiniteSet(rows') /\ Cardinality(rows') = Cardinality(rows)
  <2> DEFINE f == [r \in rows |-> Marked(r, c)]
  <2>1. f \in Injection(rows, rows')
    <3>1. f \in [rows -> rows']
      BY <1>1
    <3>2. ASSUME NEW r \in rows, NEW s \in rows, f[r] = f[s] PROVE r = s
      <4>1. r.id = s.id
        BY <1>2, <3>2
      <4> QED
        BY <4>1 DEF IInv, RowsInv
    <3> HIDE DEF f
    <3> QED
      BY <3>1, <3>2 DEF Injection, IsInjective
  <2>2. f \in Surjection(rows, rows')
    <3>1. f \in [rows -> rows'] /\ \A t \in rows' : \E r \in rows : f[r] = t
      BY <1>1
    <3> HIDE DEF f
    <3> QED
      BY <3>1 DEF Surjection
  <2>3. ExistsBijection(rows, rows')
    <3> HIDE DEF f
    <3> QED
      BY <2>1, <2>2 DEF ExistsBijection, Bijection
  <2>4. IsFiniteSet(rows)
    BY DEF IInv, RowsInv
  <2> QED
    BY <2>3, <2>4, FS_Bijection
<1>5. RowsInv'
  <2>1. \A s \in rows' : \E r \in rows : s = Marked(r, c) /\ s.id = r.id
    BY <1>1, <1>2
  <2>2. \A s \in rows' : s.id <= Cardinality(rows')
    BY <1>4, <2>1 DEF IInv, RowsInv
  <2>3. \A s, t \in rows' : s.id = t.id => s = t
    BY <2>1 DEF IInv, RowsInv
  <2> QED
    BY <1>4, <2>2, <2>3 DEF RowsInv
<1> QED
  BY <1>3, <1>5 DEF IInv

LEMMA RollbackMarkKeeps ==
  ASSUME IInv, NEW c \in Callers, RollbackMark(c)
  PROVE  IInv'
<1>1. pc[c] = "update" /\ Return(c) /\ now' = now /\ rows' = rows
  BY DEF RollbackMark
<1>2. TypeOK' /\ \A d \in Callers : MarkInv(d)'
  BY <1>1, ReturnLeaves DEF IInv, TypeOK
<1> QED
  BY <1>1, <1>2 DEF IInv, RowsInv

LEMMA TickKeeps == ASSUME IInv, Tick PROVE IInv'
<1>1. TypeOK'
  BY BoundsAreNat DEF Tick, IInv, TypeOK, Time
<1>2. RowsInv' /\ \A c \in Callers : MarkInv(c)'
  BY DEF Tick, IInv, RowsInv, MarkInv
<1> QED
  BY <1>1, <1>2 DEF IInv

LEMMA NextIInv == IInv /\ [Next]_vars => IInv'
<1> SUFFICES ASSUME IInv, [Next]_vars PROVE IInv'
  OBVIOUS
<1>1. CASE UNCHANGED vars
  BY <1>1 DEF vars, IInv, TypeOK, RowsInv, MarkInv
<1>2. CASE Next
  BY <1>2, TickKeeps, NotifyKeeps, BeginMarkKeeps, UpdateKeeps, CommitMarkKeeps,
     RollbackMarkKeeps DEF Next
<1> QED
  BY <1>1, <1>2

LEMMA Inductive == Spec => []IInv
BY InitIInv, NextIInv, PTL DEF Spec

--------------------------------------------------------------------------------
(* MarkRead *)

(* Every variable has its type (localdb.sql 160-180, notification.go       *)
(* 163-181).                                                               *)
THEOREM TypeCorrect == Spec => []TypeOK
BY Inductive, PTL DEF IInv

Kept(row, new) ==
  /\ new.id = row.id /\ new.at = row.at
  /\ new.level = row.level /\ new.category = row.category
  /\ row.read # Unread => new.read = row.read

(* A notification is never lost or rewritten, and the time it was read at  *)
(* does not move (notification.go 344-346).                                *)
THEOREM TimesOfReadingStay == Spec => ReadOnce
<1>1. IInv /\ [Next]_vars =>
        [\A row \in rows : \E new \in rows' :
           /\ new.id = row.id /\ new.at = row.at
           /\ new.level = row.level /\ new.category = row.category
           /\ row.read # Unread => new.read = row.read]_vars
  <2> SUFFICES ASSUME IInv, Next, NEW row \in rows
               PROVE  \E new \in rows' : Kept(row, new)
    BY DEF Kept
  <2>1. ASSUME rows \subseteq rows' PROVE \E new \in rows' : Kept(row, new)
    BY <2>1 DEF Kept
  <2>2. ASSUME NEW c \in Callers, CommitMark(c)
        PROVE  \E new \in rows' : Kept(row, new)
    <3>1. Marked(row, c) \in rows' /\ pc[c] = "update"
      BY <2>2 DEF CommitMark
    <3>2. row \in Row
      BY DEF IInv, TypeOK
    <3>3. row.id \in moved[c] => row.read = Unread
      BY <3>1 DEF IInv, MarkInv
    <3>4. Kept(row, Marked(row, c))
      BY <3>2, <3>3, MarkedRow DEF Kept, IInv
    <3> QED
      BY <3>1, <3>4
  <2>3. (\A c \in Callers : ~CommitMark(c)) => rows \subseteq rows'
    BY DEF Next, Tick, Notify, BeginMark, Update, RollbackMark
  <2> QED
    BY <2>1, <2>2, <2>3
<1> QED
  BY <1>1, Inductive, PTL DEF Spec, ReadOnce

(* A batch is marked as a whole or not at all (notification.go 341-343).   *)
THEOREM BatchesAreWhole == Spec => AllOrNothing
<1>1. IInv /\ [Next]_vars =>
        [\A c \in Callers : pc[c] = "update" /\ pc'[c] = "idle" =>
           \/ rows' = rows
           \/ \A id \in batch[c] : \E row \in rows' : row.id = id /\ row.read # Unread]_vars
  <2> SUFFICES ASSUME IInv, Next, NEW c \in Callers,
                      pc[c] = "update", pc'[c] = "idle", rows' # rows,
                      NEW id \in batch[c]
               PROVE  \E row \in rows' : row.id = id /\ row.read # Unread
    OBVIOUS
  <2>1. lock = c /\ c # NoOne
    BY NoOneIsNoCaller DEF IInv, MarkInv
  <2>2. PICK d \in Callers : CommitMark(d)
    BY <2>1 DEF Next, Tick, Notify, BeginMark, Update, RollbackMark
  <2>3. d = c
    BY <2>1, <2>2 DEF CommitMark, IInv, MarkInv
  <2>4. PICK r \in rows : r.id = id
    BY <2>2, <2>3 DEF CommitMark, AllPresent, Missing
  <2>5. todo[c] = {} /\ Marked(r, c) \in rows'
    BY <2>2, <2>3 DEF CommitMark
  <2>6. r \in Row /\ TypeOK
    BY DEF IInv, TypeOK
  <2>7. r.id \in moved[c] \/ r.read # Unread
    BY <2>4, <2>5 DEF IInv, MarkInv
  <2>8. Marked(r, c).id = id /\ Marked(r, c).read # Unread
    <3>1. CASE r.id \in moved[c]
      BY <2>4, <2>6, <3>1, MarkedRow, UnreadIsNoTime DEF Time
    <3>2. CASE r.id \notin moved[c]
      BY <2>4, <2>6, <2>7, <3>2, MarkedRow
    <3> QED
      BY <3>1, <3>2
  <2> QED
    BY <2>5, <2>8
<1> QED
  BY <1>1, Inductive, PTL DEF Spec, AllOrNothing

--------------------------------------------------------------------------------
(* List *)

(* The place of an instant among the texts of its second: .01 comes first, *)
(* then .11, .1 and no fraction at all.                                    *)
Place(t) == CASE t % 4 = 1 -> 0 [] t % 4 = 3 -> 1 [] t % 4 = 2 -> 2 [] OTHER -> 3

LEMMA Instant ==
  ASSUME NEW t \in Nat
  PROVE  /\ t \div 4 \in Nat /\ t % 4 \in {0, 1, 2, 3}
         /\ t = 4 * (t \div 4) + (t % 4)
OBVIOUS

LEMMA TextIs ==
  ASSUME NEW t \in Nat
  PROVE  FractionText(t) =
           CASE t % 4 = 1 -> <<0, 1>> [] t % 4 = 3 -> <<1, 1>>
             [] t % 4 = 2 -> <<1, Z>> [] OTHER -> <<Z, Z>>
<1>1. CASE t % 4 = 0
  BY <1>1 DEF FractionText
<1>2. CASE t % 4 = 1
  <2>1. (t % 4) \div 2 = 0 /\ t % 2 = 1
    BY <1>2
  <2> QED BY <1>2, <2>1 DEF FractionText
<1>3. CASE t % 4 = 2
  <2>1. (t % 4) \div 2 = 1 /\ t % 2 = 0
    BY <1>3
  <2> QED BY <1>3, <2>1 DEF FractionText
<1>4. CASE t % 4 = 3
  <2>1. (t % 4) \div 2 = 1 /\ t % 2 = 1
    BY <1>4
  <2> QED BY <1>4, <2>1 DEF FractionText
<1> QED
  BY <1>1, <1>2, <1>3, <1>4, Instant

LEMMA TextOrder ==
  ASSUME NEW s \in Nat, NEW t \in Nat
  PROVE  TextBefore(s, t) <=>
           \/ s \div 4 < t \div 4
           \/ s \div 4 = t \div 4 /\ Place(s) < Place(t)
<1>1. s % 4 \in {0, 1, 2, 3} /\ t % 4 \in {0, 1, 2, 3}
  BY Instant
<1>2. FractionText(s)[1] < FractionText(t)[1]
        \/ (FractionText(s)[1] = FractionText(t)[1] /\ FractionText(s)[2] < FractionText(t)[2])
      <=> Place(s) < Place(t)
  <2>1. CASE s % 4 = 0
    BY <1>1, <2>1, TextIs DEF Place, Z
  <2>2. CASE s % 4 = 1
    BY <1>1, <2>2, TextIs DEF Place, Z
  <2>3. CASE s % 4 = 2
    BY <1>1, <2>3, TextIs DEF Place, Z
  <2>4. CASE s % 4 = 3
    BY <1>1, <2>4, TextIs DEF Place, Z
  <2> QED BY <1>1, <2>1, <2>2, <2>3, <2>4
<1> QED
  BY <1>2 DEF TextBefore

LEMMA OnePlace ==
  ASSUME NEW s \in Nat, NEW t \in Nat, s \div 4 = t \div 4, Place(s) = Place(t)
  PROVE  s = t
<1>1. s % 4 = t % 4
  BY Instant DEF Place
<1> QED
  BY <1>1, Instant

(* What precedes means in numbers.  List orders rows totally and strictly. *)
Order(a, b) ==
  \/ b.at \div 4 < a.at \div 4
  \/ b.at \div 4 = a.at \div 4 /\ Place(b.at) < Place(a.at)
  \/ a.at = b.at /\ a.id > b.id

LEMMA PrecedesIs ==
  ASSUME NEW a \in Row, NEW b \in Row
  PROVE  Precedes(a, b) <=> Order(a, b)
<1>1. a.at \in Nat /\ b.at \in Nat
  BY BoundsAreNat DEF Row, Time
<1> QED
  BY <1>1, TextOrder DEF Precedes, Order

LEMMA RowNumbers ==
  ASSUME NEW a \in Row
  PROVE  a.id \in Nat /\ a.at \in Nat /\ a.at \div 4 \in Nat /\ Place(a.at) \in Nat
<1>1. a.id \in Nat /\ a.at \in Nat
  BY BoundsAreNat DEF Row, Time, Ids
<1> QED
  BY <1>1, Instant DEF Place

LEMMA Strict ==
  ASSUME NEW a \in Row
  PROVE  ~Precedes(a, a)
BY PrecedesIs, RowNumbers DEF Order

LEMMA Total ==
  ASSUME NEW a \in Row, NEW b \in Row, a.id # b.id
  PROVE  Precedes(a, b) \/ Precedes(b, a)
<1>1. CASE a.at = b.at
  BY <1>1, PrecedesIs, RowNumbers DEF Order
<1>2. CASE a.at # b.at
  <2>1. a.at \div 4 # b.at \div 4 \/ Place(a.at) # Place(b.at)
    BY <1>2, OnePlace, RowNumbers
  <2> QED
    BY <2>1, PrecedesIs, RowNumbers DEF Order
<1> QED
  BY <1>1, <1>2

LEMMA Transitive ==
  ASSUME NEW a \in Row, NEW b \in Row, NEW c \in Row,
         Precedes(a, b), Precedes(b, c)
  PROVE  Precedes(a, c)
<1> HIDE DEF Place
<1>1. Order(a, b) /\ Order(b, c)
  BY PrecedesIs
<1>2. Order(a, c)
  <2>1. CASE a.at = b.at \/ b.at = c.at
    BY <1>1, <2>1, RowNumbers DEF Order
  <2>2. CASE a.at # b.at /\ b.at # c.at
    <3>1. \/ b.at \div 4 < a.at \div 4
          \/ b.at \div 4 = a.at \div 4 /\ Place(b.at) < Place(a.at)
      BY <1>1, <2>2 DEF Order
    <3>2. \/ c.at \div 4 < b.at \div 4
          \/ c.at \div 4 = b.at \div 4 /\ Place(c.at) < Place(b.at)
      BY <1>1, <2>2 DEF Order
    <3>3. \/ c.at \div 4 < a.at \div 4
          \/ c.at \div 4 = a.at \div 4 /\ Place(c.at) < Place(a.at)
      BY <3>1, <3>2, RowNumbers
    <3> QED
      BY <3>3 DEF Order
  <2> QED
    BY <2>1, <2>2
<1> QED
  BY <1>2, PrecedesIs

--------------------------------------------------------------------------------

(* Rows that can be told apart by their ids. *)
Distinct(S) ==
  /\ S \subseteq Row /\ IsFiniteSet(S)
  /\ \A r, s \in S : r.id = s.id => r = s

(* The rows before a row, and so its rank. *)
Ahead(S, r) == {q \in S : Precedes(q, r)}
Rank(S, r)  == Cardinality(Ahead(S, r)) + 1

LEMMA RankType ==
  ASSUME NEW S, Distinct(S), NEW r \in S
  PROVE  Rank(S, r) \in 1 .. Cardinality(S)
<1>1. Ahead(S, r) \in SUBSET S /\ IsFiniteSet(S) /\ r \notin Ahead(S, r)
  BY Strict DEF Ahead, Distinct
<1>2. /\ IsFiniteSet(Ahead(S, r)) /\ Cardinality(Ahead(S, r)) <= Cardinality(S)
      /\ Cardinality(S) = Cardinality(Ahead(S, r)) => S = Ahead(S, r)
  BY <1>1, FS_Subset
<1>3. Cardinality(S) \in Nat /\ Cardinality(Ahead(S, r)) \in Nat
  BY <1>1, <1>2, FS_CardinalityType
<1>4. Cardinality(S) # Cardinality(Ahead(S, r))
  BY <1>1, <1>2
<1> QED
  BY <1>2, <1>3, <1>4 DEF Rank

LEMMA RanksGrow ==
  ASSUME NEW S, Distinct(S), NEW q \in S, NEW r \in S, Precedes(q, r)
  PROVE  Rank(S, q) < Rank(S, r)
<1>1. IsFiniteSet(S) /\ S \subseteq Row
  BY DEF Distinct
<1>2. IsFiniteSet(Ahead(S, q)) /\ IsFiniteSet(Ahead(S, r))
  <2>1. Ahead(S, q) \in SUBSET S /\ Ahead(S, r) \in SUBSET S
    BY DEF Ahead
  <2> QED
    BY <1>1, <2>1, FS_Subset
<1>3. Ahead(S, q) \in SUBSET Ahead(S, r)
  BY <1>1, Transitive DEF Ahead
<1>4. q \in Ahead(S, r) /\ q \notin Ahead(S, q)
  BY <1>1, Strict DEF Ahead
<1>5. /\ Cardinality(Ahead(S, q)) <= Cardinality(Ahead(S, r))
      /\ Cardinality(Ahead(S, q)) # Cardinality(Ahead(S, r))
  BY <1>2, <1>3, <1>4, FS_Subset
<1>6. Cardinality(Ahead(S, q)) \in Nat /\ Cardinality(Ahead(S, r)) \in Nat
  BY <1>2, FS_CardinalityType
<1> QED
  BY <1>5, <1>6 DEF Rank

(* Ranks are all taken, once each. *)
LEMMA RanksAreTaken ==
  ASSUME NEW S, Distinct(S)
  PROVE  /\ Cardinality(S) \in Nat
         /\ \A k \in 1 .. Cardinality(S) : \E r \in S : Rank(S, r) = k
<1> DEFINE n == Cardinality(S)
           rank == [r \in S |-> Rank(S, r)]
<1>1. IsFiniteSet(S) /\ n \in Nat
  BY FS_CardinalityType DEF Distinct
<1>2. rank \in [S -> 1 .. n]
  BY RankType
<1>3. ASSUME NEW q \in S, NEW r \in S, rank[q] = rank[r] PROVE q = r
  <2>1. Rank(S, q) = Rank(S, r) /\ Rank(S, q) \in Nat
    BY <1>3, RankType
  <2>2. ~Precedes(q, r) /\ ~Precedes(r, q)
    BY <2>1, RanksGrow
  <2>3. q.id = r.id
    BY <2>2, Total DEF Distinct
  <2> QED
    BY <2>3 DEF Distinct
<1>4. rank \in Injection(S, 1 .. n)
  <2> HIDE DEF rank
  <2> QED
    BY <1>2, <1>3 DEF Injection, IsInjective
<1>5. IsFiniteSet(1 .. n) /\ Cardinality(1 .. n) = n
  <2>1. 1 \in Int /\ n \in Int
    BY <1>1
  <2>2. /\ IsFiniteSet(1 .. n)
        /\ Cardinality(1 .. n) = IF 1 > n THEN 0 ELSE n - 1 + 1
    BY <2>1, FS_Interval
  <2> HIDE DEF n
  <2> QED
    BY <1>1, <2>2
<1>6. rank \in Surjection(S, 1 .. n)
  <2> HIDE DEF rank, n
  <2>1. Cardinality(S) = Cardinality(1 .. n)
    BY <1>5 DEF n
  <2> QED
    BY <1>4, <1>5, <2>1, FS_Injection
<1>7. \A k \in 1 .. n : \E r \in S : rank[r] = k
  <2> HIDE DEF rank
  <2> QED
    BY <1>6 DEF Surjection
<1> QED
  BY <1>1, <1>7

(* The rows of a statement can be sorted. *)
LEMMA SortedIs ==
  ASSUME NEW S, Distinct(S)
  PROVE  /\ Cardinality(S) \in Nat
         /\ Sorted(S) \in [1 .. Cardinality(S) -> S]
         /\ \A j, k \in 1 .. Cardinality(S) :
              j < k => Precedes(Sorted(S)[j], Sorted(S)[k])
<1> DEFINE n == Cardinality(S)
           s == [k \in 1 .. n |-> CHOOSE r \in S : Rank(S, r) = k]
<1>1. n \in Nat /\ \A k \in 1 .. n : s[k] \in S /\ Rank(S, s[k]) = k
  BY RanksAreTaken
<1>2. s \in [1 .. n -> S]
  BY <1>1
<1>3. ASSUME NEW j \in 1 .. n, NEW k \in 1 .. n, j < k
      PROVE  Precedes(s[j], s[k])
  <2>1. s[j] \in S /\ s[k] \in S /\ Rank(S, s[j]) < Rank(S, s[k])
    BY <1>1, <1>3
  <2> HIDE DEF s
  <2>2. ~Precedes(s[k], s[j])
    <3>1. Rank(S, s[j]) \in Nat /\ Rank(S, s[k]) \in Nat
      BY <2>1, RankType
    <3> QED
      BY <2>1, <3>1, RanksGrow
  <2>3. s[j] # s[k]
    <3>1. Rank(S, s[j]) \in Nat /\ Rank(S, s[k]) \in Nat
      BY <2>1, RankType
    <3> QED
      BY <2>1, <3>1
  <2> QED
    BY <2>1, <2>2, <2>3, Total DEF Distinct
<1>4. \E t \in [1 .. n -> S] : \A j, k \in DOMAIN t : j < k => Precedes(t[j], t[k])
  <2>1. DOMAIN s = 1 .. n
    OBVIOUS
  <2> HIDE DEF s
  <2> WITNESS s \in [1 .. n -> S]
  <2> QED
    BY <1>2, <1>3, <2>1
<1>5. /\ Sorted(S) \in [1 .. n -> S]
      /\ \A j, k \in DOMAIN Sorted(S) : j < k => Precedes(Sorted(S)[j], Sorted(S)[k])
  BY <1>4 DEF Sorted
<1> QED
  BY <1>1, <1>5

(* Sorting loses no row. *)
LEMMA SortedTakesAll ==
  ASSUME NEW S, Distinct(S)
  PROVE  \A r \in S : \E k \in 1 .. Cardinality(S) : Sorted(S)[k] = r
<1> DEFINE n == Cardinality(S)
           s == Sorted(S)
<1>1. /\ n \in Nat /\ s \in [1 .. n -> S]
      /\ \A j, k \in 1 .. n : j < k => Precedes(s[j], s[k])
  BY SortedIs
<1> HIDE DEF n, s
<1>2. ASSUME NEW j \in 1 .. n, NEW k \in 1 .. n, s[j] = s[k] PROVE j = k
  <2>1. s[j] \in S /\ ~Precedes(s[j], s[j])
    BY <1>1, Strict DEF Distinct
  <2> QED
    BY <1>1, <1>2, <2>1
<1>3. s \in Injection(1 .. n, S)
  BY <1>1, <1>2 DEF Injection, IsInjective
<1>4. Cardinality(1 .. n) = n
  <2>1. 1 \in Int /\ n \in Int
    BY <1>1
  <2>2. Cardinality(1 .. n) = IF 1 > n THEN 0 ELSE n - 1 + 1
    BY <2>1, FS_Interval
  <2> QED
    BY <1>1, <2>2
<1>5. s \in Surjection(1 .. n, S)
  <2>1. IsFiniteSet(S) /\ Cardinality(1 .. n) = Cardinality(S)
    BY <1>4 DEF n, Distinct
  <2> QED
    BY <1>3, <2>1, FS_Injection
<1> QED
  BY <1>5 DEF Surjection, n, s

(* The predicates of the statement, level by level. *)
LEMMA MatchesWanted ==
  ASSUME NEW f \in Filters, NEW row
  PROVE  Matches(row, f) <=> Wanted(row, f)
<1>1. f.min \in {"info", "warning", "error", AnyLevel} /\ AnyLevel \notin {"info", "warning", "error"}
  BY FiltersAreValid DEF Severity
<1>2. AtLeast(row.level, f.min) <=>
        /\ f.min = "error"   => row.level = "error"
        /\ f.min = "warning" => row.level \in {"warning", "error"}
        /\ f.min = "info"    => row.level \in {"info", "warning", "error"}
  <2>1. Severity["info"] = 0 /\ Severity["warning"] = 1 /\ Severity["error"] = 2
        /\ DOMAIN Severity = {"info", "warning", "error"}
    BY DEF Severity
  <2>2. CASE row.level \in {"info", "warning", "error"}
    BY <1>1, <2>1, <2>2 DEF AtLeast
  <2>3. CASE row.level \notin {"info", "warning", "error"}
    BY <1>1, <2>1, <2>3 DEF AtLeast
  <2> QED
    BY <2>2, <2>3
<1> QED
  BY <1>2 DEF Matches, Wanted

(* The head of a sorted sequence. *)
LEMMA HeadOf ==
  ASSUME NEW S, Distinct(S), NEW limit \in Nat
  PROVE  LET s     == Cut(Sorted(S), limit)
             given == {s[k] : k \in DOMAIN s}
         IN /\ given \subseteq S
            /\ \A j, k \in DOMAIN s : j < k => Precedes(s[j], s[k]) /\ s[j] # s[k]
            /\ limit > 0 => Len(s) <= limit
            /\ given # S => limit > 0 /\ Len(s) = limit
            /\ \A row \in S \ given, k \in DOMAIN s : Precedes(s[k], row)
<1> DEFINE n == Cardinality(S)
           t == Sorted(S)
           s == Cut(t, limit)
           m == IF limit = 0 \/ n <= limit THEN n ELSE limit
           given == {s[k] : k \in DOMAIN s}
<1>1. /\ n \in Nat /\ t \in [1 .. n -> S]
      /\ \A j, k \in 1 .. n : j < k => Precedes(t[j], t[k])
      /\ \A r \in S : \E k \in 1 .. n : t[k] = r
  BY SortedIs, SortedTakesAll
<1> HIDE DEF n, t
<1>2. t \in Seq(S) /\ Len(t) = n
  BY <1>1
<1>3. m \in 0 .. n /\ DOMAIN s = 1 .. m /\ Len(s) = m /\ \A k \in 1 .. m : s[k] = t[k]
  <2>1. CASE limit = 0 \/ n <= limit
    BY <1>1, <1>2, <2>1 DEF Cut
  <2>2. CASE ~(limit = 0 \/ n <= limit)
    <3>1. s = SubSeq(t, 1, limit) /\ m = limit /\ limit \in 1 .. n
      BY <1>1, <1>2, <2>2 DEF Cut
    <3>2. /\ SubSeq(t, 1, limit) \in Seq(S) /\ Len(SubSeq(t, 1, limit)) = limit
          /\ \A k \in 1 .. limit : SubSeq(t, 1, limit)[k] = t[k]
      <4> HIDE DEF s
      <4> QED
        BY <1>1, <1>2, <3>1
    <3>3. DOMAIN s = 1 .. limit /\ Len(s) = limit /\ \A k \in 1 .. limit : s[k] = t[k]
      <4> HIDE DEF s
      <4> QED
        BY <3>1, <3>2
    <3> QED
      BY <1>1, <3>1, <3>3
  <2> QED
    BY <2>1, <2>2
<1> HIDE DEF s, m
<1>4. \A k \in 1 .. m : k \in 1 .. n /\ s[k] \in S
  BY <1>1, <1>3
<1>5. given \subseteq S
  BY <1>3, <1>4
<1>6. ASSUME NEW j \in DOMAIN s, NEW k \in DOMAIN s, j < k
      PROVE  Precedes(s[j], s[k]) /\ s[j] # s[k]
  <2>1. Precedes(s[j], s[k]) /\ s[j] \in Row
    BY <1>1, <1>3, <1>4, <1>6 DEF Distinct
  <2> QED
    BY <2>1, Strict
<1>7. limit > 0 => Len(s) <= limit
  BY <1>1, <1>3 DEF m
<1>8. given # S => limit > 0 /\ Len(s) = limit
  <2> SUFFICES ASSUME limit = 0 \/ n <= limit PROVE given = S
    BY <1>1, <1>3 DEF m
  <2>1. m = n
    BY DEF m
  <2> QED
    BY <1>1, <1>3, <1>5, <2>1
<1>9. ASSUME NEW row \in S \ given, NEW k \in DOMAIN s PROVE Precedes(s[k], row)
  <2>1. PICK j \in 1 .. n : t[j] = row
    BY <1>1
  <2>2. j > m
    BY <1>1, <1>3, <1>9, <2>1
  <2> QED
    BY <1>1, <1>3, <1>4, <2>1, <2>2
<1> QED
  BY <1>5, <1>6, <1>7, <1>8, <1>9 DEF s, t

(* Every answer is the head of what matches, in a total order              *)
(* (notification.go 227-230, 241-244).                                     *)
THEOREM AnswersAreHeads == Spec => []HeadOfMatches
<1>1. TypeOK /\ IsFiniteSet(rows) /\ (\A r, s \in rows : r.id = s.id => r = s) => HeadOfMatches
  <2> SUFFICES ASSUME TypeOK, IsFiniteSet(rows), \A r, s \in rows : r.id = s.id => r = s,
                      NEW f \in Filters
               PROVE  LET s      == List(f)
                          given  == {s[k] : k \in DOMAIN s}
                          wanted == {row \in rows : Wanted(row, f)}
                      IN /\ given \subseteq wanted
                         /\ \A j, k \in DOMAIN s : j < k => Precedes(s[j], s[k]) /\ s[j] # s[k]
                         /\ f.limit > 0 => Len(s) <= f.limit
                         /\ given # wanted => f.limit > 0 /\ Len(s) = f.limit
                         /\ \A row \in wanted \ given, k \in DOMAIN s : Precedes(s[k], row)
    BY DEF HeadOfMatches
  <2> DEFINE S == {row \in rows : Matches(row, f)}
  <2>1. S \in SUBSET rows /\ S = {row \in rows : Wanted(row, f)}
    BY MatchesWanted
  <2>2. IsFiniteSet(S)
    BY <2>1, FS_Subset
  <2>3. Distinct(S)
    BY <2>1, <2>2 DEF Distinct, TypeOK
  <2>4. f.limit \in Nat
    BY FiltersAreValid
  <2> HIDE DEF S
  <2> QED
    BY <2>1, <2>3, <2>4, HeadOf DEF List, S
<1> QED
  BY <1>1, Inductive, PTL DEF IInv, RowsInv

================================================================================
