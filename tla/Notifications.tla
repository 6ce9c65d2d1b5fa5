----------------------------- MODULE Notifications -----------------------------
(***************************************************************************)
(* store/notification.go over the notification table of localdb.sql, used  *)
(* by several processes.  Notify is one insert; MarkRead is an immediate   *)
(* transaction that updates its ids one by one and commits only if all of  *)
(* them exist; List is one statement, a function of the committed rows.    *)
(*                                                                         *)
(* Timestamps are stored as text (formatTimestamp: RFC 3339 with the zeros *)
(* at the end of the fraction trimmed) and compared as text by List.  Here *)
(* a second has four instants: .00, .01, .10 and .11, in binary digits.    *)
(*                                                                         *)
(* The id of a notification is the number of its row, and its time is read *)
(* with the insert: the code draws both some statements before (203, 207), *)
(* so that rows may be inserted in another order.  So may they be where    *)
(* the clock is set back, which only moves forward here.  Properties speak *)
(* of the rows there are, and none of the order they were inserted in.     *)
(***************************************************************************)
EXTENDS Naturals, Sequences, FiniteSets

CONSTANTS
  Callers,      \* goroutines and processes that use the table
  Levels,       \* the levels rows are written with: Severity and foreign ones
  Categories,   \* the categories rows are written with
  Filters,      \* what List is asked for
  AnyLevel,     \* the empty MinLevel
  Unread,       \* read_at is null
  NoOne,        \* the write lock of the database is free
  MaxRows,      \* bound on the rows
  MaxTime       \* bound on the clock

ASSUME BoundsAreNat == MaxRows \in Nat /\ MaxTime \in Nat
ASSUME NoOneIsNoCaller == NoOne \notin Callers
ASSUME UnreadIsNoTime == Unread \notin 0 .. MaxTime

VARIABLES
  now,          \* the clock, in instants
  rows,         \* the notification table; a row's id is its rank in ULID order
  lock,         \* who holds the write lock
  pc,           \* the next statement of each caller
  batch,        \* the ids its MarkRead was given
  todo,         \* the ids it has still to update
  moved,        \* the rows it has updated, not committed yet
  readAt        \* the read_at it stamps

vars == <<now, rows, lock, pc, batch, todo, moved, readAt>>

Ids  == 1 .. MaxRows
Time == 0 .. MaxTime
Row  == [id : Ids, at : Time, level : Levels, category : Categories,
         read : Time \cup {Unread}]

TypeOK ==
  /\ now    \in Time
  /\ rows   \in SUBSET Row
  /\ lock   \in Callers \cup {NoOne}
  /\ pc     \in [Callers -> {"idle", "update"}]
  /\ batch  \in [Callers -> SUBSET Ids]
  /\ todo   \in [Callers -> SUBSET Ids]
  /\ moved  \in [Callers -> SUBSET Ids]
  /\ readAt \in [Callers -> Time]

Init ==
  /\ now    = 0
  /\ rows   = {}
  /\ lock   = NoOne
  /\ pc     = [c \in Callers |-> "idle"]
  /\ batch  = [c \in Callers |-> {}]
  /\ todo   = [c \in Callers |-> {}]
  /\ moved  = [c \in Callers |-> {}]
  /\ readAt = [c \in Callers |-> 0]

Tick ==
  /\ now < MaxTime
  /\ now' = now + 1
  /\ UNCHANGED <<rows, lock, pc, batch, todo, moved, readAt>>

--------------------------------------------------------------------------------
(* Notify *)

(* The validated insert, which waits for the write lock.  What follows it  *)
(* only reads the row back.  A level outside Severity is a row written by  *)
(* another version of the program, which List and MarkRead must live with. *)
Notify(level, category) ==
  LET id == Cardinality(rows) + 1 IN
  /\ lock = NoOne
  /\ id \in Ids
  /\ rows' = rows \cup {[id |-> id, at |-> now, level |-> level,
                         category |-> category, read |-> Unread]}
  /\ UNCHANGED <<now, lock, pc, batch, todo, moved, readAt>>

--------------------------------------------------------------------------------
(* MarkRead *)

(* Begin, which takes the write lock, and the stamp. *)
BeginMark(c, ids) ==
  /\ pc[c] = "idle"
  /\ ids # {}
  /\ lock = NoOne
  /\ lock'   = c
  /\ pc'     = [pc     EXCEPT ![c] = "update"]
  /\ batch'  = [batch  EXCEPT ![c] = ids]
  /\ todo'   = [todo   EXCEPT ![c] = ids]
  /\ moved'  = [moved  EXCEPT ![c] = {}]
  /\ readAt' = [readAt EXCEPT ![c] = now]
  /\ UNCHANGED <<now, rows>>

(* An update without "and read_at is null".                                *)
UpdatesAlways(row, id) == row.id = id

(* update notification ... where id = ? and read_at is null *)
Updates(row, id) == row.id = id /\ row.read = Unread

(* One id of the loop. *)
Update(c, id) ==
  /\ pc[c] = "update"
  /\ id \in todo[c]
  /\ todo'  = [todo  EXCEPT ![c] = @ \ {id}]
  /\ moved' = [moved EXCEPT ![c] = @ \cup {row.id : row \in {r \in rows : Updates(r, id)}}]
  /\ UNCHANGED <<now, rows, lock, pc, batch, readAt>>

Missing(c) == {id \in batch[c] : \A row \in rows : row.id # id}

(* A MarkRead that goes on when only some of its ids are missing.          *)
NothingMissing(c) == Missing(c) # batch[c]

AllPresent(c) == Missing(c) = {}

Marked(row, c) ==
  [id |-> row.id, at |-> row.at, level |-> row.level, category |-> row.category,
   read |-> IF row.id \in moved[c] THEN readAt[c] ELSE row.read]

(* The end of the call, with its locals and the write lock. *)
Return(c) ==
  /\ lock'   = NoOne
  /\ pc'     = [pc     EXCEPT ![c] = "idle"]
  /\ batch'  = [batch  EXCEPT ![c] = {}]
  /\ todo'   = [todo   EXCEPT ![c] = {}]
  /\ moved'  = [moved  EXCEPT ![c] = {}]
  /\ readAt' = [readAt EXCEPT ![c] = 0]

CommitMark(c) ==
  /\ pc[c] = "update"
  /\ todo[c] = {}
  /\ AllPresent(c)
  /\ rows' = {Marked(row, c) : row \in rows}
  /\ Return(c)
  /\ UNCHANGED <<now>>

(* An id is missing, a statement fails, or the process is killed: the      *)
(* deferred Rollback, or SQLite itself, undoes the updates.                *)
RollbackMark(c) ==
  /\ pc[c] = "update"
  /\ Return(c)
  /\ UNCHANGED <<now, rows>>

--------------------------------------------------------------------------------
(* List *)

Severity == [level \in {"info", "warning", "error"} |->
  CASE level = "info" -> 0 [] level = "warning" -> 1 [] OTHER -> 2]

(* The filters validate lets through. *)
ASSUME FiltersAreValid ==
  /\ AnyLevel \notin DOMAIN Severity
  /\ \A f \in Filters : f.min \in DOMAIN Severity \cup {AnyLevel} /\ f.limit \in Nat

(* A filter that folds the empty MinLevel into the lowest level.           *)
AtLeastFolded(level, min) ==
  /\ level \in DOMAIN Severity
  /\ Severity[level] >= IF min = AnyLevel THEN 0 ELSE Severity[min]

(* No level predicate at all for the empty MinLevel; only known levels for *)
(* any other.                                                              *)
AtLeast(level, min) ==
  \/ min = AnyLevel
  \/ level \in DOMAIN Severity /\ Severity[level] >= Severity[min]

Matches(row, f) ==
  /\ AtLeast(row.level, f.min)
  /\ f.categories # {} => row.category \in f.categories
  /\ f.unread => row.read = Unread

(* The characters of the fraction, as far as they are written, and the Z   *)
(* after them: Z sorts after any digit, and after the point.               *)
Z == 2
FractionText(t) ==
  LET first == (t % 4) \div 2  second == t % 2 IN
  IF t % 4 = 0 THEN <<Z, Z>>
  ELSE IF second = 0 THEN <<first, Z>> ELSE <<first, second>>

TextBefore(s, t) ==
  LET a == FractionText(s)  b == FractionText(t) IN
  \/ s \div 4 < t \div 4
  \/ /\ s \div 4 = t \div 4
     /\ a[1] < b[1] \/ (a[1] = b[1] /\ a[2] < b[2])

(* order by created_at desc, id desc *)
Precedes(a, b) ==
  \/ TextBefore(b.at, a.at)
  \/ a.at = b.at /\ a.id > b.id

(* A limit that keeps one row too many.                                    *)
CutOffByOne(s, limit) ==
  IF limit = 0 \/ Len(s) <= limit THEN s ELSE SubSeq(s, 1, limit + 1)

Cut(s, limit) == IF limit = 0 \/ Len(s) <= limit THEN s ELSE SubSeq(s, 1, limit)

Sorted(S) ==
  CHOOSE s \in [1 .. Cardinality(S) -> S] :
    \A j, k \in DOMAIN s : j < k => Precedes(s[j], s[k])

(* List: the rows of one statement, which sees the last commit. *)
List(f) == Cut(Sorted({row \in rows : Matches(row, f)}), f.limit)

Next ==
  \/ Tick
  \/ \E level \in Levels, category \in Categories : Notify(level, category)
  \/ \E c \in Callers :
       \/ \E ids \in SUBSET Ids : BeginMark(c, ids)
       \/ \E id \in Ids : Update(c, id)
       \/ CommitMark(c)
       \/ RollbackMark(c)

Spec == Init /\ [][Next]_vars

--------------------------------------------------------------------------------
(* Properties *)

(* A notification is never lost or rewritten, and the time it was read at, *)
(* once there, does not move, whoever marks it again (notification.go      *)
(* 344-346).                                                               *)
ReadOnce ==
  [][\A row \in rows : \E new \in rows' :
       /\ new.id = row.id /\ new.at = row.at
       /\ new.level = row.level /\ new.category = row.category
       /\ row.read # Unread => new.read = row.read]_vars

(* A batch is marked as a whole or not at all: any step of MarkRead that   *)
(* touches the table leaves every id of its batch there and read           *)
(* (notification.go 341-343).                                              *)
AllOrNothing ==
  [][\A c \in Callers : pc[c] = "update" /\ pc'[c] = "idle" =>
       \/ rows' = rows
       \/ \A id \in batch[c] : \E row \in rows' : row.id = id /\ row.read # Unread
     ]_vars

(* An answer is the head of what matches: rows that match, none twice,     *)
(* no more than the limit, and every matching row left out comes after all *)
(* of them, which needs the order to be total.  Without a minimum level    *)
(* the levels of other versions match too (notification.go 227-230,        *)
(* 241-244).                                                               *)
Wanted(row, f) ==
  /\ f.min = "error"   => row.level = "error"
  /\ f.min = "warning" => row.level \in {"warning", "error"}
  /\ f.min = "info"    => row.level \in {"info", "warning", "error"}
  /\ f.categories = {} \/ row.category \in f.categories
  /\ ~f.unread \/ row.read = Unread

HeadOfMatches ==
  \A f \in Filters :
    LET s == List(f)
        given == {s[k] : k \in DOMAIN s}
        wanted == {row \in rows : Wanted(row, f)}
    IN /\ given \subseteq wanted
       /\ \A j, k \in DOMAIN s : j < k => Precedes(s[j], s[k]) /\ s[j] # s[k]
       /\ f.limit > 0 => Len(s) <= f.limit
       /\ given # wanted => f.limit > 0 /\ Len(s) = f.limit
       /\ \A row \in wanted \ given, k \in DOMAIN s : Precedes(s[k], row)

(* "List returns the notifications matching filter, newest first"          *)
(* (notification.go 227).  The order of the texts is not the order of the  *)
(* times: "05Z" sorts after "05.1Z".                                       *)
NewestFirst ==
  \A f \in Filters : LET s == List(f) IN
    \A j, k \in DOMAIN s : j < k => s[j].at >= s[k].at

================================================================================
