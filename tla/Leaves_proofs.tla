----------------------------- MODULE Leaves_proofs -----------------------------
(***************************************************************************)
(* Proofs about the parts that call no other one: the ids, git's status,   *)
(* the other calls to git, the front matter of documents and what a schema *)
(* refuses, each for any number of callers, calls, tokens, changes, lines, *)
(* nodes and fields.                                                       *)
(***************************************************************************)
EXTENDS IdGenerator, GitStatus, GitCalls, FrontMatter, SchemaErrors,
        FiniteSetTheorems, SequenceTheorems, NaturalsInduction, WellFoundedInduction, TLAPS

--------------------------------------------------------------------------------
(* Ids: creation order is sort order.  A call reads the clock after every  *)
(* id it can be compared with was given out, the clock only goes back when *)
(* it is set back, and the reader only counts up while the millisecond     *)
(* stays the one it gave out last and its sums fit.                        *)

(* Every id, every call that failed and every call under way is one of the *)
(* calls begun.                                                            *)
UnderWay == {c \in Callers : call[c].busy}

CallsInv ==
  IsFiniteSet(UnderWay) /\ Len(ids) + overflows + Cardinality(UnderWay) <= calls

(* The overflows an id saw before it are those of the ids before it, or    *)
(* more.                                                                   *)
OverInv ==
  \A j \in 1 .. Len(ids) :
    ids[j].over <= overflows /\ \A i \in 1 .. j : ids[i].over <= ids[j].over

(* The reader knows the last id, unless it has overflowed since. *)
LastInv ==
  ids # <<>> /\ ids[Len(ids)].over = overflows =>
    last.ms = ids[Len(ids)].ms /\ last.entropy = ids[Len(ids)].entropy

(* Unless it was set back, the clock does not go back: a call that has     *)
(* read it is not behind any id given out before it began.                 *)
ClockInv ==
  /\ \A i \in 1 .. Len(ids) :
       ids[i].backs <= backs /\ (ids[i].backs = backs => ids[i].ms <= now)
  /\ \A c \in UnderWay :
       /\ call[c].backs <= backs /\ (call[c].backs = backs => call[c].ms <= now)
       /\ call[c].after <= Len(ids)
       /\ \A i \in 1 .. call[c].after :
            ids[i].backs = call[c].backs => ids[i].ms <= call[c].ms
  /\ \A j \in 1 .. Len(ids) :
       /\ ids[j].after < j
       /\ \A i \in 1 .. ids[j].after :
            ids[i].backs = ids[j].backs => ids[i].ms <= ids[j].ms

(* As long as the millisecond stays and the sums fit, the entropies go up, *)
(* but from a zero to a zero.                                              *)
Unbroken(i, j) == ids[i].over = ids[j].over /\ \A k \in i .. j : ids[k].ms = ids[j].ms

Above(e, f) == f < e \/ (e = 0 /\ f = 0)

EntropyInv ==
  \A j \in 1 .. Len(ids) : \A i \in 1 .. j - 1 :
    Unbroken(i, j) => Above(ids[j].entropy, ids[i].entropy)

IdInv == TypeOK /\ CallsInv /\ OverInv /\ LastInv /\ ClockInv /\ EntropyInv

LEMMA IdInitInv == Init => IdInv
<1> SUFFICES ASSUME Init PROVE IdInv
  OBVIOUS
<1>1. TypeOK
  BY BoundsAreNat DEF Init, TypeOK, Ms, Entropy, Call, Idle
<1>2. CallsInv
  <2>1. UnderWay = {}
    BY DEF Init, UnderWay, Idle
  <2> QED
    BY <2>1, FS_EmptySet DEF Init, CallsInv
<1>3. OverInv /\ LastInv /\ ClockInv /\ EntropyInv
  BY DEF Init, OverInv, LastInv, ClockInv, EntropyInv, UnderWay, Idle
<1> QED
  BY <1>1, <1>2, <1>3 DEF IdInv

(* Facts of every state. *)
LEMMA IdTyped ==
  ASSUME IdInv
  PROVE  /\ Len(ids) \in Nat /\ overflows \in Nat /\ calls \in Nat /\ backs \in Nat
         /\ now \in Nat /\ Len(ids) <= calls /\ overflows <= calls
         /\ Cardinality(UnderWay) \in Nat
         /\ \A i \in 1 .. Len(ids) :
              /\ ids[i].ms \in Nat /\ ids[i].entropy \in Nat /\ ids[i].after \in Nat
              /\ ids[i].over \in Nat /\ ids[i].backs \in Nat
         /\ \A c \in UnderWay :
              call[c].ms \in Nat /\ call[c].after \in Nat /\ call[c].backs \in Nat
<1>1. ids \in Seq(Id) /\ calls \in 0 .. MaxCalls /\ overflows \in 0 .. MaxCalls
  BY DEF IdInv, TypeOK
<1>2. Len(ids) \in Nat /\ calls \in Nat /\ overflows \in Nat
  BY <1>1, BoundsAreNat
<1>3. \A i \in 1 .. Len(ids) : ids[i] \in Id
  BY <1>1
<1>4. Cardinality(UnderWay) \in Nat
  BY FS_CardinalityType DEF IdInv, CallsInv
<1>5. Len(ids) <= calls /\ overflows <= calls
  BY <1>2, <1>4 DEF IdInv, CallsInv
<1>6. /\ backs \in Nat /\ now \in Nat
      /\ \A c \in UnderWay :
           call[c].ms \in Nat /\ call[c].after \in Nat /\ call[c].backs \in Nat
  BY BoundsAreNat DEF IdInv, TypeOK, Ms, Call, UnderWay
<1> QED
  BY <1>2, <1>3, <1>4, <1>5, <1>6, BoundsAreNat DEF Id, Ms, Entropy

(* The clock goes on, or is set back. *)
LEMMA ClockMoves ==
  ASSUME IdInv, Tick \/ \E ms \in Ms : StepBack(ms)
  PROVE  IdInv'
<1>1. /\ \/ now' = now + 1 /\ now < MaxMs /\ backs' = backs
         \/ now' \in Ms /\ backs' = backs + 1 /\ backs < MaxBacks
      /\ UNCHANGED <<last, call, ids, calls, overflows>>
  BY DEF Tick, StepBack
<1>2. TypeOK'
  BY <1>1, BoundsAreNat DEF IdInv, TypeOK, Ms
<1>3. CallsInv' /\ OverInv' /\ LastInv' /\ EntropyInv'
  BY <1>1 DEF IdInv, CallsInv, OverInv, LastInv, EntropyInv, Unbroken, UnderWay
<1>4. ClockInv'
  <2>1. \A i \in 1 .. Len(ids) :
          ids[i].backs <= backs' /\ (ids[i].backs = backs' => ids[i].ms <= now')
    BY <1>1, IdTyped DEF IdInv, ClockInv
  <2>2. \A c \in UnderWay :
          call[c].backs <= backs' /\ (call[c].backs = backs' => call[c].ms <= now')
    BY <1>1, IdTyped DEF IdInv, ClockInv
  <2> QED
    BY <1>1, <2>1, <2>2 DEF IdInv, ClockInv, UnderWay
<1> QED
  BY <1>2, <1>3, <1>4 DEF IdInv

LEMMA ReadClockKeeps ==
  ASSUME IdInv, NEW c \in Callers, ReadClock(c)
  PROVE  IdInv'
<1>1. /\ ~call[c].busy /\ calls < MaxCalls /\ calls' = calls + 1
      /\ call' = [call EXCEPT ![c] = [busy |-> TRUE, ms |-> now, after |-> Len(ids),
                                      backs |-> backs]]
      /\ UNCHANGED <<now, last, ids, backs, overflows>>
  BY DEF ReadClock
<1>2. Len(ids) \in 0 .. MaxCalls
  BY <1>1, IdTyped, BoundsAreNat DEF IdInv, TypeOK
<1>3. TypeOK'
  BY <1>1, <1>2, BoundsAreNat DEF IdInv, TypeOK, Call
<1>4. /\ call'[c].busy /\ call'[c].ms = now /\ call'[c].after = Len(ids)
      /\ call'[c].backs = backs
      /\ \A d \in Callers \ {c} : call'[d] = call[d]
  BY <1>1 DEF IdInv, TypeOK
<1>5. UnderWay' = UnderWay \cup {c} /\ c \notin UnderWay
  BY <1>1, <1>4 DEF UnderWay
<1>6. CallsInv'
  <2>1. IsFiniteSet(UnderWay') /\ Cardinality(UnderWay') = Cardinality(UnderWay) + 1
    BY <1>5, FS_AddElement DEF IdInv, CallsInv
  <2> QED
    BY <1>1, <2>1, IdTyped DEF IdInv, CallsInv
<1>7. OverInv' /\ LastInv' /\ EntropyInv'
  BY <1>1 DEF IdInv, OverInv, LastInv, EntropyInv, Unbroken
<1>8. ClockInv'
  <2>1. ASSUME NEW d \in UnderWay'
        PROVE  /\ call'[d].backs <= backs /\ (call'[d].backs = backs => call'[d].ms <= now)
               /\ call'[d].after <= Len(ids)
               /\ \A i \in 1 .. call'[d].after :
                    ids[i].backs = call'[d].backs => ids[i].ms <= call'[d].ms
    <3>1. CASE d = c
      BY <1>4, <3>1, IdTyped DEF IdInv, ClockInv
    <3>2. CASE d # c
      BY <1>4, <1>5, <3>2 DEF IdInv, ClockInv, UnderWay
    <3> QED
      BY <3>1, <3>2
  <2> QED
    BY <1>1, <2>1 DEF IdInv, ClockInv
<1> QED
  BY <1>3, <1>6, <1>7, <1>8 DEF IdInv

(* A call returns. *)
LEMMA Returns ==
  ASSUME IdInv, NEW c \in Callers, call[c].busy, call' = [call EXCEPT ![c] = Idle]
  PROVE  /\ c \in UnderWay /\ call' \in [Callers -> Call]
         /\ IsFiniteSet(UnderWay') /\ Cardinality(UnderWay') = Cardinality(UnderWay) - 1
         /\ \A d \in UnderWay' : d \in UnderWay /\ call'[d] = call[d]
<1>1. /\ ~call'[c].busy
      /\ \A d \in Callers \ {c} : call'[d] = call[d]
  BY DEF IdInv, TypeOK, Idle
<1>2. UnderWay' = UnderWay \ {c} /\ c \in UnderWay
  BY <1>1 DEF UnderWay
<1>3. IsFiniteSet(UnderWay') /\ Cardinality(UnderWay') = Cardinality(UnderWay) - 1
  BY <1>2, FS_RemoveElement DEF IdInv, CallsInv
<1>4. Idle \in Call
  BY BoundsAreNat DEF Idle, Call, Ms
<1>5. call' \in [Callers -> Call]
  BY <1>4 DEF IdInv, TypeOK
<1> QED
  BY <1>1, <1>2, <1>3, <1>5

LEMMA NewIdKeeps ==
  ASSUME IdInv, NEW c \in Callers, NewId(c)
  PROVE  IdInv'
<1>1. PICK e \in MonotonicRead(call[c].ms) :
        /\ call[c].busy /\ e <= MaxEntropy
        /\ last' = [ms |-> call[c].ms, entropy |-> e]
        /\ ids'  = Append(ids, [ms |-> call[c].ms, entropy |-> e, after |-> call[c].after,
                                backs |-> call[c].backs, over |-> overflows])
        /\ call' = [call EXCEPT ![c] = Idle]
        /\ UNCHANGED <<now, calls, backs, overflows>>
  BY DEF NewId
<1> DEFINE new == [ms |-> call[c].ms, entropy |-> e, after |-> call[c].after,
                   backs |-> call[c].backs, over |-> overflows]
           n == Len(ids)
<1>2. /\ e \in Entropy /\ e \in Nat
      /\ last.entropy # 0 /\ last.ms = call[c].ms => e > last.entropy
  BY <1>1, BoundsAreNat DEF MonotonicRead, IdInv, TypeOK, Entropy
<1>3. /\ new \in Id /\ call[c].ms \in Ms /\ call[c].ms \in Nat /\ call[c].after \in Nat
      /\ call[c].backs \in Nat
  BY <1>2, BoundsAreNat DEF IdInv, TypeOK, Id, Call, Ms
<1>4. /\ n \in Nat /\ ids' \in Seq(Id) /\ Len(ids') = n + 1 /\ ids'[n + 1] = new
      /\ \A i \in 1 .. n : ids'[i] = ids[i]
  BY <1>1, <1>3 DEF IdInv, TypeOK
<1>5. TypeOK'
  <2>1. last' \in [ms : Ms, entropy : Entropy]
    BY <1>1, <1>2, <1>3
  <2> QED
    BY <1>1, <1>4, <2>1, Returns DEF IdInv, TypeOK
<1>6. /\ IsFiniteSet(UnderWay') /\ Cardinality(UnderWay') = Cardinality(UnderWay) - 1
      /\ c \in UnderWay /\ \A d \in UnderWay' : d \in UnderWay /\ call'[d] = call[d]
  BY <1>1, Returns
<1>7. CallsInv'
  BY <1>1, <1>4, <1>6, IdTyped DEF IdInv, CallsInv
<1>8. LastInv'
  BY <1>1, <1>4 DEF LastInv
<1>9. /\ call[c].backs <= backs /\ (call[c].backs = backs => call[c].ms <= now)
      /\ call[c].after <= n
      /\ \A i \in 1 .. call[c].after : ids[i].backs = call[c].backs => ids[i].ms <= call[c].ms
  BY <1>6 DEF IdInv, ClockInv
<1>10. ClockInv'
  <2>1. \A i \in 1 .. Len(ids') :
          ids'[i].backs <= backs' /\ (ids'[i].backs = backs' => ids'[i].ms <= now')
    BY <1>1, <1>4, <1>9 DEF IdInv, ClockInv
  <2>2. ASSUME NEW d \in UnderWay'
        PROVE  /\ call'[d].backs <= backs'
               /\ call'[d].backs = backs' => call'[d].ms <= now'
               /\ call'[d].after <= Len(ids')
               /\ \A i \in 1 .. call'[d].after :
                    ids'[i].backs = call'[d].backs => ids'[i].ms <= call'[d].ms
    <3>1. /\ call'[d] = call[d] /\ call[d].backs <= backs
          /\ call[d].backs = backs => call[d].ms <= now
          /\ call[d].after <= n /\ call[d].after \in Nat
          /\ \A i \in 1 .. call[d].after :
               ids[i].backs = call[d].backs => ids[i].ms <= call[d].ms
      BY <1>6, IdTyped DEF IdInv, ClockInv
    <3> QED
      BY <1>1, <1>4, <3>1
  <2>3. ASSUME NEW j \in 1 .. Len(ids')
        PROVE  /\ ids'[j].after < j
               /\ \A i \in 1 .. ids'[j].after :
                    ids'[i].backs = ids'[j].backs => ids'[i].ms <= ids'[j].ms
    <3>1. CASE j = n + 1
      BY <1>3, <1>4, <1>9, <3>1
    <3>2. CASE j \in 1 .. n
      <4>1. /\ ids'[j] = ids[j] /\ ids[j].after < j /\ ids[j].after \in Nat
            /\ \A i \in 1 .. ids[j].after :
                 ids[i].backs = ids[j].backs => ids[i].ms <= ids[j].ms
        BY <1>4, <3>2, IdTyped DEF IdInv, ClockInv
      <4> QED
        BY <1>4, <3>2, <4>1
    <3> QED
      BY <1>4, <3>1, <3>2
  <2> QED
    BY <2>1, <2>2, <2>3 DEF ClockInv
<1>11. OverInv'
  <2> SUFFICES ASSUME NEW j \in 1 .. n + 1
               PROVE  ids'[j].over <= overflows /\ \A i \in 1 .. j : ids'[i].over <= ids'[j].over
    BY <1>1, <1>4 DEF OverInv
  <2>1. CASE j \in 1 .. n
    <3>1. ids[j].over <= overflows /\ \A i \in 1 .. j : ids[i].over <= ids[j].over
      BY <2>1 DEF IdInv, OverInv
    <3> QED
      BY <1>4, <2>1, <3>1
  <2>2. CASE j = n + 1
    <3>1. \A i \in 1 .. n : ids[i].over <= overflows
      BY DEF IdInv, OverInv
    <3> QED
      BY <1>4, <2>2, <3>1, IdTyped
  <2> QED
    BY <1>4, <2>1, <2>2
<1>12. EntropyInv'
  <2> SUFFICES ASSUME NEW j \in 1 .. n + 1, NEW i \in 1 .. j - 1,
                      ids'[i].over = ids'[j].over,
                      \A k \in i .. j : ids'[k].ms = ids'[j].ms
               PROVE  Above(ids'[j].entropy, ids'[i].entropy)
    BY <1>4 DEF EntropyInv, Unbroken
  <2>1. CASE j \in 1 .. n
    <3>1. \A k \in i .. j : ids'[k] = ids[k]
      BY <1>4, <2>1
    <3>2. ids'[i] = ids[i] /\ ids'[j] = ids[j]
      BY <1>4, <2>1
    <3>3. Unbroken(i, j)
      BY <1>4, <2>1, <3>1, <3>2 DEF Unbroken
    <3> QED
      BY <2>1, <3>2, <3>3 DEF IdInv, EntropyInv
  <2>2. CASE j = n + 1
    <3>1. n \in 1 .. n /\ i \in 1 .. n /\ ids # <<>>
      BY <1>4, <2>2 DEF IdInv, TypeOK
    <3>2. \A k \in i .. n : ids[k].ms = call[c].ms
      <4> SUFFICES ASSUME NEW k \in i .. n PROVE ids[k].ms = call[c].ms
        OBVIOUS
      <4>1. k \in i .. j /\ k \in 1 .. n
        BY <1>4, <2>2, <3>1
      <4> QED
        BY <1>4, <2>2, <4>1
    <3>3. ids'[i] = ids[i] /\ ids'[j].entropy = e /\ ids[i].over = overflows
      BY <1>4, <2>2, <3>1
    <3>4. ids[n].over = overflows
      <4>1. ids[n].over <= overflows /\ ids[i].over <= ids[n].over
        BY <3>1 DEF IdInv, OverInv
      <4> QED
        BY <3>1, <3>3, <4>1, IdTyped
    <3>5. last.ms = ids[n].ms /\ last.entropy = ids[n].entropy
      BY <3>1, <3>4 DEF IdInv, LastInv
    <3>6. e \in Nat /\ ids[i].entropy \in Nat /\ ids[n].entropy \in Nat
      BY <1>2, <3>1, IdTyped
    <3>7. Above(e, ids[n].entropy)
      <4>1. ids[n].ms = call[c].ms
        BY <3>1, <3>2
      <4> QED
        BY <1>2, <3>5, <3>6, <4>1 DEF Above
    <3>8. i < n => Above(ids[n].entropy, ids[i].entropy)
      <4> SUFFICES ASSUME i < n PROVE Above(ids[n].entropy, ids[i].entropy)
        OBVIOUS
      <4>1. Unbroken(i, n)
        BY <1>4, <3>1, <3>2, <3>3, <3>4 DEF Unbroken
      <4>2. i \in 1 .. n - 1
        BY <1>4, <3>1
      <4> QED
        BY <3>1, <4>1, <4>2 DEF IdInv, EntropyInv
    <3>9. Above(e, ids[i].entropy)
      <4>1. CASE i = n
        BY <3>7, <4>1
      <4>2. CASE i < n
        BY <3>6, <3>7, <3>8, <4>2 DEF Above
      <4> QED
        BY <1>4, <3>1, <4>1, <4>2
    <3> QED
      BY <3>3, <3>9
  <2> QED
    BY <1>4, <2>1, <2>2
<1> QED
  BY <1>5, <1>7, <1>8, <1>10, <1>11, <1>12 DEF IdInv

LEMMA OverflowKeeps ==
  ASSUME IdInv, NEW c \in Callers, Overflow(c)
  PROVE  IdInv'
<1>1. PICK e \in MonotonicRead(call[c].ms) :
        /\ call[c].busy /\ e > MaxEntropy
        /\ last' = [last EXCEPT !.entropy = e - (MaxEntropy + 1)]
        /\ call' = [call EXCEPT ![c] = Idle]
        /\ overflows' = overflows + 1
        /\ UNCHANGED <<now, ids, calls, backs>>
  BY DEF Overflow
<1>2. /\ IsFiniteSet(UnderWay') /\ Cardinality(UnderWay') = Cardinality(UnderWay) - 1
      /\ call' \in [Callers -> Call]
      /\ \A d \in UnderWay' : d \in UnderWay /\ call'[d] = call[d]
  BY <1>1, Returns
<1>3. CallsInv'
  BY <1>1, <1>2, IdTyped DEF IdInv, CallsInv
<1>4. TypeOK'
  <2>1. e - (MaxEntropy + 1) \in Entropy
    BY <1>1, BoundsAreNat DEF MonotonicRead, Entropy, IdInv, TypeOK
  <2>2. last' \in [ms : Ms, entropy : Entropy]
    BY <1>1, <2>1 DEF IdInv, TypeOK
  <2>3. Cardinality(UnderWay') \in Nat
    BY <1>2, FS_CardinalityType
  <2>4. overflows' \in 0 .. MaxCalls
    BY <1>1, <1>3, <2>3, IdTyped, BoundsAreNat DEF CallsInv, IdInv, TypeOK
  <2> QED
    BY <1>1, <1>2, <2>2, <2>4 DEF IdInv, TypeOK
<1>5. OverInv' /\ LastInv'
  <2>1. \A i \in 1 .. Len(ids) : ids[i].over <= overflows
    BY DEF IdInv, OverInv
  <2>2. OverInv'
    BY <1>1, <2>1, IdTyped DEF IdInv, OverInv
  <2>3. ids # <<>> => Len(ids) \in 1 .. Len(ids)
    BY DEF IdInv, TypeOK
  <2> QED
    BY <1>1, <2>1, <2>2, <2>3, IdTyped DEF LastInv
<1>6. EntropyInv'
  BY <1>1 DEF IdInv, EntropyInv, Unbroken
<1>7. ClockInv'
  BY <1>1, <1>2 DEF IdInv, ClockInv
<1> QED
  BY <1>3, <1>4, <1>5, <1>6, <1>7 DEF IdInv

LEMMA IdNextInv == IdInv /\ [Next]_vars => IdInv'
<1> SUFFICES ASSUME IdInv, [Next]_vars PROVE IdInv'
  OBVIOUS
<1>1. CASE UNCHANGED vars
  BY <1>1 DEF vars, IdInv, TypeOK, CallsInv, OverInv, LastInv, ClockInv, EntropyInv, Unbroken,
             UnderWay
<1>2. CASE Next
  BY <1>2, ClockMoves, ReadClockKeeps, NewIdKeeps, OverflowKeeps DEF Next
<1> QED
  BY <1>1, <1>2

LEMMA IdInductive == Spec => []IdInv
BY IdInitInv, IdNextInv, PTL DEF Spec

--------------------------------------------------------------------------------
(* The theorems *)

(* Every variable has its type; the calls bound the ids (ulid.go 24-60).   *)
THEOREM IdTypeCorrect == Spec => []TypeOK
BY IdInductive, PTL DEF IdInv

(* Creation order is sort order, up to the exception CreationOrder names   *)
(* (ulid.go 24-29, log_entry.go 23-25).                                    *)
THEOREM IdsSortAsCreated == Spec => []CreationOrder
<1>1. IdInv => CreationOrder
  <2> SUFFICES ASSUME IdInv, NEW i \in DOMAIN ids, NEW j \in DOMAIN ids,
                      i <= ids[j].after, ~SetBack(i, j), ~LostBetween(i, j)
               PROVE  Sorts(ids[i], ids[j])
    BY DEF CreationOrder, Before
  <2>1. i \in 1 .. Len(ids) /\ j \in 1 .. Len(ids) /\ Len(ids) \in Nat
    BY DEF IdInv, TypeOK
  <2>2. i < j /\ (ids[i].backs = ids[j].backs => ids[i].ms <= ids[j].ms)
    BY <2>1, IdTyped DEF IdInv, ClockInv
  <2>3. ids[i].ms <= ids[j].ms
    BY <2>1, <2>2, IdTyped DEF SetBack
  <2>4. ASSUME ids[i].ms = ids[j].ms PROVE ids[i].entropy < ids[j].entropy
    <3>1. Unbroken(i, j)
      BY <2>1, <2>2, <2>4 DEF LostBetween, Unbroken
    <3>2. i \in 1 .. j - 1
      BY <2>1, <2>2
    <3>3. Above(ids[j].entropy, ids[i].entropy)
      BY <2>1, <3>1, <3>2 DEF IdInv, EntropyInv
    <3> QED
      BY <2>4, <3>3 DEF Above, LostBetween
  <2> QED
    BY <2>1, <2>3, <2>4, IdTyped DEF Sorts
<1> QED
  BY <1>1, IdInductive, PTL

--------------------------------------------------------------------------------
(* git's status: what the parser reads is a report, and it gives up only on*)
(* what is none.  The tokens it has read are a report themselves, and no   *)
(* report of the whole output has an origin where the loop stands.         *)

(* The tokens the loop has read, as far as a report looks at them. *)
Prefix == [i \in 1 .. at - 1 |-> Tokens(raw)[i]]

EntryType ==
  [x : {t.x : t \in Texts}, y : {t.y : t \in Texts}, path : {t.path : t \in Texts},
   orig : Texts \cup {Nowhere}]

StatusTypeOK ==
  /\ raw \in Outputs
  /\ at \in 1 .. Len(Tokens(raw)) + 1
  /\ entries \in Seq(EntryType)
  /\ statusVerdict \in {"reading", "ok", "error"}

(* What has been read is a report, and the entries are its lines. *)
ReportInv ==
  \E origins \in SUBSET (1 .. at - 1) :
    IsReport(Prefix, origins) /\ Lists(entries, Prefix, origins)

(* In any report of the whole output, the loop is not at an origin. *)
LineInv ==
  \A origins \in SUBSET DOMAIN Tokens(raw) :
    IsReport(Tokens(raw), origins) => at \notin origins

StatusInv ==
  /\ StatusTypeOK
  /\ statusVerdict = "reading" => ReportInv /\ LineInv
  /\ StatusFaithful

LEMMA TokensAreTexts == ASSUME NEW r \in Outputs PROVE Tokens(r) \in Seq(Texts)
BY OutputsAreTexts DEF Tokens

(* How many of the first i numbers are outside a set. *)
LEMMA CountsLines ==
  ASSUME NEW S, NEW i \in Nat
  PROVE  /\ IsFiniteSet((1 .. i) \ S) /\ Cardinality((1 .. i) \ S) \in Nat
         /\ \A j \in Nat : j <= i => Cardinality((1 .. j) \ S) <= Cardinality((1 .. i) \ S)
         /\ i + 1 \notin S =>
              Cardinality((1 .. i + 1) \ S) = Cardinality((1 .. i) \ S) + 1
<1>1. \A j \in Nat : IsFiniteSet((1 .. j) \ S)
  <2> SUFFICES ASSUME NEW j \in Nat PROVE IsFiniteSet((1 .. j) \ S)
    OBVIOUS
  <2>1. IsFiniteSet(1 .. j) /\ (1 .. j) \ S \subseteq 1 .. j
    BY FS_Interval
  <2> QED
    BY <2>1, FS_Subset
<1>2. \A j \in Nat : Cardinality((1 .. j) \ S) \in Nat
  BY <1>1, FS_CardinalityType
<1>3. ASSUME NEW j \in Nat, j <= i
      PROVE  Cardinality((1 .. j) \ S) <= Cardinality((1 .. i) \ S)
  <2>1. (1 .. j) \ S \subseteq (1 .. i) \ S
    BY <1>3
  <2> QED
    BY <1>1, <2>1, FS_Subset
<1>4. ASSUME i + 1 \notin S
      PROVE  Cardinality((1 .. i + 1) \ S) = Cardinality((1 .. i) \ S) + 1
  <2>1. (1 .. i + 1) \ S = ((1 .. i) \ S) \cup {i + 1} /\ i + 1 \notin (1 .. i) \ S
    BY <1>4
  <2> QED
    BY <1>1, <2>1, FS_AddElement
<1> QED
  BY <1>1, <1>2, <1>3, <1>4

LEMMA StatusInitInv == StatusInit => StatusInv
<1> SUFFICES ASSUME StatusInit PROVE StatusInv
  OBVIOUS
<1>1. StatusTypeOK
  BY TokensAreTexts DEF StatusInit, StatusTypeOK
<1>2. ReportInv
  <2>1. IsReport(Prefix, {})
    BY DEF StatusInit, IsReport, Prefix
  <2>2. DOMAIN Prefix \ {} = {}
    BY DEF StatusInit, Prefix
  <2>3. Lists(entries, Prefix, {})
    BY <2>2, FS_EmptySet DEF StatusInit, Lists
  <2> QED
    BY <2>1, <2>3 DEF ReportInv
<1>3. LineInv
  BY TokensAreTexts DEF StatusInit, LineInv, IsReport
<1>4. StatusFaithful
  BY DEF StatusInit, StatusFaithful
<1> QED
  BY <1>1, <1>2, <1>3, <1>4 DEF StatusInv

(* The pair the code accepts is the one git documents. *)
LEMMA ValidIsDocumented ==
  ASSUME NEW x, NEW y
  PROVE  ValidStatusPair(x, y) <=> Documented(x, y)
BY DEF ValidStatusPair, Documented, Known

(* The state in which a round of the loop begins. *)
LEMMA Round ==
  ASSUME StatusInv, statusVerdict = "reading", at <= Len(Tokens(raw))
  PROVE  /\ Tokens(raw) \in Seq(Texts) /\ Len(Tokens(raw)) \in Nat
         /\ DOMAIN Tokens(raw) = 1 .. Len(Tokens(raw)) /\ at \in DOMAIN Tokens(raw)
         /\ at \in Nat \ {0}
BY TokensAreTexts DEF StatusInv, StatusTypeOK

LEMMA ParseTokenKeeps == ASSUME StatusInv, ParseToken PROVE StatusInv'
<1> DEFINE tokens == Tokens(raw)
           tok    == tokens[at]
           two    == HasOrigin(tok.x, tok.y)
           new    == Entry(tok.x, tok.y, tok.path, IF two THEN tokens[at + 1] ELSE Nowhere)
<1>1. /\ statusVerdict = "reading" /\ at <= Len(tokens)
      /\ tok.line /\ ValidStatusPair(tok.x, tok.y)
      /\ two => at + 1 <= Len(tokens)
      /\ entries' = Append(entries, new)
      /\ at' = at + (IF two THEN 2 ELSE 1)
      /\ raw' = raw /\ statusVerdict' = statusVerdict
  BY DEF ParseToken
<1>2. /\ tokens \in Seq(Texts) /\ Len(tokens) \in Nat
      /\ DOMAIN tokens = 1 .. Len(tokens) /\ at \in DOMAIN tokens /\ at \in Nat \ {0}
  BY <1>1, Round
<1>3. Tokens(raw)' = tokens
  BY <1>1 DEF Tokens
<1>4. new \in EntryType
  <2>1. tok \in Texts /\ (two => tokens[at + 1] \in Texts)
    BY <1>1, <1>2
  <2> QED
    BY <2>1 DEF Entry, EntryType
<1>5. entries \in Seq(EntryType)
  BY DEF StatusInv, StatusTypeOK
<1>6. StatusTypeOK'
  BY <1>1, <1>2, <1>3, <1>4, <1>5 DEF StatusInv, StatusTypeOK
<1>7. LineInv'
  <2> SUFFICES ASSUME NEW origins \in SUBSET DOMAIN tokens, IsReport(tokens, origins),
                      at' \in origins
               PROVE  FALSE
    BY <1>3 DEF LineInv
  <2>1. at \notin origins
    BY <1>1 DEF StatusInv, LineInv
  <2>2. two <=> at + 1 \in origins
    BY <1>2, <2>1 DEF IsReport, HasOrigin
  <2>3. CASE two
    <3>1. at + 2 \in origins /\ at + 2 \in DOMAIN tokens
      BY <1>1, <2>3
    <3>2. (at + 2) - 1 \notin origins
      BY <3>1 DEF IsReport
    <3> QED
      BY <1>2, <2>2, <2>3, <3>2
  <2>4. CASE ~two
    BY <1>1, <2>2, <2>4
  <2> QED
    BY <2>3, <2>4
<1>8. ReportInv'
  <2>1. PICK origins \in SUBSET (1 .. at - 1) :
          IsReport(Prefix, origins) /\ Lists(entries, Prefix, origins)
    BY <1>1 DEF StatusInv, ReportInv
  <2> DEFINE more == origins \cup (IF two THEN {at + 1} ELSE {})
             pre  == [i \in 1 .. at' - 1 |-> tokens[i]]
  <2>2. Prefix' = pre /\ DOMAIN pre = 1 .. at' - 1
    BY <1>3 DEF Prefix
  <2>3. DOMAIN Prefix = 1 .. at - 1 /\ \A i \in 1 .. at - 1 : Prefix[i] = tokens[i]
    BY DEF Prefix
  <2>4. more \in SUBSET (1 .. at' - 1) /\ at \notin more
    BY <1>1, <1>2
  <2>5. IsReport(pre, more)
    <3> SUFFICES ASSUME NEW i \in 1 .. at' - 1
                 PROVE  IF i \in more THEN i - 1 \in (1 .. at' - 1) \ more
                        ELSE /\ pre[i].line /\ Documented(pre[i].x, pre[i].y)
                             /\ {pre[i].x, pre[i].y} \cap {"R", "C"} # {} <=> i + 1 \in more
      BY <2>2 DEF IsReport
    <3>0. pre[i] = tokens[i]
      OBVIOUS
    <3>1. CASE i < at
      <4>1. i \in DOMAIN Prefix /\ Prefix[i] = tokens[i] /\ i \in 1 .. at - 1
        BY <1>2, <2>3, <3>1
      <4>2. IF i \in origins THEN i - 1 \in DOMAIN Prefix \ origins
            ELSE /\ tokens[i].line /\ Documented(tokens[i].x, tokens[i].y)
                 /\ {tokens[i].x, tokens[i].y} \cap {"R", "C"} # {} <=> i + 1 \in origins
        BY <2>1, <4>1 DEF IsReport
      <4>3. (i \in more <=> i \in origins) /\ (i + 1 \in more <=> i + 1 \in origins)
        BY <1>2, <3>1, <4>1
      <4>4. ASSUME i \in origins PROVE i - 1 \in (1 .. at' - 1) \ more
        <5>1. i - 1 \in (1 .. at - 1) \ origins
          BY <2>3, <4>2, <4>4
        <5> QED
          BY <1>1, <1>2, <5>1, <3>1
      <4> QED
        BY <3>0, <4>2, <4>3, <4>4
    <3>2. CASE i = at
      <4>1. i \notin more /\ (i + 1 \in more <=> two)
        BY <1>2, <2>4, <3>2
      <4>2. tok.line /\ Documented(tok.x, tok.y)
        BY <1>1, ValidIsDocumented
      <4> QED
        BY <3>0, <3>2, <4>1, <4>2 DEF HasOrigin
    <3>3. CASE i > at
      <4>1. two /\ i = at + 1
        BY <1>1, <1>2, <3>3
      <4>2. i \in more /\ i - 1 = at /\ at \in (1 .. at' - 1) \ more
        BY <1>1, <1>2, <2>4, <4>1
      <4> QED
        BY <4>2
    <3> QED
      BY <1>2, <3>1, <3>2, <3>3
  <2>6. Lists(entries', pre, more)
    <3>1. ASSUME NEW i \in 1 .. at - 1
          PROVE  (1 .. i) \ more = (1 .. i) \ origins
      BY <1>2
    <3>2. (1 .. at - 1) \ more = (1 .. at - 1) \ origins
      BY <1>2
    <3>3. (1 .. at' - 1) \ more = (1 .. at) \ more
      BY <1>1, <1>2
    <3>4. /\ Cardinality((1 .. at) \ more) = Cardinality((1 .. at - 1) \ more) + 1
          /\ Cardinality((1 .. at - 1) \ more) \in Nat
      <4>1. at - 1 \in Nat /\ (at - 1) + 1 = at
        BY <1>2
      <4> QED
        BY <2>4, <4>1, CountsLines
    <3>5. Len(entries) = Cardinality((1 .. at - 1) \ origins)
      BY <2>1, <2>3 DEF Lists
    <3>6. /\ Len(entries') = Len(entries) + 1
          /\ \A k \in 1 .. Len(entries) : entries'[k] = entries[k]
          /\ entries'[Len(entries) + 1] = new
      BY <1>1, <1>4, <1>5
    <3>7. Len(entries') = Cardinality(DOMAIN pre \ more)
      BY <2>2, <3>2, <3>3, <3>4, <3>5, <3>6
    <3>8. ASSUME NEW i \in DOMAIN pre \ more
          PROVE  entries'[Cardinality((1 .. i) \ more)] =
                   [x |-> pre[i].x, y |-> pre[i].y, path |-> pre[i].path,
                    orig |-> IF i + 1 \in more THEN pre[i + 1] ELSE Nowhere]
      <4>0. i \in 1 .. at /\ pre[i] = tokens[i]
        BY <1>1, <1>2, <2>2, <3>8
      <4>1. CASE i < at
        <5>1. i \in DOMAIN Prefix \ origins /\ i \in 1 .. at - 1
          BY <1>2, <2>3, <3>8, <4>0, <4>1
        <5>2. entries[Cardinality((1 .. i) \ origins)] =
                [x |-> Prefix[i].x, y |-> Prefix[i].y, path |-> Prefix[i].path,
                 orig |-> IF i + 1 \in origins THEN Prefix[i + 1] ELSE Nowhere]
          BY <2>1, <5>1 DEF Lists
        <5>3. /\ i + 1 \in more <=> i + 1 \in origins
              /\ i + 1 \in origins => Prefix[i + 1] = tokens[i + 1] /\ pre[i + 1] = tokens[i + 1]
          <6>1. i + 1 \in more <=> i + 1 \in origins
            BY <1>2, <4>1, <5>1
          <6>2. ASSUME i + 1 \in origins PROVE i + 1 \in 1 .. at - 1 /\ i + 1 \in 1 .. at' - 1
            BY <1>1, <1>2, <6>2
          <6> QED
            BY <2>3, <6>1, <6>2
        <5>4. /\ Cardinality((1 .. i) \ more) = Cardinality((1 .. i) \ origins)
              /\ Cardinality((1 .. i) \ origins) \in 1 .. Len(entries)
          <6>1. Cardinality((1 .. i) \ more) = Cardinality((1 .. i) \ origins)
            BY <3>1, <5>1
          <6>2. i - 1 \in Nat /\ (i - 1) + 1 = i /\ i \notin origins
            BY <5>1
          <6>3. /\ Cardinality((1 .. i) \ origins) = Cardinality((1 .. i - 1) \ origins) + 1
                /\ Cardinality((1 .. i - 1) \ origins) \in Nat
            BY <6>2, CountsLines
          <6>4. at - 1 \in Nat /\ i \in Nat /\ i <= at - 1
            BY <1>2, <5>1
          <6>5. Cardinality((1 .. i) \ origins) <= Cardinality((1 .. at - 1) \ origins)
            BY <6>4, CountsLines
          <6>6. Len(entries) \in Nat
            BY <1>5
          <6> QED
            BY <3>5, <6>1, <6>3, <6>5, <6>6
        <5> QED
          BY <2>3, <3>6, <4>0, <5>1, <5>2, <5>3, <5>4
      <4>2. CASE i = at
        <5>1. Cardinality((1 .. i) \ more) = Len(entries) + 1
          BY <3>2, <3>4, <3>5, <4>2
        <5>2. (i + 1 \in more <=> two) /\ (two => pre[i + 1] = tokens[at + 1])
          BY <1>1, <1>2, <2>4, <4>2
        <5> QED
          BY <3>6, <4>0, <4>2, <5>1, <5>2 DEF Entry
      <4> QED
        BY <1>2, <4>0, <4>1, <4>2
    <3> QED
      BY <3>7, <3>8 DEF Lists
  <2> QED
    BY <2>2, <2>4, <2>5, <2>6 DEF ReportInv
<1>9. StatusFaithful'
  BY <1>1 DEF StatusFaithful
<1> QED
  BY <1>6, <1>7, <1>8, <1>9 DEF StatusInv

LEMMA RejectKeeps == ASSUME StatusInv, Reject PROVE StatusInv'
<1> DEFINE tokens == Tokens(raw)
           tok    == tokens[at]
<1>1. /\ statusVerdict = "reading" /\ at <= Len(tokens)
      /\ \/ ~tok.line
         \/ ~ValidStatusPair(tok.x, tok.y)
         \/ HasOrigin(tok.x, tok.y) /\ at = Len(tokens)
      /\ statusVerdict' = "error" /\ entries' = <<>>
      /\ raw' = raw /\ at' = at
  BY DEF Reject
<1>2. /\ Len(tokens) \in Nat
      /\ DOMAIN tokens = 1 .. Len(tokens) /\ at \in DOMAIN tokens
  BY <1>1, Round
<1>3. Tokens(raw)' = tokens
  BY <1>1 DEF Tokens
<1>4. ASSUME NEW origins \in SUBSET DOMAIN tokens, IsReport(tokens, origins)
      PROVE  FALSE
  <2>1. at \notin origins
    BY <1>1, <1>4 DEF StatusInv, LineInv
  <2>2. /\ tok.line /\ Documented(tok.x, tok.y)
        /\ HasOrigin(tok.x, tok.y) <=> at + 1 \in origins
    BY <1>2, <1>4, <2>1 DEF IsReport, HasOrigin
  <2>3. HasOrigin(tok.x, tok.y) /\ at = Len(tokens)
    BY <1>1, <2>2, ValidIsDocumented
  <2> QED
    BY <1>2, <1>4, <2>2, <2>3
<1>5. StatusTypeOK'
  BY <1>1, <1>3 DEF StatusInv, StatusTypeOK
<1>6. StatusFaithful'
  BY <1>1, <1>3, <1>4 DEF StatusFaithful
<1> QED
  BY <1>1, <1>5, <1>6 DEF StatusInv

LEMMA FinishKeeps == ASSUME StatusInv, Finish PROVE StatusInv'
<1> DEFINE tokens == Tokens(raw)
<1>1. /\ statusVerdict = "reading" /\ at > Len(tokens)
      /\ statusVerdict' = "ok" /\ raw' = raw /\ at' = at /\ entries' = entries
  BY DEF Finish
<1>2. tokens \in Seq(Texts) /\ Tokens(raw)' = tokens
  BY <1>1, TokensAreTexts DEF StatusInv, StatusTypeOK, Tokens
<1>3. at - 1 = Len(tokens)
  BY <1>1, <1>2 DEF StatusInv, StatusTypeOK
<1>4. Prefix = tokens
  BY <1>2, <1>3 DEF Prefix
<1>5. PICK origins \in SUBSET (1 .. at - 1) :
        IsReport(tokens, origins) /\ Lists(entries, tokens, origins)
  BY <1>1, <1>4 DEF StatusInv, ReportInv
<1>6. origins \in SUBSET DOMAIN tokens
  BY <1>2, <1>3
<1>7. StatusFaithful'
  BY <1>1, <1>2, <1>5, <1>6 DEF StatusFaithful
<1>8. StatusTypeOK'
  BY <1>1, <1>2 DEF StatusInv, StatusTypeOK
<1> QED
  BY <1>1, <1>7, <1>8 DEF StatusInv

LEMMA StatusNextInv == StatusInv /\ [StatusNext]_statusVars => StatusInv'
<1>1. ASSUME StatusInv, UNCHANGED statusVars PROVE StatusInv'
  BY <1>1 DEF statusVars, StatusInv, StatusTypeOK, ReportInv, LineInv, StatusFaithful, Prefix
<1> QED
  BY <1>1, ParseTokenKeeps, RejectKeeps, FinishKeeps DEF StatusNext

LEMMA StatusInductive == StatusSpec => []StatusInv
BY StatusInitInv, StatusNextInv, PTL DEF StatusSpec

(* Every variable of the status parser has its type (status.go 63-133).    *)
THEOREM StatusTypeCorrect == StatusSpec => []StatusTypeOK
BY StatusInductive, PTL DEF StatusInv

(* An output is read as a report that prints that way, and refused only    *)
(* when there is none, whatever the texts and however many (status.go      *)
(* 63-69).                                                                 *)
THEOREM ReportsAreReadWhole == StatusSpec => []StatusFaithful
BY StatusInductive, PTL DEF StatusInv

--------------------------------------------------------------------------------
(* The other calls to git.  The user goes on changing the configuration and*)
(* the history, so that an answer is true of something git would have said *)
(* while the call lasted: half an identity has to be remembered as that.   *)

(* The records a call may be waiting with, and those it may return.        *)
Waiting ==
  [op : {"idle", "locate", "editor", "identity"}]
    \cup [op : {"email"}, name : Words \cup {Blank}]

Errors == {"none", "run", "ErrGitNotFound", "ErrVersionUnreadable",
           "ErrNoAttribution", "malformed"}

Versions == [1 .. 3 -> Int]

Results ==
  [kind : {"error"}, error : Errors]
    \cup [kind : {"binary"}, printed : Seq(Int), version : Versions]
    \cup [kind : {"tooOld"}, version : Versions]
    \cup [kind : {"attribution"}, commit : Commits,
          name : Words \cup {NoValue}, email : Words \cup {NoValue}]
    \cup [kind : {"identity"}, name : Words, email : Words]
    \cup [kind : {"incomplete"}, missing : SUBSET {"name", "email"}]

GitTypeOK ==
  /\ config \in Config
  /\ lastCommit \in Commits \cup {NoValue}
  /\ DOMAIN author \subseteq Commits /\ \A h \in DOMAIN author : author[h] \in Config
  /\ gitCall \in Waiting
  /\ result \in Results
  /\ seen \subseteq {Answers(c, commit) : c \in Config, commit \in Commits \cup {NoValue}}
  /\ changes \in Nat

(* The author of the last commit is known. *)
AuthorInv == lastCommit # NoValue => lastCommit \in DOMAIN author

(* What git would answer now is among what it would have answered.         *)
SeenInv == Busy => Answers(config, lastCommit) \in seen

(* The half of an identity that has been read was configured meanwhile.    *)
NameInv ==
  gitCall.op = "email" =>
    \E s \in seen : IF gitCall.name = Blank THEN Missing(s.name)
                    ELSE ~Missing(s.name) /\ s.name = gitCall.name

GitInv == GitTypeOK /\ AuthorInv /\ SeenInv /\ NameInv

LEMMA GitInitInv == GitInit => GitInv
<1> SUFFICES ASSUME GitInit PROVE GitInv
  OBVIOUS
<1>1. Error("none") \in Results
  BY DEF Error, Results, Errors
<1>2. NoCall \in Waiting /\ NoCall.op = "idle"
  BY DEF NoCall, Waiting
<1> QED
  BY <1>1, <1>2 DEF GitInit, GitInv, GitTypeOK, AuthorInv, SeenInv, NameInv, Busy

(* A user's change, which only adds to what git would have answered.       *)
LEMMA ChangeKeeps ==
  ASSUME GitInv, gitCall' = gitCall, result' = result,
         config' \in Config, lastCommit' \in Commits \cup {NoValue},
         DOMAIN author' \subseteq Commits, \A h \in DOMAIN author' : author'[h] \in Config,
         AuthorInv', changes' = changes + 1,
         seen' = IF Busy THEN seen \cup {Answers(config', lastCommit')} ELSE seen
  PROVE  GitInv'
<1>1. GitTypeOK'
  BY DEF GitInv, GitTypeOK
<1>2. SeenInv'
  BY DEF SeenInv, Busy
<1>3. NameInv'
  <2> SUFFICES ASSUME gitCall.op = "email"
               PROVE  \E s \in seen' :
                        IF gitCall.name = Blank THEN Missing(s.name)
                        ELSE ~Missing(s.name) /\ s.name = gitCall.name
    BY DEF NameInv, Missing
  <2>1. \E s \in seen : IF gitCall.name = Blank THEN Missing(s.name)
                        ELSE ~Missing(s.name) /\ s.name = gitCall.name
    BY DEF GitInv, NameInv
  <2> QED
    BY <2>1
<1> QED
  BY <1>1, <1>2, <1>3 DEF GitInv

LEMMA ConfigureKeeps == ASSUME GitInv, NEW c \in Config, Configure(c) PROVE GitInv'
<1>1. AuthorInv'
  BY DEF GitInv, AuthorInv, Configure
<1> QED
  BY <1>1, ChangeKeeps DEF GitInv, GitTypeOK, Configure, Change

LEMMA CommitKeeps == ASSUME GitInv, NEW hash \in Commits, Commit(hash) PROVE GitInv'
<1>1. /\ DOMAIN author' = DOMAIN author \cup {hash}
      /\ \A h \in DOMAIN author' : author'[h] \in Config
      /\ lastCommit' = hash /\ config' = config
  BY DEF GitInv, GitTypeOK, Commit
<1>2. AuthorInv'
  BY <1>1 DEF AuthorInv
<1> QED
  BY <1>1, <1>2, ChangeKeeps DEF GitInv, GitTypeOK, Commit, Change

LEMMA BeginKeeps ==
  ASSUME GitInv, NEW op \in {"locate", "editor", "identity"}, Begin(op)
  PROVE  GitInv'
<1>1. gitCall' = [op |-> op] /\ gitCall'.op = op /\ gitCall' \in Waiting
  BY DEF Begin, Waiting
<1> QED
  BY <1>1 DEF GitInv, GitTypeOK, AuthorInv, SeenInv, NameInv, Begin, Busy

LEMMA ReturnKeeps == ASSUME GitInv, NEW r \in Results, Return(r) PROVE GitInv'
<1>1. NoCall \in Waiting /\ NoCall.op = "idle"
  BY DEF NoCall, Waiting
<1> QED
  BY <1>1 DEF GitInv, GitTypeOK, AuthorInv, SeenInv, NameInv, Return, Busy

--------------------------------------------------------------------------------

(* A refusal that says nothing of git's answers promises nothing.          *)
LEMMA ErrorsPromiseNothing ==
  ASSUME NEW e \in Errors \ {"ErrNoAttribution"}
  PROVE  /\ Error(e) \in Results
         /\ MinimumEnforced(Error(e)) /\ AttributionTrue(Error(e)) /\ IdentityWhole(Error(e))
BY DEF Errors, Error, Results, MinimumEnforced, AttributionTrue, IdentityWhole

(* Less is the order of releases.                                          *)
LEMMA LessIsBehind ==
  ASSUME NEW v \in Versions, NEW w \in Versions
  PROVE  Less(v, w) <=> ~AtLeast(v, w)
<1>1. 1 \in 1 .. 3 /\ 2 \in 1 .. 3 /\ 3 \in 1 .. 3
  OBVIOUS
<1>2. /\ v[1] \in Int /\ v[2] \in Int /\ v[3] \in Int
      /\ w[1] \in Int /\ w[2] \in Int /\ w[3] \in Int
  BY <1>1 DEF Versions
<1>3. AtLeast(v, w) <=> /\ ~(v[1] < w[1])
                        /\ v[2] < w[2] => v[1] > w[1]
                        /\ v[3] < w[3] => v[1] > w[1] \/ v[2] > w[2]
  <2>1. /\ 1 .. 3 = {1, 2, 3} /\ 1 .. 1 - 1 = {}
        /\ 1 .. 2 - 1 = {1} /\ 1 .. 3 - 1 = {1, 2}
    OBVIOUS
  <2> QED
    BY <2>1, Zenon DEF AtLeast
<1> QED
  BY <1>2, <1>3 DEF Less

(* What git --version prints is numbers, and -1 for anything else.         *)
LEMMA PrintedVersions ==
  ASSUME NEW run \in VersionRuns, run.exit = 0
  PROVE  run.out \in Seq(Int) /\ VersionOf(run.out) \in Versions
<1>1. PICK p \in UNION {[1 .. n -> Numbers \cup {-1}] : n \in 0 .. 4} : run.out = p
  BY DEF VersionRuns, Failed
<1>2. PICK n \in 0 .. 4 : p \in [1 .. n -> Numbers \cup {-1}]
  OBVIOUS
<1>3. p \in Seq(Int) /\ Len(p) = n /\ \A i \in 1 .. n : p[i] \in Int
  <2>1. Numbers \cup {-1} \subseteq Int /\ n \in Nat
    BY VersionsAreNumbers
  <2>2. p \in [1 .. n -> Int]
    BY <1>2, <2>1
  <2> QED
    BY <2>1, <2>2
<1>4. \A i \in 1 .. 3 : (IF i <= Len(p) THEN p[i] ELSE 0) \in Int
  BY <1>3
<1> QED
  BY <1>1, <1>3, <1>4 DEF VersionOf, Versions

LEMMA LocateAnswers ==
  ASSUME GitInv, NEW run \in VersionRuns, Locate(run)
  PROVE  GitInv' /\ AnswerWhole
<1> DEFINE found == VersionOf(run.out)
           tooOld == [kind |-> "tooOld", version |-> found]
           binary == [kind |-> "binary", printed |-> run.out, version |-> found]
<1>1. /\ result' = IF run.exit # 0 THEN Error("run")
                   ELSE IF ~Readable(run.out) THEN Error("ErrVersionUnreadable")
                   ELSE IF Less(found, Minimum) THEN tooOld ELSE binary
      /\ Return(result')
  BY DEF Locate, Return
<1>2. Minimum \in Versions
  BY VersionsAreNumbers DEF Versions
<1>3. CASE result' \in {Error("run"), Error("ErrVersionUnreadable")}
  <2>1. {"run", "ErrVersionUnreadable"} \subseteq Errors \ {"ErrNoAttribution"}
    BY DEF Errors
  <2> QED
    BY <1>1, <1>3, <2>1, ErrorsPromiseNothing, ReturnKeeps DEF AnswerWhole
<1>4. CASE run.exit = 0 /\ Less(found, Minimum) /\ result' = tooOld
  <2>1. found \in Versions
    BY <1>4, PrintedVersions
  <2>2. tooOld \in Results
    BY <2>1 DEF Results
  <2>3. MinimumEnforced(tooOld)
    BY <1>2, <1>4, <2>1, LessIsBehind DEF MinimumEnforced
  <2>4. AttributionTrue(tooOld) /\ IdentityWhole(tooOld)
    BY DEF AttributionTrue, IdentityWhole, Error
  <2> QED
    BY <1>1, <1>4, <2>2, <2>3, <2>4, ReturnKeeps DEF AnswerWhole
<1>5. CASE run.exit = 0 /\ ~Less(found, Minimum) /\ result' = binary
  <2>1. run.out \in Seq(Int) /\ found \in Versions
    BY <1>5, PrintedVersions
  <2>2. binary \in Results
    BY <2>1 DEF Results
  <2>3. \A i \in 1 .. 3 : i \in DOMAIN run.out => found[i] = run.out[i]
    BY <2>1 DEF VersionOf
  <2>4. MinimumEnforced(binary)
    BY <1>2, <1>5, <2>1, <2>3, LessIsBehind DEF MinimumEnforced
  <2>5. AttributionTrue(binary) /\ IdentityWhole(binary)
    BY DEF AttributionTrue, IdentityWhole, Error
  <2> QED
    BY <1>1, <1>5, <2>2, <2>4, <2>5, ReturnKeeps DEF AnswerWhole
<1> QED
  BY <1>1, <1>3, <1>4, <1>5

LEMMA LastEditorAnswers ==
  ASSUME GitInv, NEW run \in LogRuns, LastEditor(run)
  PROVE  GitInv' /\ AnswerWhole
<1> DEFINE attribution == [kind |-> "attribution", commit |-> run.out[1],
                           name |-> run.out[2], email |-> run.out[3]]
           none == Error("ErrNoAttribution")
<1>1. /\ gitCall.op = "editor" /\ Return(result')
      /\ result' = IF run.exit # 0 THEN Error("run")
                   ELSE IF run.out = <<>> THEN none
                   ELSE IF Len(run.out) # 3 \/ run.out[1] \notin Commits
                        THEN Error("malformed")
                   ELSE attribution
  BY DEF LastEditor, Return
<1>2. Answers(config, lastCommit) \in seen
  BY <1>1 DEF GitInv, SeenInv, Busy
<1>3. CASE result' \in {Error("run"), Error("malformed")}
  <2>1. {"run", "malformed"} \subseteq Errors \ {"ErrNoAttribution"}
    BY DEF Errors
  <2> QED
    BY <1>1, <1>3, <2>1, ErrorsPromiseNothing, ReturnKeeps DEF AnswerWhole
<1>4. CASE run.exit = 0 /\ run.out = <<>> /\ result' = none
  <2>1. lastCommit = NoValue
    BY <1>4, ForeignIsNoCommit DEF LogRuns, Failed
  <2>2. AttributionTrue(none)
    BY <1>2, <2>1 DEF AttributionTrue, Error, Answers
  <2>3. none \in Results /\ MinimumEnforced(none) /\ IdentityWhole(none)
    BY DEF Error, Results, Errors, MinimumEnforced, IdentityWhole
  <2> QED
    BY <1>1, <1>4, <2>2, <2>3, ReturnKeeps DEF AnswerWhole
<1>5. CASE /\ run.exit = 0 /\ run.out # <<>> /\ Len(run.out) = 3 /\ run.out[1] \in Commits
           /\ result' = attribution
  <2>1. /\ lastCommit # NoValue
        /\ run.out = <<lastCommit, author[lastCommit].name, author[lastCommit].email>>
    BY <1>5, ForeignIsNoCommit DEF LogRuns, Failed
  <2>2. lastCommit \in DOMAIN author /\ author[lastCommit] \in Config
    BY <2>1 DEF GitInv, GitTypeOK, AuthorInv
  <2>3. attribution = [kind |-> "attribution", commit |-> lastCommit,
                       name |-> author[lastCommit].name, email |-> author[lastCommit].email]
    BY <2>1
  <2>4. author[lastCommit] = [name |-> author[lastCommit].name,
                              email |-> author[lastCommit].email]
    BY <2>2 DEF Config
  <2>5. AttributionTrue(attribution)
    BY <1>2, <2>2, <2>3, <2>4 DEF AttributionTrue, Answers, Error
  <2>6. attribution \in Results
    BY <2>1, <2>2, <2>3 DEF Results, Config, GitInv, GitTypeOK
  <2>7. MinimumEnforced(attribution) /\ IdentityWhole(attribution)
    BY DEF MinimumEnforced, IdentityWhole
  <2> QED
    BY <1>1, <1>5, <2>5, <2>6, <2>7, ReturnKeeps DEF AnswerWhole
<1> QED
  BY <1>1, <1>3, <1>4, <1>5

(* One run of git config: what it gives is what is configured, or blank    *)
(* for what is missing, or no value where it failed.                       *)
LEMMA ConfigGetReads ==
  ASSUME NEW key \in {"name", "email"}, config \in Config, NEW run \in ConfigRuns(key),
         ConfigGet(run) # NoValue
  PROVE  /\ ConfigGet(run) = Blank => Missing(config[key])
         /\ ConfigGet(run) # Blank => /\ ~Missing(config[key]) /\ ConfigGet(run) = config[key]
                                      /\ config[key] \in Words
<1>1. config[key] \in Words \cup {NoValue}
  BY DEF Config
<1>2. \/ run.exit \in {-1, 128}
      \/ config[key] = NoValue /\ run.exit = 1
      \/ config[key] # NoValue /\ run.exit = 0 /\ run.out = <<config[key]>>
  BY DEF ConfigRuns, Failed
<1> QED
  BY <1>1, <1>2, NoValueIsNone DEF ConfigGet, Missing

LEMMA ReadNameAnswers ==
  ASSUME GitInv, NEW run \in ConfigRuns("name"), ReadName(run)
  PROVE  GitInv' /\ AnswerWhole
<1>1. CASE ConfigGet(run) = NoValue
  <2>1. "run" \in Errors \ {"ErrNoAttribution"} /\ Return(Error("run"))
    BY <1>1 DEF ReadName, Errors
  <2>2. result' = Error("run")
    BY <2>1 DEF Return
  <2> QED
    BY <2>1, <2>2, ErrorsPromiseNothing, ReturnKeeps DEF AnswerWhole
<1>2. CASE ConfigGet(run) # NoValue
  <2>1. /\ gitCall.op = "identity" /\ gitCall' = [op |-> "email", name |-> ConfigGet(run)]
        /\ UNCHANGED <<config, lastCommit, author, result, seen, changes>>
    BY <1>2 DEF ReadName
  <2>2. config \in Config /\ Answers(config, lastCommit) \in seen
    BY <2>1 DEF GitInv, GitTypeOK, SeenInv, Busy
  <2>3. ConfigGet(run) \in Words \cup {Blank}
    BY <1>2, <2>2, ConfigGetReads
  <2>4. gitCall' \in Waiting /\ gitCall'.op = "email" /\ gitCall'.name = ConfigGet(run)
    BY <2>1, <2>3 DEF Waiting
  <2>5. NameInv'
    <3>1. IF ConfigGet(run) = Blank THEN Missing(config.name)
          ELSE ~Missing(config.name) /\ config.name = ConfigGet(run)
      BY <1>2, <2>2, ConfigGetReads
    <3>2. Answers(config, lastCommit).name = config.name
      BY DEF Answers
    <3> QED
      BY <2>1, <2>2, <2>4, <3>1, <3>2 DEF NameInv, Missing
  <2>6. GitTypeOK' /\ AuthorInv' /\ SeenInv'
    BY <2>1, <2>2, <2>4 DEF GitInv, GitTypeOK, AuthorInv, SeenInv, Busy
  <2> QED
    BY <2>1, <2>5, <2>6 DEF GitInv, AnswerWhole
<1> QED
  BY <1>1, <1>2

LEMMA ReadEmailAnswers ==
  ASSUME GitInv, NEW run \in ConfigRuns("email"), ReadEmail(run)
  PROVE  GitInv' /\ AnswerWhole
<1> DEFINE name == gitCall.name
           email == ConfigGet(run)
           miss == (IF name = Blank THEN {"name"} ELSE {})
                     \cup (IF email = Blank THEN {"email"} ELSE {})
           incomplete == [kind |-> "incomplete", missing |-> miss]
           identity == [kind |-> "identity", name |-> name, email |-> email]
<1>1. /\ gitCall.op = "email" /\ Return(result')
      /\ result' = IF email = NoValue THEN Error("run")
                   ELSE IF name = Blank \/ email = Blank THEN incomplete ELSE identity
  BY DEF ReadEmail, Return
<1>2. CASE email = NoValue
  <2>1. "run" \in Errors \ {"ErrNoAttribution"} /\ result' = Error("run")
    BY <1>1, <1>2 DEF Errors
  <2> QED
    BY <1>1, <2>1, ErrorsPromiseNothing, ReturnKeeps DEF AnswerWhole
<1>3. CASE email # NoValue
  <2>1. config \in Config /\ Answers(config, lastCommit) \in seen /\ name \in Words \cup {Blank}
    BY <1>1 DEF GitInv, GitTypeOK, SeenInv, Busy, Waiting
  <2>2. PICK s \in seen : IF name = Blank THEN Missing(s.name)
                          ELSE ~Missing(s.name) /\ s.name = name
    BY <1>1 DEF GitInv, NameInv
  <2>3. PICK t \in seen : IF email = Blank THEN Missing(t.email)
                          ELSE ~Missing(t.email) /\ t.email = email /\ email \in Words
    <3>1. Answers(config, lastCommit).email = config.email
      BY DEF Answers
    <3> QED
      BY <1>3, <2>1, <3>1, ConfigGetReads
  <2>4. CASE name = Blank \/ email = Blank
    <3>1. incomplete \in Results
      BY DEF Results
    <3>2. miss # {} /\ ("name" \in miss <=> name = Blank) /\ ("email" \in miss <=> email = Blank)
      BY <2>4
    <3>3. IdentityWhole(incomplete)
      <4>1. ASSUME NEW key \in {"name", "email"}
            PROVE  \E u \in seen : Missing(u[key]) <=> key \in miss
        <5>1. CASE key = "name"
          BY <2>2, <3>2, <5>1
        <5>2. CASE key = "email"
          BY <2>3, <3>2, <5>2
        <5> QED
          BY <5>1, <5>2
      <4> QED
        BY <3>2, <4>1 DEF IdentityWhole
    <3>4. MinimumEnforced(incomplete) /\ AttributionTrue(incomplete)
      BY DEF MinimumEnforced, AttributionTrue, Error
    <3> QED
      BY <1>1, <1>3, <2>4, <3>1, <3>3, <3>4, ReturnKeeps DEF AnswerWhole
  <2>5. CASE name # Blank /\ email # Blank
    <3>1. identity \in Results
      BY <2>1, <2>3, <2>5 DEF Results
    <3>2. IdentityWhole(identity)
      BY <2>2, <2>3, <2>5 DEF IdentityWhole
    <3>3. MinimumEnforced(identity) /\ AttributionTrue(identity)
      BY DEF MinimumEnforced, AttributionTrue, Error
    <3> QED
      BY <1>1, <1>3, <2>5, <3>1, <3>2, <3>3, ReturnKeeps DEF AnswerWhole
  <2> QED
    BY <2>4, <2>5
<1> QED
  BY <1>2, <1>3

LEMMA NotFoundAnswers == ASSUME GitInv, NotFound PROVE GitInv' /\ AnswerWhole
<1>1. /\ "ErrGitNotFound" \in Errors \ {"ErrNoAttribution"}
      /\ Return(Error("ErrGitNotFound")) /\ result' = Error("ErrGitNotFound")
  BY DEF NotFound, Return, Errors
<1> QED
  BY <1>1, ErrorsPromiseNothing, ReturnKeeps DEF AnswerWhole

LEMMA GitStep == GitInv /\ [GitNext]_gitVars => GitInv' /\ AnswerWhole
<1> SUFFICES ASSUME GitInv, [GitNext]_gitVars PROVE GitInv' /\ AnswerWhole
  OBVIOUS
<1>1. CASE UNCHANGED gitVars
  BY <1>1 DEF gitVars, GitInv, GitTypeOK, AuthorInv, SeenInv, NameInv, Busy, AnswerWhole
<1>2. ASSUME NEW c \in Config, Configure(c) PROVE GitInv' /\ AnswerWhole
  BY <1>2, ConfigureKeeps DEF Configure, AnswerWhole
<1>3. ASSUME NEW hash \in Commits, Commit(hash) PROVE GitInv' /\ AnswerWhole
  BY <1>3, CommitKeeps DEF Commit, AnswerWhole
<1>4. ASSUME NEW op \in {"locate", "editor", "identity"}, Begin(op)
      PROVE  GitInv' /\ AnswerWhole
  BY <1>4, BeginKeeps DEF Begin, AnswerWhole
<1> QED
  BY <1>1, <1>2, <1>3, <1>4, NotFoundAnswers, LocateAnswers, LastEditorAnswers,
     ReadNameAnswers, ReadEmailAnswers DEF GitNext

LEMMA GitInductive == GitSpec => []GitInv
<1>1. GitInv /\ [GitNext]_gitVars => GitInv'
  BY GitStep
<1> QED
  BY <1>1, GitInitInv, PTL DEF GitSpec

(* Every variable has its type; an answer has one of six forms (binary.go, *)
(* blame.go, identity.go).                                                 *)
THEOREM GitTypeCorrect == GitSpec => []GitTypeOK
BY GitInductive, PTL DEF GitInv

(* What gitops hands out is whole and its typed refusals are true whatever *)
(* the user does meanwhile, for any version, history and configuration     *)
(* (binary.go 20-21, blame.go 22-41, identity.go 20-29).                   *)
THEOREM GitAnswersAreWhole == GitSpec => AnswersWhole
<1>1. GitInv /\ [GitNext]_gitVars => [AnswerWhole]_gitVars
  BY GitStep
<1> QED
  BY <1>1, GitInductive, PTL DEF GitSpec, AnswersWhole

--------------------------------------------------------------------------------
(* Front matter: the block, what it is cut from, and what is left of it.   *)

BlockTypeOK ==
  /\ file \in Files
  /\ rest \in Seq(FileLines) /\ block \in Seq(FileLines)

Reasons == {"malformed", "several", "anchor", "alias", "merge", "tag", "keys", "shape"}

VerdictTypeOK ==
  /\ fileVerdict \in {"start", "scan", "yaml", "constructs", "keys", "ok", "refused"}
  /\ reason \in {"none", "missing", "unterminated"} \cup Reasons

StreamTypeOK == stream \in Streams \cup {<<>>} /\ pending \subseteq Nat

MatterTypeOK == BlockTypeOK /\ StreamTypeOK /\ VerdictTypeOK

(* While the scan is under way the block, of b lines, is what follows the  *)
(* first of the n lines of the file, and the k that remain follow it.      *)
Between(b, n, k) ==
  /\ \A i \in 1 .. b : block[i] = file.lines[i + 1] /\ block[i] \notin Dashes
  /\ \/ b + 1 = n /\ k = 1 /\ rest = <<Empty>>
     \/ /\ b + 1 < n /\ k = n - (b + 1)
        /\ \A i \in 1 .. k : rest[i] = file.lines[b + 1 + i]

ScanInv ==
  Opened /\ \E b, n, k \in Nat :
    b = Len(block) /\ n = Len(file.lines) /\ k = Len(rest) /\ Between(b, n, k)

SplitInv ==
  /\ MatterTypeOK
  /\ fileVerdict # "refused" => reason = "none"
  /\ fileVerdict = "refused" => reason # "none"
  /\ fileVerdict = "start" => block = <<>>
  /\ fileVerdict = "scan" => ScanInv
  /\ BlockReassembles

LEMMA DelimitersAreDashes ==
  ASSUME NEW line \in FileLines
  PROVE  IsDelimiterLine(line) <=> line \in Dashes
BY LinesAreTexts DEF IsDelimiterLine, Dashes

LEMMA EmptyIsNone == Empty \in FileLines /\ ~IsDelimiterLine(Empty)
BY LinesAreTexts DEF Empty, IsDelimiterLine

LEMMA LinesOfFiles ==
  ASSUME NEW f \in Files
  PROVE  /\ f.lines \in Seq(FileLines) /\ Len(f.lines) \in Nat \ {0} /\ f.bom \in Nat
         /\ \A i \in 1 .. Len(f.lines) : f.lines[i] \in FileLines
<1>1. f.lines \in Seq(FileLines) /\ f.lines # <<>> /\ f.bom \in Nat
  BY FilesAreLines
<1> QED
  BY <1>1

(* What cutLine leaves. *)
LEMMA AfterLines ==
  ASSUME NEW s \in Seq(FileLines), s # <<>>
  PROVE  /\ After(s) \in Seq(FileLines)
         /\ Len(s) = 1 => After(s) = <<Empty>>
         /\ Len(s) > 1 => /\ Len(After(s)) = Len(s) - 1
                          /\ \A i \in 1 .. Len(s) - 1 : After(s)[i] = s[i + 1]
<1>1. PICK n \in Nat : n = Len(s) /\ n >= 1
  OBVIOUS
<1>2. CASE n = 1
  BY <1>1, <1>2, EmptyIsNone DEF After
<1>3. CASE n > 1
  BY <1>1, <1>3, HeadTailProperties DEF After
<1> QED
  BY <1>1, <1>2, <1>3

LEMMA SplitInitInv == MatterInit => SplitInv
<1>1. MatterInit => MatterTypeOK
  BY DEF MatterInit, MatterTypeOK, BlockTypeOK, StreamTypeOK, VerdictTypeOK
<1> QED
  BY <1>1 DEF MatterInit, SplitInv, BlockReassembles

LEMMA OpenKeeps == ASSUME SplitInv, Open PROVE SplitInv'
<1>1. /\ fileVerdict = "start" /\ file' = file /\ block' = block /\ block = <<>>
      /\ stream' = stream /\ pending' = pending
  BY DEF SplitInv, Open
<1>2. /\ file \in Files /\ file.lines \in Seq(FileLines) /\ Len(file.lines) \in Nat \ {0}
      /\ file.bom \in Nat /\ file.lines[1] \in FileLines /\ file.lines # <<>>
  BY LinesOfFiles DEF SplitInv, MatterTypeOK, BlockTypeOK
<1>3. IsDelimiterLine(FirstLine) <=> Opened
  BY <1>2, DelimitersAreDashes DEF FirstLine, Opened, IsDelimiterLine
<1>4. CASE IsDelimiterLine(FirstLine)
  <2>1. rest' = After(file.lines) /\ fileVerdict' = "scan" /\ reason' = reason
    BY <1>4 DEF Open
  <2>2. MatterTypeOK'
    BY <1>1, <1>2, <2>1, AfterLines
       DEF SplitInv, MatterTypeOK, BlockTypeOK, StreamTypeOK, VerdictTypeOK
  <2>3. Opened'
    BY <1>1, <1>3, <1>4 DEF Opened
  <2>4. PICK n \in Nat \ {0} : n = Len(file.lines)
    BY <1>2
  <2>5. PICK k \in Nat : /\ k = Len(rest')
                         /\ \/ n = 1 /\ k = 1 /\ rest' = <<Empty>>
                            \/ /\ 1 < n /\ k = n - 1
                               /\ \A i \in 1 .. k : rest'[i] = file.lines[i + 1]
    <3>1. CASE n = 1
      <4>1. rest' = <<Empty>>
        BY <1>2, <2>1, <2>4, <3>1, AfterLines
      <4> QED
        BY <3>1, <4>1
    <3>2. CASE n > 1
      <4>1. /\ Len(rest') = n - 1
            /\ \A i \in 1 .. n - 1 : rest'[i] = file.lines[i + 1]
        BY <1>2, <2>1, <2>4, <3>2, AfterLines
      <4>2. n - 1 \in Nat
        BY <2>4, <3>2
      <4>3. /\ n - 1 = Len(rest') /\ 1 < n /\ n - 1 = n - 1
            /\ \A i \in 1 .. n - 1 : rest'[i] = file.lines[i + 1]
        BY <3>2, <4>1
      <4> QED
        BY <4>2, <4>3, Zenon
    <3>3. n = 1 \/ n > 1
      OBVIOUS
    <3> QED
      BY <3>1, <3>2, <3>3, Zenon
  <2>6. 0 = Len(block') /\ n = Len(file'.lines)
    BY <1>1, <2>4
  <2>7. Between(0, n, k)'
    BY <1>1, <2>5 DEF Between
  <2>8. ScanInv'
    BY <2>3, <2>5, <2>6, <2>7 DEF ScanInv
  <2>9. reason' = "none" /\ BlockReassembles'
    <3>1. reason' = "none"
      BY <1>1, <2>1 DEF SplitInv
    <3> QED
      BY <2>1, <3>1 DEF BlockReassembles
  <2> QED
    BY <1>1, <2>1, <2>2, <2>8, <2>9 DEF SplitInv
<1>5. CASE ~IsDelimiterLine(FirstLine)
  <2>1. fileVerdict' = "refused" /\ reason' = "missing" /\ rest' = rest
    BY <1>5 DEF Open, Refuse
  <2>2. ~Opened'
    BY <1>1, <1>3, <1>5 DEF Opened
  <2> QED
    BY <1>1, <2>1, <2>2
       DEF SplitInv, MatterTypeOK, BlockTypeOK, StreamTypeOK, VerdictTypeOK, BlockReassembles
<1> QED
  BY <1>4, <1>5

(* The state in which a round of the scan begins. *)
LEMMA Scanning ==
  ASSUME SplitInv, Scan
  PROVE  /\ fileVerdict = "scan" /\ file' = file /\ Opened /\ Opened' /\ rest # <<>>
         /\ rest[1] \in FileLines /\ file.lines[1] \in FileLines
         /\ file \in Files /\ file.lines \in Seq(FileLines)
         /\ rest \in Seq(FileLines) /\ block \in Seq(FileLines)
         /\ \E b, n, k \in Nat : /\ b = Len(block) /\ n = Len(file.lines) /\ k = Len(rest)
                                 /\ k >= 1 /\ Between(b, n, k)
<1>1. fileVerdict = "scan" /\ file' = file
  BY DEF Scan
<1>2. ScanInv /\ file \in Files /\ rest \in Seq(FileLines) /\ block \in Seq(FileLines)
  BY <1>1 DEF SplitInv, MatterTypeOK, BlockTypeOK
<1>3. file.lines \in Seq(FileLines) /\ file.lines[1] \in FileLines
  BY <1>2, LinesOfFiles
<1>4. Opened /\ Opened'
  BY <1>1, <1>2 DEF ScanInv, Opened
<1>5. PICK b, n, k \in Nat : /\ b = Len(block) /\ n = Len(file.lines) /\ k = Len(rest)
                             /\ Between(b, n, k)
  BY <1>2 DEF ScanInv
<1>6. k >= 1
  BY <1>5 DEF Between
<1>7. rest # <<>> /\ rest[1] \in FileLines
  BY <1>2, <1>5, <1>6
<1> QED
  BY <1>1, <1>2, <1>3, <1>4, <1>5, <1>6, <1>7

(* The delimiter that closes the block. *)
LEMMA CloseKeeps ==
  ASSUME SplitInv, Scan, IsDelimiterLine(rest[1])
  PROVE  SplitInv'
<1> DEFINE head == <<file.lines[1]>> \o block \o <<rest[1]>>
<1>0. PICK b, n, k \in Nat : /\ b = Len(block) /\ n = Len(file.lines) /\ k = Len(rest)
                             /\ k >= 1 /\ Between(b, n, k)
  BY Scanning
<1>1. /\ rest' = After(rest) /\ fileVerdict' = "yaml" /\ block' = block /\ file' = file
      /\ stream' \in Streams /\ pending' = pending /\ reason' = reason
  BY DEF Scan
<1>2. /\ rest[1] \in Dashes /\ rest[1] \in FileLines
      /\ b + 1 < n /\ k = n - (b + 1)
      /\ \A i \in 1 .. k : rest[i] = file.lines[b + 1 + i]
      /\ \A i \in 1 .. b : block[i] = file.lines[i + 1] /\ block[i] \notin Dashes
  <2>1. rest # <<Empty>>
    BY EmptyIsNone
  <2> QED
    BY <1>0, <2>1, Scanning, DelimitersAreDashes DEF Between
<1>3. file.lines[1] \in FileLines
  BY Scanning
<1>4. /\ head \in Seq(FileLines) /\ Len(head) = b + 2
      /\ \A i \in 1 .. b + 2 : head[i] = file.lines[i]
  <2>1. <<file.lines[1]>> \in Seq(FileLines) /\ <<rest[1]>> \in Seq(FileLines)
    BY <1>2, <1>3
  <2>2. /\ <<file.lines[1]>> \o block \in Seq(FileLines)
        /\ Len(<<file.lines[1]>> \o block) = b + 1
        /\ \A i \in 1 .. b + 1 : (<<file.lines[1]>> \o block)[i] =
             IF i <= 1 THEN <<file.lines[1]>>[i] ELSE block[i - 1]
    BY <1>0, <1>2, <2>1, Scanning, ConcatProperties
  <2>3. /\ head \in Seq(FileLines) /\ Len(head) = b + 2
        /\ \A i \in 1 .. b + 2 : head[i] =
             IF i <= b + 1 THEN (<<file.lines[1]>> \o block)[i] ELSE <<rest[1]>>[i - (b + 1)]
    BY <1>2, <2>1, <2>2, ConcatProperties
  <2>4. ASSUME NEW i \in 1 .. b + 2 PROVE head[i] = file.lines[i]
    <3>1. CASE i = 1
      BY <1>2, <2>2, <2>3, <3>1
    <3>2. CASE i > 1 /\ i <= b + 1
      <4>1. i - 1 \in 1 .. b /\ (i - 1) + 1 = i /\ i \in 1 .. b + 1 /\ ~(i <= 1)
        BY <1>2, <3>2
      <4> QED
        BY <1>2, <2>2, <2>3, <3>2, <4>1
    <3>3. CASE i = b + 2
      <4>1. ~(i <= b + 1) /\ i - (b + 1) = 1 /\ b + 1 + 1 = i /\ 1 \in 1 .. k
        BY <1>2, <3>3
      <4> QED
        BY <1>2, <2>3, <4>1
    <3>4. i = 1 \/ (i > 1 /\ i <= b + 1) \/ i = b + 2
      OBVIOUS
    <3> QED
      BY <3>1, <3>2, <3>3, <3>4, Zenon
  <2> QED
    BY <2>3, <2>4
<1>5. rest' \in Seq(FileLines)
  BY <1>1, Scanning, AfterLines
<1>6. file.lines \in {head \o rest'} \cup IF rest' = <<Empty>> THEN {head} ELSE {}
  <2>1. CASE k = 1
    <3>1. rest' = <<Empty>>
      BY <1>0, <1>1, <2>1, Scanning, AfterLines
    <3>2. b + 2 = n
      BY <1>2, <2>1
    <3>3. head = file.lines
      BY <1>0, <1>4, <3>2, Scanning, SeqEqual
    <3> QED
      BY <3>1, <3>3
  <2>2. CASE k > 1
    <3>1. /\ Len(rest') = n - (b + 2)
          /\ \A i \in 1 .. n - (b + 2) : rest'[i] = file.lines[b + 2 + i]
      <4>1. /\ Len(rest') = k - 1
            /\ \A i \in 1 .. k - 1 : rest'[i] = rest[i + 1]
        BY <1>0, <1>1, <2>2, Scanning, AfterLines
      <4>2. ASSUME NEW i \in 1 .. n - (b + 2) PROVE rest'[i] = file.lines[b + 2 + i]
        <5>1. i + 1 \in 1 .. k /\ i \in 1 .. k - 1 /\ b + 1 + (i + 1) = b + 2 + i
          BY <1>2
        <5>2. rest'[i] = rest[i + 1]
          BY <4>1, <5>1
        <5>3. rest[i + 1] = file.lines[b + 1 + (i + 1)]
          BY <1>2, <5>1
        <5> QED
          BY <5>1, <5>2, <5>3
      <4> QED
        BY <1>2, <4>1, <4>2
    <3>2. /\ head \o rest' \in Seq(FileLines) /\ Len(head \o rest') = n
          /\ \A i \in 1 .. n : (head \o rest')[i] =
               IF i <= b + 2 THEN head[i] ELSE rest'[i - (b + 2)]
      <4>1. (b + 2) + (n - (b + 2)) = n
        BY <1>2
      <4>2. /\ head \o rest' \in Seq(FileLines)
            /\ Len(head \o rest') = Len(head) + Len(rest')
            /\ \A i \in 1 .. Len(head) + Len(rest') : (head \o rest')[i] =
                 IF i <= Len(head) THEN head[i] ELSE rest'[i - Len(head)]
        BY <1>4, <1>5, ConcatProperties
      <4>3. Len(head) + Len(rest') = n
        BY <1>4, <3>1, <4>1
      <4> QED
        BY <1>4, <4>2, <4>3
    <3>3. ASSUME NEW i \in 1 .. n PROVE (head \o rest')[i] = file.lines[i]
      <4>1. CASE i <= b + 2
        BY <1>2, <1>4, <3>2, <4>1
      <4>2. CASE i > b + 2
        <5>1. i - (b + 2) \in 1 .. n - (b + 2) /\ b + 2 + (i - (b + 2)) = i /\ ~(i <= b + 2)
          BY <1>2, <4>2
        <5> QED
          BY <3>1, <3>2, <5>1
      <4>3. i <= b + 2 \/ i > b + 2
        OBVIOUS
      <4> QED
        BY <4>1, <4>2, <4>3, Zenon
    <3>4. head \o rest' = file.lines
      BY <1>0, <3>2, <3>3, Scanning, SeqEqual
    <3> QED
      BY <3>4
  <2>3. k = 1 \/ k > 1
    BY <1>0
  <2> QED
    BY <2>1, <2>2, <2>3, Zenon
<1>7. DOMAIN block = 1 .. b
  BY <1>0, Scanning
<1>8. fileVerdict' = "yaml" /\ reason' = "none"
  BY <1>1, Scanning DEF SplitInv
<1>9. BlockReassembles'
  <2>1. Opened' /\ \A i \in DOMAIN block' : block'[i] \notin Dashes
    BY <1>1, <1>2, <1>7, Scanning
  <2>2. \E d \in Dashes :
          LET first == <<file'.lines[1]>> \o block' \o <<d>> IN
          file'.lines \in {first \o rest'} \cup IF rest' = <<Empty>> THEN {first} ELSE {}
    BY <1>1, <1>2, <1>6
  <2> QED
    BY <1>1, <1>8, <2>1, <2>2, Zenon DEF BlockReassembles
<1>10. MatterTypeOK'
  BY <1>1, <1>5, Scanning
     DEF SplitInv, MatterTypeOK, BlockTypeOK, StreamTypeOK, VerdictTypeOK
<1> QED
  BY <1>8, <1>9, <1>10 DEF SplitInv

(* The last line, if it is no delimiter. *)
LEMMA EndKeeps ==
  ASSUME SplitInv, Scan, ~IsDelimiterLine(rest[1]), Len(rest) = 1
  PROVE  SplitInv'
<1>1. /\ rest' = rest /\ fileVerdict' = "refused" /\ block' = block /\ file' = file
      /\ reason' = "unterminated" /\ stream' = stream /\ pending' = pending
  BY DEF Scan, Refuse
<1>2. PICK b, n, k \in Nat : /\ b = Len(block) /\ n = Len(file.lines) /\ k = Len(rest)
                             /\ k >= 1 /\ Between(b, n, k)
  BY Scanning
<1>3. ASSUME NEW i \in 2 .. n PROVE file.lines[i] \notin Dashes
  <2>1. CASE i <= b + 1
    <3>1. i - 1 \in 1 .. b /\ (i - 1) + 1 = i
      BY <2>1
    <3> QED
      BY <1>2, <3>1 DEF Between
  <2>2. CASE i > b + 1
    <3>1. b + 1 < n /\ k = 1 /\ k = n - (b + 1) /\ rest[1] = file.lines[b + 1 + 1]
      BY <1>2, <2>2 DEF Between
    <3>2. i = b + 1 + 1
      BY <2>2, <3>1
    <3> QED
      BY <3>1, <3>2, Scanning, DelimitersAreDashes
  <2> QED
    BY <2>1, <2>2
<1>4. BlockReassembles'
  BY <1>1, <1>2, <1>3, Scanning DEF BlockReassembles, Dashes
<1> QED
  BY <1>1, <1>4, Scanning
     DEF SplitInv, MatterTypeOK, BlockTypeOK, StreamTypeOK, VerdictTypeOK

(* A line of the block. *)
LEMMA LineKeeps ==
  ASSUME SplitInv, Scan, ~IsDelimiterLine(rest[1]), Len(rest) > 1
  PROVE  SplitInv'
<1>0. PICK b, n, k \in Nat : /\ b = Len(block) /\ n = Len(file.lines) /\ k = Len(rest)
                             /\ k >= 1 /\ Between(b, n, k)
  BY Scanning
<1>1. /\ rest' = After(rest) /\ block' = Append(block, rest[1])
      /\ fileVerdict' = "scan" /\ file' = file
      /\ stream' = stream /\ pending' = pending /\ reason' = reason
  <2>1. k # 1 /\ Len(rest) # 1
    BY <1>0
  <2> QED
    BY <2>1, Scanning DEF Scan
<1>2. /\ k > 1 /\ b + 1 < n /\ k = n - (b + 1)
      /\ \A i \in 1 .. k : rest[i] = file.lines[b + 1 + i]
      /\ \A i \in 1 .. b : block[i] = file.lines[i + 1] /\ block[i] \notin Dashes
  BY <1>0 DEF Between
<1>3. /\ rest' \in Seq(FileLines) /\ Len(rest') = k - 1
      /\ \A i \in 1 .. k - 1 : rest'[i] = rest[i + 1]
  BY <1>0, <1>1, <1>2, Scanning, AfterLines
<1>4. /\ block' \in Seq(FileLines) /\ Len(block') = b + 1
      /\ \A i \in 1 .. b : block'[i] = block[i]
      /\ block'[b + 1] = rest[1]
  BY <1>0, <1>1, Scanning, AppendProperties
<1>5. rest[1] = file.lines[b + 1 + 1] /\ rest[1] \notin Dashes
  <2>1. 1 \in 1 .. k
    BY <1>2
  <2>2. rest[1] = file.lines[b + 1 + 1]
    BY <1>2, <2>1
  <2>3. rest[1] \notin Dashes
    BY Scanning, DelimitersAreDashes
  <2> QED
    BY <2>2, <2>3
<1>6. ASSUME NEW i \in 1 .. b + 1
      PROVE  block'[i] = file.lines[i + 1] /\ block'[i] \notin Dashes
  <2>1. CASE i = b + 1
    BY <1>4, <1>5, <2>1
  <2>2. CASE i # b + 1
    <3>1. i \in 1 .. b
      BY <2>2
    <3> QED
      BY <1>2, <1>4, <3>1
  <2> QED
    BY <2>1, <2>2
<1>7. b + 1 + 1 < n /\ k - 1 = n - (b + 1 + 1) /\ k - 1 \in Nat /\ b + 1 \in Nat
  BY <1>2
<1>8. ASSUME NEW i \in 1 .. k - 1 PROVE rest'[i] = file.lines[b + 1 + 1 + i]
  <2>1. i + 1 \in 1 .. k /\ b + 1 + (i + 1) = b + 1 + 1 + i
    OBVIOUS
  <2> QED
    BY <1>2, <1>3, <2>1
<1>9. Between(b + 1, n, k - 1)'
  BY <1>1, <1>6, <1>7, <1>8 DEF Between
<1>10. ScanInv'
  BY <1>0, <1>1, <1>3, <1>4, <1>7, <1>9, Scanning DEF ScanInv
<1>11. MatterTypeOK'
  BY <1>1, <1>3, <1>4, Scanning
     DEF SplitInv, MatterTypeOK, BlockTypeOK, StreamTypeOK, VerdictTypeOK
<1>12. reason' = "none" /\ BlockReassembles'
  <2>1. reason' = "none"
    BY <1>1, Scanning DEF SplitInv
  <2> QED
    BY <1>1, <2>1 DEF BlockReassembles
<1> QED
  BY <1>1, <1>10, <1>11, <1>12 DEF SplitInv

LEMMA ScanKeeps == ASSUME SplitInv, Scan PROVE SplitInv'
<1>1. IsDelimiterLine(rest[1]) \/ (~IsDelimiterLine(rest[1]) /\ Len(rest) = 1)
        \/ (~IsDelimiterLine(rest[1]) /\ Len(rest) > 1)
  BY DEF Scan
<1> QED
  BY <1>1, CloseKeeps, EndKeeps, LineKeeps, Zenon

(* Behind the split, only the verdict changes. *)
LEMMA WalksKeepTheSplit ==
  ASSUME SplitInv, fileVerdict \in {"yaml", "constructs", "keys"}, Unchanged,
         pending' \subseteq Nat,
         \/ fileVerdict' \in {"constructs", "keys", "ok"} /\ reason' = reason
         \/ /\ fileVerdict' = "refused"
            /\ reason' \in Reasons
  PROVE  SplitInv'
<1>1. /\ file' = file /\ rest' = rest /\ block' = block /\ stream' = stream
      /\ reason = "none"
  BY DEF Unchanged, SplitInv
<1>2. Opened' = Opened
  BY <1>1 DEF Opened
<1>3. reason' \notin {"missing", "unterminated"} /\ reason \notin {"missing", "unterminated"}
  BY <1>1 DEF Reasons
<1>4. BlockReassembles'
  BY <1>1, <1>2, <1>3 DEF SplitInv, BlockReassembles, Dashes
<1> QED
  BY <1>1, <1>4
     DEF SplitInv, MatterTypeOK, BlockTypeOK, StreamTypeOK, VerdictTypeOK, Reasons

--------------------------------------------------------------------------------
(* Front matter: the walks reach every node they are about.                *)

LEMMA LeastNumber ==
  ASSUME NEW S, S \subseteq Nat, S # {}
  PROVE  \E m \in S : \A n \in S : m <= n
<1> DEFINE R == {ss \in Nat \X Nat : ss[1] < ss[2]}
<1>1. \A a, b \in Nat : a < b => <<a, b>> \in R
  <2> TAKE a, b \in Nat
  <2> HAVE a < b
  <2>1. <<a, b>> \in Nat \X Nat /\ <<a, b>>[1] = a /\ <<a, b>>[2] = b
    OBVIOUS
  <2> QED
    BY <2>1, Zenon
<1>2. IsWellFoundedOn(R, Nat)
  BY NatLessThanWellFounded, Zenon DEF OpToRel
<1> HIDE DEF R
<1>3. PICK m \in S : \A n \in S : ~(<<n, m>> \in R)
  BY <1>2, WFMin, Zenon
<1>4. ASSUME NEW n \in S PROVE m <= n
  <2>1. m \in Nat /\ n \in Nat
    OBVIOUS
  <2>2. ~(n < m)
    BY <1>1, <1>3, <2>1, Zenon
  <2> QED
    BY <2>1, <2>2
<1> QED
  BY <1>4

(* A recursion from 1 that is to reach the nodes of N, where a call for n  *)
(* makes those for callees[n]: its next call is for p, and every call that *)
(* is still to be made of those behind p is pending.                       *)
Front(N, callees, pend, p) ==
  /\ p \in pend /\ \A m \in pend : p <= m
  /\ \A m, n \in N : m < p /\ p <= n /\ n \in callees[m] => n \in pend

Rooted(N, callees) == \A n \in N : n = 1 \/ \E m \in N : m < n /\ n \in callees[m]

(* The calls behind that one. *)
Left(callees, pend, p) == (pend \ {p}) \cup callees[p]

CanWalk(N, callees, pend, p) ==
  /\ N \subseteq Nat \ {0} /\ pend \subseteq Nat \ {0} /\ p \in Nat \ {0}
  /\ Rooted(N, callees) /\ Front(N, callees, pend, p)
  /\ \A n \in callees[p] : n \in Nat /\ p < n

(* Every node between two calls in a row would be reached from one before  *)
(* it, and is pending already: there is none.                              *)
NextCallIs(N, callees, pend, p) ==
  /\ Left(callees, pend, p) # {} =>
       \E q \in Left(callees, pend, p) :
         /\ p < q /\ Front(N, callees, Left(callees, pend, p), q)
         /\ \A n \in N : n < q => n <= p
  /\ Left(callees, pend, p) = {} => \A n \in N : n <= p

LEMMA NextCall ==
  ASSUME NEW N, NEW callees, NEW pend, NEW p, CanWalk(N, callees, pend, p)
  PROVE  NextCallIs(N, callees, pend, p)
<1>0. PICK left : left = Left(callees, pend, p)
  OBVIOUS
<1> /\ N \subseteq Nat \ {0} /\ pend \subseteq Nat \ {0} /\ p \in Nat \ {0}
    /\ Rooted(N, callees) /\ Front(N, callees, pend, p)
    /\ \A n \in callees[p] : n \in Nat /\ p < n
    /\ left = (pend \ {p}) \cup callees[p]
  BY <1>0 DEF CanWalk, Left
<1>1. left \subseteq Nat /\ \A n \in left : p < n
  <2> SUFFICES ASSUME NEW n \in left PROVE n \in Nat /\ p < n
    OBVIOUS
  <2>1. CASE n \in callees[p]
    BY <2>1
  <2>2. CASE n \in pend /\ n # p
    BY <2>2 DEF Front
  <2> QED
    BY <2>1, <2>2
<1> DEFINE Behind == {n \in N : p < n}
(* The first node behind p is left.                                        *)
<1>2. ASSUME Behind # {} PROVE \E n \in Behind \cap left : \A m \in Behind : n <= m
  <2>1. PICK n \in Behind : \A m \in Behind : n <= m
    BY <1>2, LeastNumber
  <2>2. PICK m \in N : m < n /\ n \in callees[m]
    BY <2>1 DEF Rooted
  <2>3. m <= p
    <3>1. ASSUME m \in Behind PROVE FALSE
      <4>1. n <= m
        BY <2>1, <3>1
      <4>2. n \in Nat /\ m \in Nat
        OBVIOUS
      <4> QED
        BY <2>2, <4>1, <4>2
    <3>2. ~(p < m) /\ m \in Nat
      BY <3>1
    <3> QED
      BY <3>2
  <2>4. CASE m = p
    BY <2>1, <2>2, <2>4
  <2>5. CASE m < p
    BY <2>1, <2>2, <2>5 DEF Front
  <2> QED
    BY <2>1, <2>3, <2>4, <2>5
<1>3. ASSUME left = {} PROVE \A n \in N : n <= p
  BY <1>2, <1>3
<1>4. ASSUME left # {}
      PROVE  \E q \in left : /\ p < q /\ Front(N, callees, left, q)
                             /\ \A n \in N : n < q => n <= p
  <2>1. PICK q \in left : \A m \in left : q <= m
    BY <1>1, <1>4, LeastNumber
  <2>2. p < q /\ q \in Nat
    BY <1>1
  <2>3. ASSUME NEW n \in N, n < q PROVE n <= p
    <3>1. CASE Behind = {}
      BY <3>1
    <3>2. CASE Behind # {}
      <4>1. PICK k \in Behind \cap left : \A m \in Behind : k <= m
        BY <1>2, <3>2
      <4>2. q <= k /\ k \in Nat /\ n \in Nat
        BY <2>1, <4>1
      <4> QED
        BY <2>2, <2>3, <4>1, <4>2
    <3> QED
      BY <3>1, <3>2
  <2>4. ASSUME NEW m \in N, NEW n \in N, m < q, q <= n, n \in callees[m] PROVE n \in left
    <3>1. m <= p
      BY <2>3, <2>4
    <3>2. p <= n /\ n # p
      BY <2>2, <2>4
    <3>3. m = p \/ m < p
      BY <3>1
    <3> QED
      BY <2>4, <3>2, <3>3 DEF Front
  <2>5. Front(N, callees, left, q)
    BY <2>1, <2>4 DEF Front
  <2> QED
    BY <2>2, <2>3, <2>5
<1> QED
  BY <1>0, <1>3, <1>4 DEF NextCallIs

IsOne == Len(stream) = 1 /\ tree # Malformed

(* Both walks begin at the first node of a tree and do not leave it.       *)
Walking == IsOne /\ IsTree(tree) /\ pending \subseteq DOMAIN tree

(* Where each of them goes: to every node, and to all but the keys.        *)
Contents   == [n \in DOMAIN tree |-> Content(tree[n])]
ValuesOf   == [n \in DOMAIN tree |-> Values(tree[n])]
ValueNodes ==
  {n \in DOMAIN tree :
     \A m \in DOMAIN tree : tree[m].kind = "map" =>
       \A i \in KeyPlaces(tree[m]) : tree[m].content[i] # n}

(* What they have found so far, when the next call is for p.               *)
SupportedTo(p) == \A n \in DOMAIN tree : n < p => Unsupported(tree[n]) = "none"
KeyedTo(p) ==
  \A n \in ValueNodes : n < p /\ tree[n].kind = "map" => StringKeyed(tree[n])

Supported == \A n \in DOMAIN tree : Unsupported(tree[n]) = "none"

ConstructsInv ==
  fileVerdict = "constructs" =>
    Walking /\ \E p \in DOMAIN tree :
                 Front(DOMAIN tree, Contents, pending, p) /\ SupportedTo(p)

KeysInv ==
  fileVerdict = "keys" =>
    /\ Walking /\ Decodes(tree) /\ Supported
    /\ \E p \in DOMAIN tree : Front(ValueNodes, ValuesOf, pending, p) /\ KeyedTo(p)

MatterInv == SplitInv /\ ConstructsInv /\ KeysInv /\ OnlyPlainAccepted

LEMMA NodesOfTree ==
  ASSUME Walking
  PROVE  /\ DOMAIN tree = 1 .. Len(tree) /\ Len(tree) \in Nat \ {0}
         /\ 1 \in DOMAIN tree /\ DOMAIN tree \in SUBSET (Nat \ {0})
         /\ \A n \in DOMAIN tree :
              /\ \A m \in Content(tree[n]) : m \in DOMAIN tree /\ n < m
              /\ Values(tree[n]) \subseteq Content(tree[n])
<1>1. /\ DOMAIN tree = 1 .. Len(tree) /\ Len(tree) \in Nat \ {0}
      /\ \A n \in DOMAIN tree : \A i \in DOMAIN tree[n].content :
           tree[n].content[i] \in n + 1 .. Len(tree)
  BY DEF Walking, IsTree
<1>2. 1 \in DOMAIN tree /\ DOMAIN tree \in SUBSET (Nat \ {0})
  BY <1>1
<1>3. ASSUME NEW n \in DOMAIN tree
      PROVE  /\ \A m \in Content(tree[n]) : m \in DOMAIN tree /\ n < m
             /\ Values(tree[n]) \subseteq Content(tree[n])
  <2>1. ASSUME NEW m \in Content(tree[n]) PROVE m \in DOMAIN tree /\ n < m
    <3>1. m \in n + 1 .. Len(tree)
      BY <1>1 DEF Content
    <3> QED
      BY <1>1, <3>1
  <2>2. Values(tree[n]) \subseteq Content(tree[n])
    BY DEF Values, Content
  <2> QED
    BY <2>1, <2>2
<1> QED
  BY <1>1, <1>2, <1>3

LEMMA AboveNodes ==
  ASSUME Walking, NEW n \in DOMAIN tree, n # 1
  PROVE  \E m \in DOMAIN tree : m < n /\ \E i \in DOMAIN tree[m].content : tree[m].content[i] = n
<1>1. DOMAIN tree = 1 .. Len(tree) /\ Len(tree) \in Nat
  BY NodesOfTree
<1>2. n \in 2 .. Len(tree)
  BY <1>1
<1>3. PICK m \in 1 .. n - 1 : \E i \in DOMAIN tree[m].content : tree[m].content[i] = n
  BY <1>2 DEF Walking, IsTree
<1>4. m \in DOMAIN tree /\ m < n
  BY <1>1, <1>2
<1> QED
  BY <1>3, <1>4

LEMMA ContentsRooted == Walking => Rooted(DOMAIN tree, Contents)
<1> SUFFICES ASSUME Walking, NEW n \in DOMAIN tree, n # 1
             PROVE  \E m \in DOMAIN tree : m < n /\ n \in Contents[m]
  BY DEF Rooted
<1>1. PICK m \in DOMAIN tree : m < n /\ \E i \in DOMAIN tree[m].content : tree[m].content[i] = n
  BY AboveNodes
<1>2. n \in Contents[m]
  BY <1>1 DEF Contents, Content
<1> QED
  BY <1>1, <1>2

(* A key is a scalar and has no content. *)
LEMMA KeysAreScalars ==
  ASSUME Walking, Decodes(tree), NEW n \in DOMAIN tree, n \notin ValueNodes
  PROVE  tree[n].kind = "scalar" /\ tree[n].content = <<>>
<1>1. PICK m \in DOMAIN tree : /\ tree[m].kind = "map"
                               /\ \E i \in KeyPlaces(tree[m]) : tree[m].content[i] = n
  BY DEF ValueNodes
<1>2. tree[n].kind = "scalar"
  BY <1>1 DEF Decodes
<1> QED
  BY <1>2 DEF Walking, IsTree

LEMMA ValuesRooted == Walking /\ Decodes(tree) => Rooted(ValueNodes, ValuesOf)
<1> SUFFICES ASSUME Walking, Decodes(tree), NEW n \in ValueNodes, n # 1
             PROVE  \E m \in ValueNodes : m < n /\ n \in ValuesOf[m]
  BY DEF Rooted
<1>0. n \in DOMAIN tree
  BY DEF ValueNodes
<1>1. PICK m \in DOMAIN tree : m < n /\ \E i \in DOMAIN tree[m].content : tree[m].content[i] = n
  BY <1>0, AboveNodes
<1>2. PICK i \in DOMAIN tree[m].content : tree[m].content[i] = n
  BY <1>1
<1>3. m \in ValueNodes
  <2>1. ASSUME m \notin ValueNodes PROVE FALSE
    <3>1. tree[m].content = <<>>
      BY <2>1, KeysAreScalars
    <3> QED
      BY <1>2, <3>1
  <2> QED
    BY <2>1
<1>4. tree[m].kind = "map" => i \notin KeyPlaces(tree[m])
  BY <1>2 DEF ValueNodes
<1>5. n \in Values(tree[m])
  BY <1>2, <1>4 DEF Values
<1> QED
  BY <1>1, <1>3, <1>5 DEF ValuesOf

(* The call that is made is the one at the front. *)
LEMMA LeastIsNext ==
  ASSUME Walking, NEW N, NEW callees, NEW p \in DOMAIN tree, Front(N, callees, pending, p)
  PROVE  Least = p
<1>1. p \in pending /\ \A m \in pending : p <= m
  BY DEF Front
<1>2. Least \in pending /\ \A m \in pending : Least <= m
  BY <1>1 DEF Least
<1>3. p <= Least /\ Least <= p /\ p \in Nat /\ Least \in Nat
  BY <1>1, <1>2, NodesOfTree DEF Walking
<1> QED
  BY <1>3

(* No step of a walk changes what it walks over. *)
LEMMA SameTree ==
  ASSUME Unchanged
  PROVE  /\ stream' = stream /\ tree' = tree /\ IsOne' = IsOne
         /\ Contents' = Contents /\ ValuesOf' = ValuesOf /\ ValueNodes' = ValueNodes
         /\ Supported' = Supported
         /\ \A p : SupportedTo(p)' = SupportedTo(p) /\ KeyedTo(p)' = KeyedTo(p)
<1>1. stream' = stream /\ tree' = tree
  BY DEF Unchanged, tree
<1>2. IsOne' = IsOne
  BY <1>1 DEF IsOne
<1>3. Contents' = Contents /\ ValuesOf' = ValuesOf /\ ValueNodes' = ValueNodes
  BY <1>1 DEF Contents, ValuesOf, ValueNodes
<1>4. Supported' = Supported
  BY <1>1 DEF Supported, Unsupported
<1>5. \A p : SupportedTo(p)' = SupportedTo(p) /\ KeyedTo(p)' = KeyedTo(p)
  BY <1>1, <1>3 DEF SupportedTo, KeyedTo, Unsupported, StringKeyed
<1> QED
  BY <1>1, <1>2, <1>3, <1>4, <1>5

(* What a refusal says is true of the tree. *)
LEMMA RefusalsAreDue ==
  ASSUME Walking, NEW n \in DOMAIN tree
  PROVE  /\ Unsupported(tree[n]) \in {"none", "anchor", "alias", "merge", "tag"}
         /\ Unsupported(tree[n]) # "none" => ~Plain(tree)
         /\ Unsupported(tree[n]) = "anchor" => tree[n].anchor
         /\ Unsupported(tree[n]) = "alias" => tree[n].kind = "alias"
         /\ Unsupported(tree[n]) = "tag" => tree[n].tag \notin Standard
         /\ tree[n].kind = "map" /\ ~StringKeyed(tree[n]) => ~Plain(tree)
<1>1. Unsupported(tree[n]) = "merge" => ~Plain(tree)
  BY DEF Unsupported, Plain
<1>2. Unsupported(tree[n]) \in {"anchor", "alias", "tag"} => ~Plain(tree)
  BY DEF Unsupported, Plain
<1>3. tree[n].kind = "map" /\ ~StringKeyed(tree[n]) => ~Plain(tree)
  BY DEF StringKeyed, Plain
<1>4. /\ Unsupported(tree[n]) \in {"none", "anchor", "alias", "merge", "tag"}
      /\ Unsupported(tree[n]) = "anchor" => tree[n].anchor
      /\ Unsupported(tree[n]) = "alias" => tree[n].kind = "alias"
      /\ Unsupported(tree[n]) = "tag" => tree[n].tag \notin Standard
  BY DEF Unsupported
<1> QED
  BY <1>1, <1>2, <1>3, <1>4

LEMMA PlainDecodes == Plain(tree) => Decodes(tree)
<1>0. Plain(tree) => \A n \in DOMAIN tree : tree[n].kind = "scalar" => tree[n].fits
  BY DEF Plain
<1> SUFFICES ASSUME Plain(tree), NEW n \in DOMAIN tree, tree[n].kind = "map",
                    NEW i \in KeyPlaces(tree[n]), NEW j \in KeyPlaces(tree[n])
             PROVE  /\ tree[tree[n].content[i]].kind = "scalar"
                    /\ i # j => tree[tree[n].content[i]].value # tree[tree[n].content[j]].value
  BY <1>0 DEF Decodes
<1>1. tree[tree[n].content[i]] \in Keys(tree, tree[n])
  BY DEF Keys
<1>2. tree[tree[n].content[i]].kind = "scalar"
  BY <1>1 DEF Plain
<1> QED
  BY <1>2 DEF Plain

(* Both walks together have looked at everything the subset forbids. *)
LEMMA WalkedIsPlain ==
  ASSUME Walking, Decodes(tree), Supported, tree[1].kind = "map",
         \A n \in ValueNodes : tree[n].kind = "map" => StringKeyed(tree[n])
  PROVE  Plain(tree)
<1>1. ASSUME NEW n \in DOMAIN tree
      PROVE  ~tree[n].anchor /\ tree[n].kind # "alias" /\ tree[n].tag \in Standard
  BY DEF Supported, Unsupported
<1>2. ASSUME NEW n \in DOMAIN tree, tree[n].kind = "map"
      PROVE  /\ \A key \in Keys(tree, tree[n]) :
                  key.kind = "scalar" /\ key.tag = "!!str" /\ key.value # "<<"
             /\ \A i, j \in KeyPlaces(tree[n]) :
                  i # j => tree[tree[n].content[i]].value # tree[tree[n].content[j]].value
  <2>1. n \in ValueNodes
    <3>1. n \notin ValueNodes => tree[n].kind = "scalar"
      BY KeysAreScalars
    <3> QED
      BY <1>2, <3>1
  <2>2. \A key \in Keys(tree, tree[n]) : key.tag = "!!str"
    BY <1>2, <2>1 DEF StringKeyed
  <2>3. \A key \in Keys(tree, tree[n]) : key.value # "<<"
    BY <1>2 DEF Supported, Unsupported
  <2>4. \A key \in Keys(tree, tree[n]) : key.kind = "scalar"
    BY <1>2 DEF Keys, Decodes
  <2>5. \A i, j \in KeyPlaces(tree[n]) :
          i # j => tree[tree[n].content[i]].value # tree[tree[n].content[j]].value
    BY <1>2 DEF Decodes
  <2> QED
    BY <2>2, <2>3, <2>4, <2>5
<1>3. \A n \in DOMAIN tree : tree[n].kind = "scalar" => tree[n].fits
  BY DEF Decodes
<1> QED
  BY <1>1, <1>2, <1>3 DEF Plain

(* A step that refuses nothing, and one that refuses. *)
LEMMA PendingKeeps ==
  ASSUME Unchanged, fileVerdict' \notin {"ok", "refused"}, reason' = "none"
  PROVE  OnlyPlainAccepted'
BY DEF OnlyPlainAccepted

LEMMA RefusedKeeps ==
  ASSUME Unchanged, fileVerdict' = "refused", IsOne, reason' \in Reasons \ {"several"},
         ~Plain(tree),
         reason' = "anchor" => \E n \in DOMAIN tree : tree[n].anchor,
         reason' = "alias"  => \E n \in DOMAIN tree : tree[n].kind = "alias",
         reason' = "tag"    => \E n \in DOMAIN tree : tree[n].tag \notin Standard,
         stream \in Seq(Trees \cup {Malformed})
  PROVE  OnlyPlainAccepted' /\ ConstructsInv' /\ KeysInv'
<1>1. stream' = stream /\ tree' = tree /\ IsOne
  BY SameTree
<1>2. stream # <<>>
  BY DEF IsOne
<1>3. OnlyPlainAccepted'
  BY <1>1, <1>2 DEF OnlyPlainAccepted, IsOne, Reasons
<1>4. ConstructsInv' /\ KeysInv'
  BY DEF ConstructsInv, KeysInv
<1> QED
  BY <1>3, <1>4

LEMMA ParsedStream ==
  ASSUME SplitInv
  PROVE  stream \in Seq(Trees \cup {Malformed}) /\ pending \subseteq Nat
<1>1. stream \in Streams \/ stream = <<>>
  BY DEF SplitInv, MatterTypeOK, StreamTypeOK
<1>2. <<>> \in Seq(Trees \cup {Malformed})
  OBVIOUS
<1>3. stream \in Seq(Trees \cup {Malformed})
  BY <1>1, <1>2, StreamsAreTrees, Zenon
<1> QED
  BY <1>3 DEF SplitInv, MatterTypeOK, StreamTypeOK

LEMMA ParseYAMLKeeps == ASSUME MatterInv, ParseYAML PROVE MatterInv'
<1>1. /\ fileVerdict = "yaml" /\ Unchanged /\ reason = "none"
      /\ stream' = stream /\ tree' = tree /\ SplitInv
  BY SameTree DEF ParseYAML, MatterInv, SplitInv
<1>2. stream \in Seq(Trees \cup {Malformed}) /\ pending \subseteq Nat
  BY <1>1, ParsedStream
<1>3. CASE stream = <<>>
  <2>1. fileVerdict' = "ok" /\ pending' = pending /\ reason' = reason
    BY <1>3 DEF ParseYAML
  <2>2. SplitInv'
    BY <1>1, <1>2, <2>1, WalksKeepTheSplit
  <2>3. OnlyPlainAccepted'
    BY <1>1, <1>3, <2>1 DEF OnlyPlainAccepted
  <2> QED
    BY <2>1, <2>2, <2>3 DEF MatterInv, ConstructsInv, KeysInv
<1>4. CASE stream # <<>> /\ \E k \in {1, 2} \cap DOMAIN stream : stream[k] = Malformed
  <2>1. fileVerdict' = "refused" /\ reason' = "malformed" /\ pending' = pending
    BY <1>4 DEF ParseYAML, Refuse
  <2>2. SplitInv'
    BY <1>1, <1>2, <2>1, WalksKeepTheSplit DEF Reasons
  <2>3. ~IsOne
    BY <1>2, <1>4 DEF IsOne, tree
  <2>4. OnlyPlainAccepted'
    BY <1>1, <1>4, <2>1, <2>3 DEF OnlyPlainAccepted, IsOne
  <2> QED
    BY <2>1, <2>2, <2>4 DEF MatterInv, ConstructsInv, KeysInv
<1>5. CASE Len(stream) > 1 /\ ~\E k \in {1, 2} \cap DOMAIN stream : stream[k] = Malformed
  <2>0. stream # <<>>
    BY <1>2, <1>5
  <2>1. fileVerdict' = "refused" /\ reason' = "several" /\ pending' = pending
    BY <1>5, <2>0 DEF ParseYAML, Refuse
  <2>2. SplitInv'
    BY <1>1, <1>2, <2>1, WalksKeepTheSplit DEF Reasons
  <2>3. ~IsOne
    BY <1>2, <1>5 DEF IsOne
  <2>4. OnlyPlainAccepted'
    BY <1>1, <1>5, <2>0, <2>1, <2>3 DEF OnlyPlainAccepted, IsOne
  <2> QED
    BY <2>1, <2>2, <2>4 DEF MatterInv, ConstructsInv, KeysInv
<1>6. CASE /\ stream # <<>> /\ ~(Len(stream) > 1)
           /\ ~\E k \in {1, 2} \cap DOMAIN stream : stream[k] = Malformed
  <2>1. fileVerdict' = "constructs" /\ reason' = reason /\ pending' = {1}
    BY <1>6 DEF ParseYAML
  <2>2. SplitInv'
    BY <1>1, <1>2, <2>1, WalksKeepTheSplit
  <2>3. Len(stream) = 1 /\ 1 \in DOMAIN stream
    <3>1. Len(stream) \in Nat /\ DOMAIN stream = 1 .. Len(stream)
      BY <1>2, LenProperties
    <3>2. Len(stream) # 0
      BY <1>2, <1>6, EmptySeq
    <3> QED
      BY <1>6, <3>1, <3>2
  <2>4. IsOne /\ IsTree(tree)
    <3>1. stream[1] \in Trees \cup {Malformed}
      BY <1>2, <2>3
    <3>2. 1 \in {1, 2} \cap DOMAIN stream
      BY <2>3
    <3>3. stream[1] # Malformed
      BY <1>6, <3>2
    <3> QED
      BY <2>3, <3>1, <3>3, TreesGrow DEF IsOne, tree
  <2>5. 1 \in DOMAIN tree /\ DOMAIN tree \in SUBSET (Nat \ {0})
    BY <2>4 DEF IsTree
  <2>6. Walking'
    BY <1>1, <2>1, <2>4, <2>5, SameTree DEF Walking
  <2>7. Front((DOMAIN tree)', Contents', pending', 1)
    <3>1. ASSUME NEW m \in DOMAIN tree, m < 1 PROVE FALSE
      BY <2>5, <3>1
    <3>2. /\ 1 \in {1} /\ \A m \in {1} : 1 <= m
          /\ \A m, n \in DOMAIN tree :
               m < 1 /\ 1 <= n /\ n \in Contents[m] => n \in {1}
      BY <3>1
    <3>3. Front(DOMAIN tree, Contents, {1}, 1)
      BY <3>2, Zenon DEF Front
    <3> QED
      BY <1>1, <2>1, <3>3, SameTree
  <2>8. SupportedTo(1)'
    BY <1>1, <2>5, SameTree DEF SupportedTo
  <2>9. ConstructsInv'
    BY <1>1, <2>5, <2>6, <2>7, <2>8 DEF ConstructsInv
  <2>10. OnlyPlainAccepted'
    BY <1>1, <2>1, PendingKeeps
  <2> QED
    BY <2>1, <2>2, <2>9, <2>10 DEF MatterInv, KeysInv
<1> QED
  BY <1>3, <1>4, <1>5, <1>6

(* The next call of a walk over N, or its end. *)
LEMMA WalkOn ==
  ASSUME Walking, NEW N, N \subseteq DOMAIN tree, NEW callees, Rooted(N, callees),
         NEW p \in DOMAIN tree, Front(N, callees, pending, p),
         callees[p] \subseteq Content(tree[p])
  PROVE  Left(callees, pending, p) \subseteq DOMAIN tree /\ NextCallIs(N, callees, pending, p)
<1>1. /\ DOMAIN tree \in SUBSET (Nat \ {0}) /\ pending \subseteq DOMAIN tree
      /\ \A m \in callees[p] : m \in DOMAIN tree /\ p < m
  BY NodesOfTree DEF Walking
<1>2. Left(callees, pending, p) \subseteq DOMAIN tree
  <2>1. callees[p] \subseteq DOMAIN tree
    BY <1>1
  <2> QED
    BY <1>1, <2>1, Zenon DEF Left
<1>3. CanWalk(N, callees, pending, p)
  BY <1>1 DEF CanWalk
<1> QED
  BY <1>2, <1>3, NextCall

LEMMA RejectUnsupportedKeeps == ASSUME MatterInv, RejectUnsupported PROVE MatterInv'
<1>1. /\ fileVerdict = "constructs" /\ Unchanged /\ reason = "none" /\ SplitInv /\ Walking
      /\ stream \in Seq(Trees \cup {Malformed}) /\ pending \subseteq Nat
  BY ParsedStream DEF RejectUnsupported, Visit, MatterInv, SplitInv, ConstructsInv
<1>2. PICK p \in DOMAIN tree : Front(DOMAIN tree, Contents, pending, p) /\ SupportedTo(p)
  BY <1>1 DEF MatterInv, ConstructsInv
<1>3. Least = p
  BY <1>1, <1>2, LeastIsNext
<1>4. PICK left : left = Left(Contents, pending, p)
  OBVIOUS
<1>5. Contents[p] = Content(tree[p]) /\ left = (pending \ {p}) \cup Content(tree[p])
  BY <1>4 DEF Contents, Left
<1>6. /\ left \subseteq DOMAIN tree
      /\ left # {} => \E q \in left : /\ p < q /\ Front(DOMAIN tree, Contents, left, q)
                                      /\ \A n \in DOMAIN tree : n < q => n <= p
      /\ left = {} => \A n \in DOMAIN tree : n <= p
  <2>1. Rooted(DOMAIN tree, Contents) /\ Contents[p] \subseteq Content(tree[p])
    BY <1>1, <1>5, ContentsRooted
  <2>2. left \subseteq DOMAIN tree /\ NextCallIs(DOMAIN tree, Contents, pending, p)
    BY <1>1, <1>2, <1>4, <2>1, WalkOn
  <2> QED
    BY <1>4, <2>2, Zenon DEF NextCallIs
<1>7. DOMAIN tree \in SUBSET (Nat \ {0}) /\ 1 \in DOMAIN tree
  BY <1>1, NodesOfTree
<1>8. IsOne /\ stream' = stream /\ tree' = tree /\ IsOne' = IsOne
  BY <1>1, SameTree DEF Walking
(* It refuses the node. *)
<1>9. CASE Unsupported(tree[p]) # "none"
  <2>1. fileVerdict' = "refused" /\ reason' = Unsupported(tree[p]) /\ pending' = pending
    BY <1>3, <1>9 DEF RejectUnsupported, Visit, Refuse
  <2>2. /\ reason' \in Reasons \ {"several"} /\ ~Plain(tree)
        /\ reason' = "anchor" => \E n \in DOMAIN tree : tree[n].anchor
        /\ reason' = "alias"  => \E n \in DOMAIN tree : tree[n].kind = "alias"
        /\ reason' = "tag"    => \E n \in DOMAIN tree : tree[n].tag \notin Standard
    BY <1>1, <1>9, <2>1, RefusalsAreDue DEF Reasons
  <2>3. OnlyPlainAccepted' /\ ConstructsInv' /\ KeysInv'
    BY <1>1, <1>8, <2>1, <2>2, RefusedKeeps
  <2>4. SplitInv'
    BY <1>1, <2>1, <2>2, WalksKeepTheSplit
  <2> QED
    BY <2>3, <2>4 DEF MatterInv
(* It calls itself. *)
<1>10. CASE Unsupported(tree[p]) = "none" /\ left # {}
  <2>1. fileVerdict' = "constructs" /\ reason' = reason /\ pending' = left
    BY <1>1, <1>3, <1>5, <1>10 DEF RejectUnsupported, Visit
  <2>2. SplitInv'
    BY <1>1, <1>6, <1>7, <2>1, WalksKeepTheSplit
  <2>3. PICK q \in left : /\ p < q /\ Front(DOMAIN tree, Contents, left, q)
                          /\ \A n \in DOMAIN tree : n < q => n <= p
    BY <1>6, <1>10
  <2>4. SupportedTo(q)
    <3> SUFFICES ASSUME NEW n \in DOMAIN tree, n < q PROVE Unsupported(tree[n]) = "none"
      BY DEF SupportedTo
    <3>1. n = p \/ n < p
      BY <1>6, <1>7, <2>3
    <3> QED
      BY <1>2, <1>10, <3>1 DEF SupportedTo
  <2>5. Walking'
    BY <1>1, <1>6, <1>8, <2>1 DEF Walking
  <2>6. q \in (DOMAIN tree)' /\ Front((DOMAIN tree)', Contents', pending', q) /\ SupportedTo(q)'
    BY <1>1, <1>6, <1>8, <2>1, <2>3, <2>4, SameTree
  <2>7. ConstructsInv'
    BY <2>5, <2>6 DEF ConstructsInv
  <2>8. KeysInv' /\ OnlyPlainAccepted'
    BY <1>1, <2>1, PendingKeeps DEF KeysInv
  <2> QED
    BY <2>2, <2>7, <2>8 DEF MatterInv
(* It was the last one. *)
<1>11. CASE Unsupported(tree[p]) = "none" /\ left = {}
  <2>1. Supported
    <3> SUFFICES ASSUME NEW n \in DOMAIN tree PROVE Unsupported(tree[n]) = "none"
      BY DEF Supported
    <3>1. n = p \/ n < p
      BY <1>6, <1>7, <1>11
    <3> QED
      BY <1>2, <1>11, <3>1 DEF SupportedTo
  <2>2. CASE Decodes(tree)
    <3>1. fileVerdict' = "keys" /\ reason' = reason /\ pending' = {1}
      BY <1>3, <1>5, <1>11, <2>2 DEF RejectUnsupported, Visit
    <3>2. SplitInv'
      BY <1>1, <3>1, WalksKeepTheSplit
    <3>3. Walking'
      BY <1>1, <1>7, <1>8, <3>1 DEF Walking
    <3>4. ASSUME NEW m \in ValueNodes, m < 1 PROVE FALSE
      BY <1>7, <3>4 DEF ValueNodes
    <3>5. Front(ValueNodes, ValuesOf, {1}, 1)
      <4>1. /\ 1 \in {1} /\ \A m \in {1} : 1 <= m
            /\ \A m, n \in ValueNodes :
                 m < 1 /\ 1 <= n /\ n \in ValuesOf[m] => n \in {1}
        BY <3>4
      <4> QED
        BY <4>1, Zenon DEF Front
    <3>6. KeyedTo(1)
      BY <3>4 DEF KeyedTo
    <3>7. /\ 1 \in (DOMAIN tree)' /\ Front(ValueNodes', ValuesOf', pending', 1)
          /\ KeyedTo(1)' /\ Supported' /\ Decodes(tree)'
      BY <1>1, <1>7, <1>8, <2>1, <2>2, <3>1, <3>5, <3>6, SameTree
    <3>8. KeysInv'
      BY <3>3, <3>7 DEF KeysInv
    <3>9. ConstructsInv' /\ OnlyPlainAccepted'
      BY <1>1, <3>1, PendingKeeps DEF ConstructsInv
    <3> QED
      BY <3>2, <3>8, <3>9 DEF MatterInv
  <2>3. CASE ~Decodes(tree)
    <3>1. fileVerdict' = "refused" /\ reason' = "malformed" /\ pending' = pending
      BY <1>3, <1>5, <1>11, <2>3 DEF RejectUnsupported, Visit, Refuse
    <3>2. ~Plain(tree) /\ reason' \in Reasons \ {"several"}
      BY <2>3, <3>1, PlainDecodes DEF Reasons
    <3>3. OnlyPlainAccepted' /\ ConstructsInv' /\ KeysInv'
      BY <1>1, <1>8, <3>1, <3>2, RefusedKeeps
    <3>4. SplitInv'
      BY <1>1, <3>1, <3>2, WalksKeepTheSplit
    <3> QED
      BY <3>3, <3>4 DEF MatterInv
  <2> QED
    BY <2>2, <2>3
<1> QED
  BY <1>9, <1>10, <1>11

LEMMA RejectNonStringKeysKeeps == ASSUME MatterInv, RejectNonStringKeys PROVE MatterInv'
<1>1. /\ fileVerdict = "keys" /\ Unchanged /\ reason = "none" /\ SplitInv /\ Walking
      /\ Decodes(tree) /\ Supported
      /\ stream \in Seq(Trees \cup {Malformed}) /\ pending \subseteq Nat
  BY ParsedStream DEF RejectNonStringKeys, Visit, MatterInv, SplitInv, KeysInv
<1>2. PICK p \in DOMAIN tree : Front(ValueNodes, ValuesOf, pending, p) /\ KeyedTo(p)
  BY <1>1 DEF MatterInv, KeysInv
<1>3. Least = p
  BY <1>1, <1>2, LeastIsNext
<1>4. PICK left : left = Left(ValuesOf, pending, p)
  OBVIOUS
<1>5. ValuesOf[p] = Values(tree[p]) /\ left = (pending \ {p}) \cup Values(tree[p])
  BY <1>4 DEF ValuesOf, Left
<1>6. /\ left \subseteq DOMAIN tree
      /\ left # {} => \E q \in left : /\ p < q /\ Front(ValueNodes, ValuesOf, left, q)
                                      /\ \A n \in ValueNodes : n < q => n <= p
      /\ left = {} => \A n \in ValueNodes : n <= p
  <2>1. /\ Rooted(ValueNodes, ValuesOf) /\ ValuesOf[p] \subseteq Content(tree[p])
        /\ ValueNodes \subseteq DOMAIN tree
    BY <1>1, <1>5, ValuesRooted, NodesOfTree DEF ValueNodes
  <2>2. left \subseteq DOMAIN tree /\ NextCallIs(ValueNodes, ValuesOf, pending, p)
    BY <1>1, <1>2, <1>4, <2>1, WalkOn
  <2> QED
    BY <1>4, <2>2, Zenon DEF NextCallIs
<1>7. /\ DOMAIN tree \in SUBSET (Nat \ {0}) /\ 1 \in DOMAIN tree
      /\ ValueNodes \subseteq DOMAIN tree
  BY <1>1, NodesOfTree DEF ValueNodes
<1>8. IsOne /\ stream' = stream /\ tree' = tree /\ IsOne' = IsOne
  BY <1>1, SameTree DEF Walking
<1> DEFINE Keyed == ~(tree[p].kind = "map" /\ ~StringKeyed(tree[p]))
<1>9. CASE ~Keyed
  <2>1. fileVerdict' = "refused" /\ reason' = "keys" /\ pending' = pending
    BY <1>3, <1>9 DEF RejectNonStringKeys, Visit, Refuse
  <2>2. ~Plain(tree) /\ reason' \in Reasons \ {"several"}
    BY <1>1, <1>9, <2>1, RefusalsAreDue DEF Reasons
  <2>3. OnlyPlainAccepted' /\ ConstructsInv' /\ KeysInv'
    BY <1>1, <1>8, <2>1, <2>2, RefusedKeeps
  <2>4. SplitInv'
    BY <1>1, <2>1, <2>2, WalksKeepTheSplit
  <2> QED
    BY <2>3, <2>4 DEF MatterInv
<1>10. CASE Keyed /\ left # {}
  <2>1. fileVerdict' = "keys" /\ reason' = reason /\ pending' = left
    BY <1>1, <1>3, <1>5, <1>10 DEF RejectNonStringKeys, Visit
  <2>2. SplitInv'
    BY <1>1, <1>6, <1>7, <2>1, WalksKeepTheSplit
  <2>3. PICK q \in left : /\ p < q /\ Front(ValueNodes, ValuesOf, left, q)
                          /\ \A n \in ValueNodes : n < q => n <= p
    BY <1>6, <1>10
  <2>4. KeyedTo(q)
    <3> SUFFICES ASSUME NEW n \in ValueNodes, n < q, tree[n].kind = "map"
                 PROVE  StringKeyed(tree[n])
      BY DEF KeyedTo
    <3>1. n = p \/ n < p
      BY <1>6, <1>7, <2>3
    <3> QED
      BY <1>2, <1>10, <3>1 DEF KeyedTo
  <2>5. Walking'
    BY <1>1, <1>6, <1>8, <2>1 DEF Walking
  <2>6. /\ q \in (DOMAIN tree)' /\ Front(ValueNodes', ValuesOf', pending', q) /\ KeyedTo(q)'
        /\ Supported' /\ Decodes(tree)'
    BY <1>1, <1>6, <1>8, <2>1, <2>3, <2>4, SameTree
  <2>7. KeysInv'
    BY <2>5, <2>6 DEF KeysInv
  <2>8. ConstructsInv' /\ OnlyPlainAccepted'
    BY <1>1, <2>1, PendingKeeps DEF ConstructsInv
  <2> QED
    BY <2>2, <2>7, <2>8 DEF MatterInv
<1>11. CASE Keyed /\ left = {}
  <2>1. \A n \in ValueNodes : tree[n].kind = "map" => StringKeyed(tree[n])
    <3> SUFFICES ASSUME NEW n \in ValueNodes, tree[n].kind = "map"
                 PROVE  StringKeyed(tree[n])
      OBVIOUS
    <3>1. n = p \/ n < p
      BY <1>6, <1>7, <1>11
    <3> QED
      BY <1>2, <1>11, <3>1 DEF KeyedTo
  <2>2. CASE tree[1].kind = "map"
    <3>1. fileVerdict' = "ok" /\ reason' = reason /\ pending' = pending
      BY <1>3, <1>5, <1>11, <2>2 DEF RejectNonStringKeys, Visit
    <3>2. SplitInv'
      BY <1>1, <3>1, WalksKeepTheSplit
    <3>3. Plain(tree)
      BY <1>1, <2>1, <2>2, WalkedIsPlain
    <3>4. OnlyPlainAccepted'
      BY <1>1, <1>8, <3>1, <3>3 DEF OnlyPlainAccepted, IsOne
    <3> QED
      BY <3>1, <3>2, <3>4 DEF MatterInv, ConstructsInv, KeysInv
  <2>3. CASE tree[1].kind # "map"
    <3>1. fileVerdict' = "refused" /\ reason' = "shape" /\ pending' = pending
      BY <1>3, <1>5, <1>11, <2>3 DEF RejectNonStringKeys, Visit, Refuse
    <3>2. ~Plain(tree) /\ reason' \in Reasons \ {"several"}
      BY <2>3, <3>1 DEF Plain, Reasons
    <3>3. OnlyPlainAccepted' /\ ConstructsInv' /\ KeysInv'
      BY <1>1, <1>8, <3>1, <3>2, RefusedKeeps
    <3>4. SplitInv'
      BY <1>1, <3>1, <3>2, WalksKeepTheSplit
    <3> QED
      BY <3>3, <3>4 DEF MatterInv
  <2> QED
    BY <2>2, <2>3
<1> QED
  BY <1>9, <1>10, <1>11

(* Nothing has been found while the block is still being split off. *)
LEMMA SplittingKeeps ==
  ASSUME MatterInv, Open \/ Scan
  PROVE  MatterInv'
<1>1. SplitInv'
  BY OpenKeeps, ScanKeeps DEF MatterInv
<1>2. /\ fileVerdict' \in {"refused", "scan", "yaml"}
      /\ fileVerdict' = "refused" => reason' \in {"missing", "unterminated"}
      /\ fileVerdict' # "refused" => reason' = "none"
  BY DEF MatterInv, SplitInv, Open, Scan, Refuse
<1>3. OnlyPlainAccepted'
  BY <1>2 DEF OnlyPlainAccepted
<1> QED
  BY <1>1, <1>2, <1>3 DEF MatterInv, ConstructsInv, KeysInv

LEMMA MatterStays == ASSUME MatterInv, UNCHANGED matterVars PROVE MatterInv'
<1>1. /\ file' = file /\ rest' = rest /\ block' = block /\ stream' = stream
      /\ pending' = pending /\ fileVerdict' = fileVerdict /\ reason' = reason
  BY DEF matterVars
<1>2. SplitInv'
  <2>1. MatterTypeOK'
    BY <1>1 DEF MatterInv, SplitInv, MatterTypeOK, BlockTypeOK, StreamTypeOK, VerdictTypeOK
  <2>2. Opened' = Opened
    BY <1>1 DEF Opened
  <2>3. \A b, n, k : Between(b, n, k)' = Between(b, n, k)
    BY <1>1, Zenon DEF Between
  <2>4. ScanInv' = ScanInv
    BY <1>1, <2>2, <2>3 DEF ScanInv
  <2>5. BlockReassembles'
    BY <1>1, <2>2 DEF MatterInv, SplitInv, BlockReassembles
  <2> QED
    BY <1>1, <2>1, <2>4, <2>5 DEF MatterInv, SplitInv
<1>3. /\ tree' = tree /\ IsOne' = IsOne /\ Contents' = Contents /\ ValuesOf' = ValuesOf
      /\ ValueNodes' = ValueNodes /\ Supported' = Supported
      /\ \A p : SupportedTo(p)' = SupportedTo(p) /\ KeyedTo(p)' = KeyedTo(p)
  BY <1>1, SameTree DEF Unchanged
<1>4. Walking' = Walking
  BY <1>1, <1>3 DEF Walking
<1>5. ConstructsInv'
  BY <1>1, <1>3, <1>4 DEF MatterInv, ConstructsInv
<1>6. KeysInv'
  BY <1>1, <1>3, <1>4 DEF MatterInv, KeysInv
<1>7. OnlyPlainAccepted'
  BY <1>1, <1>3 DEF MatterInv, OnlyPlainAccepted
<1> QED
  BY <1>2, <1>5, <1>6, <1>7 DEF MatterInv

LEMMA MatterInvariant == MatterSpec => []MatterInv
<1>1. MatterInit => MatterInv
  BY SplitInitInv DEF MatterInit, MatterInv, ConstructsInv, KeysInv, OnlyPlainAccepted
<1>2. ASSUME MatterInv, [MatterNext]_matterVars PROVE MatterInv'
  BY <1>2, SplittingKeeps, ParseYAMLKeeps, RejectUnsupportedKeeps, RejectNonStringKeysKeeps,
     MatterStays DEF MatterNext
<1> QED
  BY <1>1, <1>2, PTL DEF MatterSpec

(* Every variable of the split and of the two walks has its type           *)
(* (frontmatter.go 63-103, 239-283).                                       *)
THEOREM MatterTypeCorrect == MatterSpec => []MatterTypeOK
<1>1. MatterInv => MatterTypeOK
  BY DEF MatterInv, SplitInv
<1> QED
  BY <1>1, MatterInvariant, PTL

(* Delimiters, block and body put together are the file, and no delimiter  *)
(* is inside the block, for files of any length (frontmatter.go 63-68,     *)
(* 75-78).                                                                 *)
THEOREM BlocksReassemble == MatterSpec => []BlockReassembles
<1>1. MatterInv => BlockReassembles
  BY DEF MatterInv, SplitInv
<1> QED
  BY <1>1, MatterInvariant, PTL

(* Only blocks of the plain subset are accepted, and none of it is refused *)
(* but for something that is in the block, for trees of any depth and size *)
(* (ADR-017, frontmatter.go 13-28, 140-226, 239-283).                      *)
THEOREM PlainBlocksPass == MatterSpec => []OnlyPlainAccepted
<1>1. MatterInv => OnlyPlainAccepted
  BY DEF MatterInv
<1> QED
  BY <1>1, MatterInvariant, PTL

--------------------------------------------------------------------------------
(* Schema errors: the walk finds every leaf of the tree, and every error   *)
(* of the leaves that are told is told once.                               *)

(* What a document is refused for, by what the leaves stand for. *)
OfFaults   == OfEnvelope \cup OfArtifact \cup OfEither
OfRefusals == Each("FalseSchema", "if", Refused) \cup Each("FalseSchema", "unevaluated", Unevaluated)
Leaves     == OfFaults \cup OfRefusals

(* The causes between the failure and its leaves. *)
EnvelopeRule == Rule("envelope", OfEnvelope)
IfRule       == Rule("if", Each("FalseSchema", "if", Refused))
Conditions     == EnvelopeRule \cup IfRule
AllRule      == Rule("allOf", Conditions)
AnyRule      == Rule("anyOf", OfEither)
Inner        == {Failure} \cup Conditions \cup AllRule \cup AnyRule

(* A cause is at most this far above a leaf. *)
Holds(c, leaf) ==
  \/ leaf = c \/ leaf \in c.causes
  \/ \E d \in c.causes : leaf \in d.causes \/ \E e \in d.causes : leaf \in e.causes

Told  == IF OfFaults = {} THEN OfRefusals ELSE OfFaults
Pairs == UNION {{<<leaf, e>> : e \in FieldErrorsFor(leaf)} : leaf \in Told}

Places     == Fields \cup {Root, "inner", "(document)"}
Kinds      == {"Required", "AdditionalProperties", "format", "type", "FalseSchema"}
FieldError == [field : Seq(Places), reason : Kinds \cup {"failure"}]

SchemaTypeOK ==
  /\ document \in Document
  /\ causes \subseteq Inner \cup Leaves /\ leaves \subseteq Leaves
  /\ errors \subseteq Leaves \X FieldError /\ fields \in Seq(FieldError)
  /\ explaining \in {"valid", "split", "report", "done"}

LeavesFound ==
  /\ explaining = "split" =>
       \A leaf \in Leaves : leaf \in leaves \/ \E c \in causes : Holds(c, leaf)
  /\ explaining \in {"report", "done"} => leaves = Leaves

ErrorsTold ==
  /\ explaining \in {"valid", "split"} => fields = <<>>
  /\ explaining = "report" =>
       errors \subseteq Pairs /\ \A pair \in Pairs : pair \in errors \/ Seen(pair[2])
  /\ explaining = "done" => \A pair \in Pairs : Seen(pair[2])
  /\ \A i \in DOMAIN fields : \E pair \in Pairs : fields[i] = pair[2]
  /\ \A i, j \in DOMAIN fields : fields[i] = fields[j] => i = j

SchemaInv ==
  /\ SchemaTypeOK /\ LeavesFound /\ ErrorsTold
  /\ explaining # "valid" => Faulty # {}

LEMMA InEach ==
  ASSUME NEW kind, NEW branch, NEW set, NEW leaf \in Each(kind, branch, set)
  PROVE  leaf.kind = kind /\ leaf.at \in set /\ leaf.names = {} /\ leaf.causes = {}
BY DEF Each, Cause

LEMMA InInside ==
  ASSUME NEW kind, NEW branch, NEW set, NEW leaf \in Inside(kind, branch, set)
  PROVE  leaf.kind = kind /\ leaf.at \in set /\ leaf.names = {"inner"} /\ leaf.causes = {}
BY DEF Inside, Cause

LEMMA InRequired ==
  ASSUME NEW branch, NEW set, NEW leaf \in Required(branch, set)
  PROVE  /\ leaf.kind = "Required" /\ leaf.at = Root /\ leaf.names = set /\ set # {}
         /\ leaf.causes = {}
BY DEF Required, Cause

LEMMA LeavesAreLeaves ==
  /\ \A leaf \in OfFaults : leaf.kind # "FalseSchema"
  /\ \A leaf \in OfRefusals : leaf.kind = "FalseSchema"
  /\ \A leaf \in Leaves : leaf.causes = {}
<1>1. ASSUME NEW leaf \in OfFaults PROVE leaf.causes = {} /\ leaf.kind # "FalseSchema"
  BY InEach, InInside, InRequired DEF OfFaults, OfEnvelope, OfArtifact, OfEither
<1>2. ASSUME NEW leaf \in OfRefusals PROVE leaf.causes = {} /\ leaf.kind = "FalseSchema"
  BY InEach, InInside, InRequired DEF OfRefusals
<1> QED
  BY <1>1, <1>2 DEF Leaves

(* Every leaf is at a field, or at the root with the names of some. *)
LEMMA FieldsOfLeaves ==
  ASSUME document \in Document, NEW leaf \in Leaves
  PROVE  /\ leaf.at \in Fields \cup {Root} /\ leaf.kind \in Kinds
         /\ leaf.names \subseteq Fields \cup {"inner"}
         /\ leaf.kind \in {"Required", "AdditionalProperties"} => leaf.names # {}
<1>0. /\ Is("missing") \subseteq Fields /\ Is("bad") \subseteq Fields
      /\ Within("incomplete") \subseteq Fields /\ Within("extra") \subseteq Fields
      /\ Within("neither") \subseteq Fields /\ Refused \subseteq Fields
  BY DEF Is, Within, Refused, Fields
<1> DEFINE Place == /\ leaf.at \in Fields \cup {Root} /\ leaf.kind \in Kinds
                    /\ leaf.names \subseteq Fields \cup {"inner"}
                    /\ leaf.kind \in {"Required", "AdditionalProperties"} => leaf.names # {}
<1>1. ASSUME NEW kind \in Kinds, NEW branch, NEW set, set \subseteq Fields,
             leaf \in Each(kind, branch, set), kind \notin {"Required", "AdditionalProperties"}
      PROVE  Place
  <2>1. leaf.kind = kind /\ leaf.at \in set /\ leaf.names = {}
    BY <1>1, InEach
  <2> QED
    BY <1>1, <2>1 DEF Kinds
<1>2. ASSUME NEW kind \in Kinds, NEW branch, NEW set, set \subseteq Fields,
             leaf \in Inside(kind, branch, set)
      PROVE  Place
  <2>1. leaf.kind = kind /\ leaf.at \in set /\ leaf.names = {"inner"}
    BY <1>2, InInside
  <2> QED
    BY <1>2, <2>1
<1>3. ASSUME NEW branch, NEW set, set \subseteq Fields, leaf \in Required(branch, set)
      PROVE  Place
  <2>1. leaf.kind = "Required" /\ leaf.at = Root /\ leaf.names = set /\ set # {}
    BY <1>3, InRequired
  <2> QED
    BY <1>3, <2>1 DEF Kinds
<1> SUFFICES Place
  OBVIOUS
<1> HIDE DEF Place
<1>4. CASE leaf \in OfEnvelope
  BY <1>0, <1>1, <1>3, <1>4 DEF OfEnvelope, Kinds
<1>5. CASE leaf \in OfArtifact
  BY <1>0, <1>1, <1>2, <1>3, <1>5 DEF OfArtifact, Kinds
<1>6. CASE leaf \in OfEither
  BY <1>0, <1>1, <1>6 DEF OfEither, Kinds
<1>7. CASE leaf \in OfRefusals
  <2>1. Unevaluated \subseteq Fields
    BY DEF Unevaluated, Strangers, Document, Fields
  <2> QED
    BY <1>0, <1>1, <1>7, <2>1 DEF OfRefusals, Kinds
<1> QED
  BY <1>4, <1>5, <1>6, <1>7 DEF Leaves, OfFaults

(* The fields that the errors of some leaves name. *)
ErrorsOf(set) == UNION {FieldErrorsFor(leaf) : leaf \in set}
NamesOf(set)  == {e.field[1] : e \in ErrorsOf(set)}

LEMMA ErrorsOfUnion ==
  ASSUME NEW A, NEW B
  PROVE  NamesOf(A \cup B) = NamesOf(A) \cup NamesOf(B)
<1>1. ErrorsOf(A \cup B) = ErrorsOf(A) \cup ErrorsOf(B)
  BY DEF ErrorsOf
<1> QED
  BY <1>1 DEF NamesOf

LEMMA ErrorsOfUnions ==
  ASSUME NEW A, NEW B, NEW C
  PROVE  NamesOf(A \cup B \cup C) = NamesOf(A) \cup NamesOf(B) \cup NamesOf(C)
<1>1. NamesOf((A \cup B) \cup C) = NamesOf(A \cup B) \cup NamesOf(C)
  BY ErrorsOfUnion
<1> QED
  BY <1>1, ErrorsOfUnion

LEMMA NamesOfEach ==
  ASSUME NEW kind, kind \notin {"Required", "AdditionalProperties"}, NEW branch, NEW set
  PROVE  NamesOf(Each(kind, branch, set)) = set
<1>1. ASSUME NEW leaf \in Each(kind, branch, set)
      PROVE  /\ leaf.at \in set
             /\ FieldErrorsFor(leaf) = {[field |-> <<leaf.at>>, reason |-> leaf.kind]}
  <2>1. leaf.kind = kind /\ leaf.at \in set
    BY InEach
  <2> QED
    BY <2>1 DEF FieldErrorsFor
<1>2. ASSUME NEW f \in NamesOf(Each(kind, branch, set)) PROVE f \in set
  <2>1. PICK leaf \in Each(kind, branch, set) : \E e \in FieldErrorsFor(leaf) : f = e.field[1]
    BY DEF NamesOf, ErrorsOf
  <2>2. f = <<leaf.at>>[1]
    BY <1>1, <2>1
  <2> QED
    BY <1>1, <2>2
<1>3. ASSUME NEW f \in set PROVE f \in NamesOf(Each(kind, branch, set))
  <2>1. PICK leaf : leaf = Cause(kind, f, branch, {}, {})
    OBVIOUS
  <2>2. leaf \in Each(kind, branch, set) /\ leaf.at = f
    BY <2>1 DEF Each, Cause
  <2>3. PICK e : e = [field |-> <<leaf.at>>, reason |-> leaf.kind]
    OBVIOUS
  <2>4. e \in FieldErrorsFor(leaf) /\ e.field[1] = f
    BY <1>1, <2>2, <2>3
  <2>5. e \in ErrorsOf(Each(kind, branch, set))
    BY <2>2, <2>4 DEF ErrorsOf
  <2> QED
    BY <2>4, <2>5 DEF NamesOf
<1> QED
  BY <1>2, <1>3

LEMMA NamesOfInside ==
  ASSUME NEW kind \in {"Required", "AdditionalProperties"}, NEW branch, NEW set, Root \notin set
  PROVE  NamesOf(Inside(kind, branch, set)) = set
<1>1. ASSUME NEW leaf \in Inside(kind, branch, set)
      PROVE  /\ leaf.at \in set
             /\ FieldErrorsFor(leaf) = {[field |-> <<leaf.at, "inner">>, reason |-> leaf.kind]}
  <2>1. leaf.kind = kind /\ leaf.at \in set /\ leaf.at # Root /\ leaf.names = {"inner"}
    BY InInside
  <2> QED
    BY <2>1 DEF FieldErrorsFor
<1>2. ASSUME NEW f \in NamesOf(Inside(kind, branch, set)) PROVE f \in set
  <2>1. PICK leaf \in Inside(kind, branch, set) : \E e \in FieldErrorsFor(leaf) : f = e.field[1]
    BY DEF NamesOf, ErrorsOf
  <2>2. f = <<leaf.at, "inner">>[1]
    BY <1>1, <2>1
  <2> QED
    BY <1>1, <2>2
<1>3. ASSUME NEW f \in set PROVE f \in NamesOf(Inside(kind, branch, set))
  <2>1. PICK leaf : leaf = Cause(kind, f, branch, {"inner"}, {})
    OBVIOUS
  <2>2. leaf \in Inside(kind, branch, set) /\ leaf.at = f
    BY <2>1 DEF Inside, Cause
  <2>3. PICK e : e = [field |-> <<leaf.at, "inner">>, reason |-> leaf.kind]
    OBVIOUS
  <2>4. e \in FieldErrorsFor(leaf) /\ e.field[1] = f
    BY <1>1, <2>2, <2>3
  <2>5. e \in ErrorsOf(Inside(kind, branch, set))
    BY <2>2, <2>4 DEF ErrorsOf
  <2> QED
    BY <2>4, <2>5 DEF NamesOf
<1> QED
  BY <1>2, <1>3

LEMMA NamesOfRequired ==
  ASSUME NEW branch, NEW set
  PROVE  NamesOf(Required(branch, set)) = set
<1>1. ASSUME NEW leaf \in Required(branch, set)
      PROVE  FieldErrorsFor(leaf) = {[field |-> <<name>>, reason |-> leaf.kind] : name \in set}
  <2>1. leaf.kind = "Required" /\ leaf.at = Root /\ leaf.names = set
    BY InRequired
  <2> QED
    BY <2>1 DEF FieldErrorsFor
<1>2. ASSUME NEW f \in NamesOf(Required(branch, set)) PROVE f \in set
  <2>1. PICK leaf \in Required(branch, set) : \E e \in FieldErrorsFor(leaf) : f = e.field[1]
    BY DEF NamesOf, ErrorsOf
  <2>2. PICK name \in set : f = <<name>>[1]
    BY <1>1, <2>1
  <2> QED
    BY <2>2
<1>3. ASSUME NEW f \in set PROVE f \in NamesOf(Required(branch, set))
  <2>1. PICK leaf : leaf = Cause("Required", Root, branch, set, {})
    OBVIOUS
  <2>2. leaf \in Required(branch, set)
    BY <2>1 DEF Required
  <2>3. PICK e : e = [field |-> <<f>>, reason |-> leaf.kind]
    OBVIOUS
  <2>4. e \in FieldErrorsFor(leaf) /\ e.field[1] = f
    BY <1>1, <2>2, <2>3
  <2>5. e \in ErrorsOf(Required(branch, set))
    BY <2>2, <2>4 DEF ErrorsOf
  <2> QED
    BY <2>4, <2>5 DEF NamesOf
<1> QED
  BY <1>2, <1>3

(* What is wrong in itself is what the leaves that are no refusals name.   *)
LEMMA NamesOfFaults == ASSUME document \in Document PROVE NamesOf(OfFaults) = Wrong
<1>1. Root \notin Within("incomplete") /\ Root \notin Within("extra")
  BY RootIsNoField DEF Within, Fields
<1>2. NamesOf(OfEnvelope) = (Envelope \cap Is("missing")) \cup (Envelope \cap Is("bad"))
  BY ErrorsOfUnion, NamesOfRequired, NamesOfEach DEF OfEnvelope
<1>3. NamesOf(OfArtifact) = (Business \cap Is("missing")) \cup (Business \cap Is("bad"))
                              \cup Within("incomplete") \cup Within("extra")
  <2>1. /\ NamesOf(Inside("Required", "own", Within("incomplete"))) = Within("incomplete")
        /\ NamesOf(Inside("AdditionalProperties", "own", Within("extra"))) = Within("extra")
    BY <1>1, NamesOfInside
  <2>2. /\ NamesOf(Required("own", Business \cap Is("missing"))) = Business \cap Is("missing")
        /\ NamesOf(Each("format", "own", Business \cap Is("bad"))) = Business \cap Is("bad")
    BY NamesOfRequired, NamesOfEach
  <2> QED
    <3>1. PICK A, B, C, D : /\ A = Required("own", Business \cap Is("missing"))
                            /\ B = Each("format", "own", Business \cap Is("bad"))
                            /\ C = Inside("Required", "own", Within("incomplete"))
                            /\ D = Inside("AdditionalProperties", "own", Within("extra"))
      OBVIOUS
    <3>2. OfArtifact = (A \cup B \cup C) \cup D
      BY <3>1 DEF OfArtifact
    <3>3. NamesOf(OfArtifact) = NamesOf(A \cup B \cup C) \cup NamesOf(D)
      BY <3>2, ErrorsOfUnion
    <3>4. NamesOf(A \cup B \cup C) = NamesOf(A) \cup NamesOf(B) \cup NamesOf(C)
      BY ErrorsOfUnions
    <3> QED
      BY <2>1, <2>2, <3>1, <3>3, <3>4
<1>4. NamesOf(OfEither) = Within("neither")
  <2>1. PICK A, B : /\ A = Each("type", "either", Within("neither"))
                    /\ B = Each("type", "or", Within("neither"))
    OBVIOUS
  <2>2. NamesOf(A) = Within("neither") /\ NamesOf(B) = Within("neither")
    BY <2>1, NamesOfEach
  <2>3. NamesOf(OfEither) = NamesOf(A) \cup NamesOf(B)
    BY <2>1, ErrorsOfUnion DEF OfEither
  <2> QED
    BY <2>2, <2>3
<1>5. NamesOf(OfFaults) = NamesOf(OfEnvelope) \cup NamesOf(OfArtifact) \cup NamesOf(OfEither)
  BY ErrorsOfUnions DEF OfFaults
<1>6. /\ Is("missing") \subseteq Envelope \cup Business
      /\ Is("bad") \subseteq Envelope \cup Business
  BY DEF Is
<1> QED
  BY <1>2, <1>3, <1>4, <1>5, <1>6 DEF Wrong

(* Without it the envelope has not failed, and only strangers are refused. *)
LEMMA NamesOfRefusals ==
  ASSUME document \in Document, OfFaults = {}
  PROVE  NamesOf(OfRefusals) = Faulty /\ Wrong = {}
<1>1. Wrong = {}
  <2>1. NamesOf({}) = {}
    BY DEF NamesOf, ErrorsOf
  <2> QED
    BY <2>1, NamesOfFaults
<1>2. Envelope \cap (Is("bad") \cup Is("missing")) = {}
  BY <1>1 DEF Wrong
<1>3. Unevaluated = Strangers
  BY <1>2 DEF Unevaluated
<1>4. NamesOf(OfRefusals) = Refused \cup Strangers
  BY <1>3, ErrorsOfUnion, NamesOfEach DEF OfRefusals
<1> QED
  BY <1>1, <1>4 DEF Faulty

LEMMA NamesOfTold ==
  ASSUME document \in Document
  PROVE  NamesOf(Told) = IF Wrong = {} THEN Faulty ELSE Wrong
<1>1. CASE OfFaults = {}
  BY <1>1, NamesOfRefusals DEF Told
<1>2. CASE OfFaults # {}
  <2>1. PICK leaf \in OfFaults : TRUE
    BY <1>2
  <2>2. FieldErrorsFor(leaf) # {}
    <3>1. leaf.kind \in {"Required", "AdditionalProperties"} => leaf.names # {}
      BY FieldsOfLeaves DEF Leaves
    <3> QED
      BY <3>1 DEF FieldErrorsFor
  <2>3. NamesOf(OfFaults) # {}
    BY <2>2 DEF NamesOf, ErrorsOf
  <2> QED
    BY <1>2, <2>3, NamesOfFaults DEF Told
<1> QED
  BY <1>1, <1>2

LEMMA RulesAre ==
  ASSUME NEW branch, NEW below
  PROVE  /\ \A c \in Rule(branch, below) : c.causes = below /\ below # {}
         /\ below # {} => \E c \in Rule(branch, below) : c.causes = below
<1>1. ASSUME NEW c \in Rule(branch, below) PROVE c.causes = below /\ below # {}
  BY DEF Rule, Cause
<1>2. ASSUME below # {} PROVE \E c \in Rule(branch, below) : c.causes = below
  <2>1. PICK c : c = Cause("rule", Root, branch, {}, below)
    OBVIOUS
  <2>2. c \in Rule(branch, below)
    BY <1>2, <2>1 DEF Rule
  <2> QED
    BY <1>1, <2>2
<1> QED
  BY <1>1, <1>2

LEMMA CausesOfFailure ==
  Failure.causes = AllRule \cup OfArtifact \cup AnyRule
                     \cup Each("FalseSchema", "unevaluated", Unevaluated)
BY DEF Failure, AllRule, Conditions, EnvelopeRule, IfRule, AnyRule, Cause

(* Nothing below a cause is lost, and nothing else is below it. *)
LEMMA CausesBelow ==
  ASSUME NEW c \in Inner \cup Leaves
  PROVE  /\ c.causes \subseteq Inner \cup Leaves
         /\ c.causes = {} => c = Failure \/ c \in Leaves
<1>1. CASE c \in Leaves
  BY <1>1, LeavesAreLeaves
<1>2. CASE c = Failure
  BY <1>2, CausesOfFailure DEF Inner, Leaves, OfFaults, OfRefusals
<1>3. CASE c \in AllRule
  BY <1>3, RulesAre DEF AllRule, Inner
<1>4. CASE c \in EnvelopeRule
  BY <1>4, RulesAre DEF EnvelopeRule, Leaves, OfFaults
<1>5. CASE c \in IfRule
  BY <1>5, RulesAre DEF IfRule, Leaves, OfRefusals
<1>6. CASE c \in AnyRule
  BY <1>6, RulesAre DEF AnyRule, Leaves, OfFaults
<1> QED
  BY <1>1, <1>2, <1>3, <1>4, <1>5, <1>6 DEF Inner, Conditions

LEMMA FailureHolds == \A leaf \in Leaves : Holds(Failure, leaf)
<1> SUFFICES ASSUME NEW leaf \in Leaves PROVE Holds(Failure, leaf)
  OBVIOUS
<1>1. CASE leaf \in OfArtifact \cup Each("FalseSchema", "unevaluated", Unevaluated)
  BY <1>1, CausesOfFailure DEF Holds
<1>2. CASE leaf \in OfEither
  <2>1. PICK d \in AnyRule : d.causes = OfEither
    BY <1>2, RulesAre DEF AnyRule
  <2>2. d \in Failure.causes
    BY CausesOfFailure
  <2> QED
    BY <1>2, <2>1, <2>2 DEF Holds
<1>3. CASE leaf \in OfEnvelope \cup Each("FalseSchema", "if", Refused)
  <2>1. PICK e \in Conditions : leaf \in e.causes
    <3>1. CASE leaf \in OfEnvelope
      <4>1. PICK e \in EnvelopeRule : e.causes = OfEnvelope
        BY <3>1, RulesAre DEF EnvelopeRule
      <4> QED
        BY <3>1, <4>1 DEF Conditions
    <3>2. CASE leaf \in Each("FalseSchema", "if", Refused)
      <4>1. PICK e \in IfRule : e.causes = Each("FalseSchema", "if", Refused)
        BY <3>2, RulesAre DEF IfRule
      <4> QED
        BY <3>2, <4>1 DEF Conditions
    <3> QED
      BY <1>3, <3>1, <3>2
  <2>2. PICK d \in AllRule : d.causes = Conditions
    BY <2>1, RulesAre DEF AllRule
  <2>3. d \in Failure.causes
    BY CausesOfFailure
  <2> QED
    BY <2>1, <2>2, <2>3 DEF Holds
<1> QED
  BY <1>1, <1>2, <1>3 DEF Leaves, OfFaults, OfRefusals

LEMMA SomethingIsTold ==
  ASSUME document \in Document, Faulty # {}
  PROVE  Told # {} /\ Told \subseteq Leaves /\ (Failure.causes = {} => Failure \in Leaves)
<1>1. Told # {}
  <2>1. NamesOf(Told) # {}
    BY NamesOfTold
  <2> QED
    BY <2>1 DEF NamesOf, ErrorsOf
<1>2. Told \subseteq Leaves
  BY DEF Told, Leaves
<1>3. ASSUME Failure.causes = {} PROVE Failure \in Leaves
  BY <1>1, <1>2, <1>3, FailureHolds DEF Holds
<1> QED
  BY <1>1, <1>2, <1>3

LEMMA ErrorsOfLeaves ==
  ASSUME document \in Document, NEW leaf \in Leaves
  PROVE  FieldErrorsFor(leaf) \subseteq FieldError /\ FieldErrorsFor(leaf) # {}
<1>1. /\ leaf.at \in Places /\ leaf.kind \in Kinds /\ leaf.names \subseteq Places
      /\ leaf.kind \in {"Required", "AdditionalProperties"} => leaf.names # {}
  BY FieldsOfLeaves DEF Places
<1>2. ASSUME NEW e \in FieldErrorsFor(leaf) PROVE e \in FieldError
  <2>1. CASE leaf.kind \in {"Required", "AdditionalProperties"}
    <3>1. PICK name \in leaf.names :
            e = [field |-> IF leaf.at = Root THEN <<name>> ELSE <<leaf.at, name>>,
                 reason |-> leaf.kind]
      BY <2>1 DEF FieldErrorsFor
    <3>2. <<name>> \in Seq(Places) /\ <<leaf.at, name>> \in Seq(Places)
      BY <1>1
    <3> QED
      BY <1>1, <3>1, <3>2 DEF FieldError
  <2>2. CASE leaf.kind \notin {"Required", "AdditionalProperties"}
    <3>1. e = [field |-> <<leaf.at>>, reason |-> leaf.kind]
      BY <2>2 DEF FieldErrorsFor
    <3>2. <<leaf.at>> \in Seq(Places)
      BY <1>1
    <3> QED
      BY <1>1, <3>1, <3>2 DEF FieldError
  <2> QED
    BY <2>1, <2>2
<1>3. FieldErrorsFor(leaf) # {}
  BY <1>1 DEF FieldErrorsFor
<1> QED
  BY <1>2, <1>3

LEMMA PairsOfLeaves ==
  ASSUME document \in Document, Faulty # {}
  PROVE  Pairs \subseteq Leaves \X FieldError /\ Pairs # {}
<1>1. Told # {} /\ Told \subseteq Leaves
  BY SomethingIsTold
<1>2. ASSUME NEW pair \in Pairs PROVE pair \in Leaves \X FieldError
  <2>1. PICK leaf \in Told : \E e \in FieldErrorsFor(leaf) : pair = <<leaf, e>>
    BY DEF Pairs
  <2> QED
    BY <1>1, <2>1, ErrorsOfLeaves
<1>3. Pairs # {}
  <2>1. PICK leaf \in Told : TRUE
    BY <1>1
  <2>2. PICK e \in FieldErrorsFor(leaf) : TRUE
    BY <1>1, ErrorsOfLeaves
  <2>3. <<leaf, e>> \in {<<leaf, x>> : x \in FieldErrorsFor(leaf)}
    BY <2>2
  <2>4. <<leaf, e>> \in Pairs
    BY <2>1, <2>3, Zenon DEF Pairs
  <2> QED
    BY <2>4
<1> QED
  BY <1>2, <1>3

(* No step changes the document, or what there is to find in it. *)
LEMMA SameDocument ==
  ASSUME document' = document
  PROVE  /\ Leaves' = Leaves /\ Inner' = Inner /\ Pairs' = Pairs /\ Faulty' = Faulty
<1>1. /\ Unevaluated' = Unevaluated /\ Refused' = Refused /\ OfEnvelope' = OfEnvelope
      /\ OfArtifact' = OfArtifact /\ OfEither' = OfEither /\ Faulty' = Faulty
  BY DEF Unevaluated, Refused, Strangers, OfEnvelope, OfArtifact, OfEither, Is, Within,
         Wrong, Faulty
<1>2. OfFaults' = OfFaults /\ OfRefusals' = OfRefusals
  BY <1>1 DEF OfFaults, OfRefusals
<1>3. Leaves' = Leaves /\ Told' = Told
  BY <1>2 DEF Leaves, Told
<1>4. Conditions' = Conditions /\ AnyRule' = AnyRule
  BY <1>1 DEF Conditions, EnvelopeRule, IfRule, AnyRule
<1>5. AllRule' = AllRule
  BY <1>4 DEF AllRule
<1>6. Failure' = Failure
  BY <1>1 DEF Failure
<1>7. Inner' = Inner
  BY <1>4, <1>5, <1>6 DEF Inner
<1>8. Pairs' = Pairs
  BY <1>3 DEF Pairs
<1> QED
  BY <1>1, <1>3, <1>7, <1>8

LEMMA SchemaInitInv == SchemaInit => SchemaInv
<1> SUFFICES ASSUME SchemaInit PROVE SchemaInv
  OBVIOUS
<1>1. SchemaTypeOK
  BY DEF SchemaInit, SchemaTypeOK
<1> QED
  BY <1>1 DEF SchemaInit, SchemaInv, LeavesFound, ErrorsTold

LEMMA ValidateKeeps == ASSUME SchemaInv, Validate PROVE SchemaInv'
<1>1. /\ explaining = "valid" /\ Faulty # {} /\ causes' = {Failure} /\ explaining' = "split"
      /\ document' = document /\ leaves' = leaves /\ errors' = errors /\ fields' = fields
  BY DEF Validate
<1>2. Leaves' = Leaves /\ Inner' = Inner /\ Pairs' = Pairs /\ Faulty' = Faulty
  BY <1>1, SameDocument
<1>3. SchemaTypeOK'
  BY <1>1, <1>2 DEF SchemaInv, SchemaTypeOK, Inner
<1>4. LeavesFound'
  BY <1>1, <1>2, FailureHolds DEF LeavesFound
<1>5. ErrorsTold'
  BY <1>1, <1>2 DEF SchemaInv, ErrorsTold
<1> QED
  BY <1>1, <1>2, <1>3, <1>4, <1>5 DEF SchemaInv

LEMMA SplitCausesKeeps == ASSUME SchemaInv, SplitCauses PROVE SchemaInv'
<1>1. PICK failure : failure = Some(causes)
  OBVIOUS
<1>2. /\ explaining = "split" /\ causes # {} /\ explaining' = explaining
      /\ causes' = (causes \ {failure}) \cup failure.causes
      /\ leaves' = IF failure.causes = {} THEN leaves \cup {failure} ELSE leaves
      /\ document' = document /\ errors' = errors /\ fields' = fields
  BY <1>1 DEF SplitCauses
<1>3. Leaves' = Leaves /\ Inner' = Inner /\ Pairs' = Pairs /\ Faulty' = Faulty
  BY <1>2, SameDocument
<1>4. failure \in causes
  BY <1>1, <1>2 DEF Some
<1>5. /\ document \in Document /\ Faulty # {} /\ failure \in Inner \cup Leaves
      /\ causes \subseteq Inner \cup Leaves /\ leaves \subseteq Leaves
  BY <1>2, <1>4 DEF SchemaInv, SchemaTypeOK
<1>6. /\ failure.causes \subseteq Inner \cup Leaves
      /\ failure.causes = {} => failure \in Leaves
  BY <1>5, CausesBelow, SomethingIsTold
<1>7. SchemaTypeOK'
  <2>1. causes' \subseteq Inner \cup Leaves /\ leaves' \subseteq Leaves
    BY <1>2, <1>5, <1>6
  <2> QED
    BY <1>2, <1>3, <2>1 DEF SchemaInv, SchemaTypeOK
(* What the cause held is found, or held by one of those below it. *)
<1>8. ASSUME NEW leaf \in Leaves, leaf \notin leaves' PROVE \E c \in causes' : Holds(c, leaf)
  <2>1. leaf \notin leaves
    BY <1>2, <1>8
  <2>2. PICK c \in causes : Holds(c, leaf)
    BY <1>2, <2>1 DEF SchemaInv, LeavesFound
  <2>3. CASE c # failure
    BY <1>2, <2>2, <2>3
  <2>4. CASE c = failure
    <3>1. leaf # failure
      BY <1>2, <1>8, LeavesAreLeaves
    <3>2. CASE leaf \in failure.causes
      BY <1>2, <3>2 DEF Holds
    <3>3. CASE \E d \in failure.causes : leaf \in d.causes \/ \E e \in d.causes : leaf \in e.causes
      BY <1>2, <3>3 DEF Holds
    <3> QED
      BY <2>2, <2>4, <3>1, <3>2, <3>3 DEF Holds
  <2> QED
    BY <2>3, <2>4
<1>9. LeavesFound'
  BY <1>2, <1>3, <1>8 DEF LeavesFound
<1>10. ErrorsTold'
  BY <1>2, <1>3 DEF SchemaInv, ErrorsTold
<1> QED
  BY <1>2, <1>3, <1>7, <1>9, <1>10 DEF SchemaInv

LEMMA ExplainKeeps == ASSUME SchemaInv, Explain PROVE SchemaInv'
<1>1. /\ explaining = "split" /\ causes = {} /\ explaining' = "report"
      /\ causes' = causes /\ leaves' = leaves /\ document' = document /\ fields' = fields
  BY DEF Explain
<1>2. Leaves' = Leaves /\ Inner' = Inner /\ Pairs' = Pairs /\ Faulty' = Faulty
  BY <1>1, SameDocument
<1>3. /\ document \in Document /\ Faulty # {} /\ leaves = Leaves /\ fields = <<>>
  BY <1>1 DEF SchemaInv, SchemaTypeOK, LeavesFound, ErrorsTold
<1>4. Substantive = OfFaults /\ Cascade = OfRefusals
  BY <1>3, LeavesAreLeaves DEF Substantive, Cascade, Leaves
<1>5. errors' = Pairs
  BY <1>4 DEF Explain, Pairs, Told
<1>6. SchemaTypeOK'
  BY <1>1, <1>2, <1>3, <1>5, PairsOfLeaves DEF SchemaInv, SchemaTypeOK
<1>7. LeavesFound'
  BY <1>1, <1>2, <1>3 DEF LeavesFound
<1>8. ErrorsTold'
  BY <1>1, <1>2, <1>3, <1>5 DEF ErrorsTold
<1> QED
  BY <1>1, <1>2, <1>3, <1>6, <1>7, <1>8 DEF SchemaInv

LEMMA ReportKeeps == ASSUME SchemaInv, Report PROVE SchemaInv'
<1>1. PICK pair : pair = Some(errors)
  OBVIOUS
<1>2. PICK error : error = pair[2]
  OBVIOUS
<1>3. /\ explaining = "report" /\ errors # {} /\ errors' = errors \ {pair}
      /\ fields' = IF Seen(error) THEN fields ELSE Append(fields, error)
      /\ document' = document /\ causes' = causes /\ leaves' = leaves
      /\ explaining' = explaining
  BY <1>1, <1>2 DEF Report
<1>4. Leaves' = Leaves /\ Inner' = Inner /\ Pairs' = Pairs /\ Faulty' = Faulty
  BY <1>3, SameDocument
<1>5. pair \in errors
  BY <1>1, <1>3 DEF Some
<1>6. /\ errors \subseteq Leaves \X FieldError /\ fields \in Seq(FieldError)
      /\ errors \subseteq Pairs /\ \A p \in Pairs : p \in errors \/ Seen(p[2])
      /\ \A i \in DOMAIN fields : \E p \in Pairs : fields[i] = p[2]
      /\ \A i, j \in DOMAIN fields : fields[i] = fields[j] => i = j
  BY <1>3 DEF SchemaInv, SchemaTypeOK, ErrorsTold
<1>7. error \in FieldError /\ pair \in Pairs
  BY <1>2, <1>5, <1>6
<1>8. LeavesFound'
  BY <1>3, <1>4 DEF SchemaInv, LeavesFound
<1>9. CASE Seen(error)
  <2>1. fields' = fields
    BY <1>3, <1>9
  <2>2. \A e : Seen(e)' = Seen(e)
    BY <2>1 DEF Seen
  <2>3. \A p \in Pairs : p \in errors' \/ Seen(p[2])
    BY <1>2, <1>3, <1>6, <1>9
  <2>4. ErrorsTold'
    BY <1>3, <1>4, <1>6, <2>1, <2>2, <2>3 DEF ErrorsTold
  <2>5. SchemaTypeOK'
    BY <1>3, <1>4, <2>1 DEF SchemaInv, SchemaTypeOK
  <2> QED
    BY <1>3, <1>4, <1>8, <2>4, <2>5 DEF SchemaInv
<1>10. CASE ~Seen(error)
  <2>1. PICK n \in Nat : n = Len(fields) /\ DOMAIN fields = 1 .. n
    BY <1>6, LenProperties
  <2>2. /\ fields' \in Seq(FieldError) /\ DOMAIN fields' = 1 .. n + 1
        /\ \A i \in 1 .. n : fields'[i] = fields[i]
        /\ fields'[n + 1] = error
    <3>1. fields' = Append(fields, error)
      BY <1>3, <1>10
    <3>2. fields' \in Seq(FieldError) /\ Len(fields') = n + 1
      BY <1>6, <1>7, <2>1, <3>1, AppendProperties
    <3>3. DOMAIN fields' = 1 .. n + 1
      BY <3>2, LenProperties
    <3>4. (\A i \in 1 .. n : fields'[i] = fields[i]) /\ fields'[n + 1] = error
      BY <1>6, <1>7, <2>1, <3>1, AppendProperties
    <3> QED
      BY <3>2, <3>3, <3>4
  <2>3. ASSUME NEW i \in 1 .. n + 1 PROVE i \in 1 .. n \/ i = n + 1
    BY <2>1
  <2>4. \A e : Seen(e)' <=> Seen(e) \/ e = error
    <3>1. \A e : Seen(e)' <=> \E i \in 1 .. n + 1 : fields'[i] = e
      BY <2>2 DEF Seen
    <3>2. \A e : Seen(e) <=> \E i \in 1 .. n : fields[i] = e
      BY <2>1 DEF Seen
    <3>3. n + 1 \in 1 .. n + 1 /\ \A i \in 1 .. n : i \in 1 .. n + 1
      BY <2>1
    <3> QED
      BY <2>2, <2>3, <3>1, <3>2, <3>3
  <2>5. \A p \in Pairs : p \in errors' \/ Seen(p[2])'
    BY <1>2, <1>3, <1>6, <2>4
  <2>6. \A i \in DOMAIN fields' : \E p \in Pairs : fields'[i] = p[2]
    BY <1>2, <1>6, <1>7, <2>1, <2>2, <2>3
  <2>7. \A i, j \in DOMAIN fields' : fields'[i] = fields'[j] => i = j
    <3>1. \A i \in 1 .. n : fields'[i] # error
      BY <1>10, <2>1, <2>2 DEF Seen
    <3> QED
      BY <1>6, <2>1, <2>2, <2>3, <3>1
  <2>8. errors' \subseteq Pairs
    BY <1>3, <1>6
  <2>9. ErrorsTold'
    BY <1>3, <1>4, <2>5, <2>6, <2>7, <2>8 DEF ErrorsTold
  <2>10. SchemaTypeOK'
    BY <1>3, <1>4, <2>2 DEF SchemaInv, SchemaTypeOK
  <2> QED
    BY <1>3, <1>4, <1>8, <2>9, <2>10 DEF SchemaInv
<1> QED
  BY <1>9, <1>10

LEMMA ExplainedKeeps == ASSUME SchemaInv, Explained PROVE SchemaInv'
<1>1. /\ explaining = "report" /\ errors = {} /\ explaining' = "done"
      /\ fields' = IF fields = <<>> THEN <<[field |-> <<"(document)">>, reason |-> "failure"]>>
                   ELSE fields
      /\ document' = document /\ causes' = causes /\ leaves' = leaves /\ errors' = errors
  BY DEF Explained
<1>2. Leaves' = Leaves /\ Inner' = Inner /\ Pairs' = Pairs /\ Faulty' = Faulty
  BY <1>1, SameDocument
<1>3. /\ document \in Document /\ Faulty # {} /\ fields \in Seq(FieldError)
      /\ \A pair \in Pairs : Seen(pair[2])
  BY <1>1 DEF SchemaInv, SchemaTypeOK, ErrorsTold
<1>4. fields # <<>>
  <2>1. PICK pair \in Pairs : TRUE
    BY <1>3, PairsOfLeaves
  <2>2. Seen(pair[2])
    BY <1>3
  <2> QED
    BY <2>2 DEF Seen
<1>5. fields' = fields
  BY <1>1, <1>4
<1>6. \A e : Seen(e)' = Seen(e)
  BY <1>5 DEF Seen
<1>7. ErrorsTold'
  BY <1>1, <1>2, <1>3, <1>5, <1>6 DEF SchemaInv, ErrorsTold
<1>8. SchemaTypeOK' /\ LeavesFound'
  BY <1>1, <1>2, <1>5 DEF SchemaInv, SchemaTypeOK, LeavesFound
<1> QED
  BY <1>1, <1>2, <1>7, <1>8 DEF SchemaInv

LEMMA SchemaStays == ASSUME SchemaInv, UNCHANGED schemaVars PROVE SchemaInv'
<1>1. /\ document' = document /\ causes' = causes /\ leaves' = leaves /\ errors' = errors
      /\ fields' = fields /\ explaining' = explaining
  BY DEF schemaVars
<1>2. Leaves' = Leaves /\ Inner' = Inner /\ Pairs' = Pairs /\ Faulty' = Faulty
  BY <1>1, SameDocument
<1>3. \A e : Seen(e)' = Seen(e)
  BY <1>1 DEF Seen
<1>4. SchemaTypeOK' /\ LeavesFound'
  BY <1>1, <1>2 DEF SchemaInv, SchemaTypeOK, LeavesFound
<1>5. ErrorsTold'
  BY <1>1, <1>2, <1>3 DEF SchemaInv, ErrorsTold
<1> QED
  BY <1>1, <1>2, <1>4, <1>5 DEF SchemaInv

LEMMA SchemaInvariant == SchemaSpec => []SchemaInv
<1>1. ASSUME SchemaInv, [SchemaNext]_schemaVars PROVE SchemaInv'
  BY <1>1, ValidateKeeps, SplitCausesKeeps, ExplainKeeps, ReportKeeps, ExplainedKeeps,
     SchemaStays DEF SchemaNext
<1> QED
  BY <1>1, SchemaInitInv, PTL DEF SchemaSpec

(* What is told names the fields that the leaves name. *)
LEMMA NamedAreTold ==
  ASSUME SchemaInv, explaining = "done"
  PROVE  Named = IF Wrong = {} THEN Faulty ELSE Wrong
<1>1. /\ document \in Document
      /\ \A pair \in Pairs : Seen(pair[2])
      /\ \A i \in DOMAIN fields : \E pair \in Pairs : fields[i] = pair[2]
  BY DEF SchemaInv, SchemaTypeOK, ErrorsTold
<1>2. ASSUME NEW e PROVE e \in ErrorsOf(Told) <=> \E pair \in Pairs : e = pair[2]
  <2>1. ASSUME e \in ErrorsOf(Told) PROVE \E pair \in Pairs : e = pair[2]
    <3>1. PICK leaf \in Told : e \in FieldErrorsFor(leaf)
      BY <2>1 DEF ErrorsOf
    <3>2. <<leaf, e>> \in {<<leaf, x>> : x \in FieldErrorsFor(leaf)}
      BY <3>1
    <3>3. <<leaf, e>> \in Pairs
      BY <3>1, <3>2, Zenon DEF Pairs
    <3> QED
      BY <3>3
  <2>2. ASSUME NEW pair \in Pairs, e = pair[2] PROVE e \in ErrorsOf(Told)
    <3>1. PICK leaf \in Told : \E x \in FieldErrorsFor(leaf) : pair = <<leaf, x>>
      BY DEF Pairs
    <3>2. e \in FieldErrorsFor(leaf)
      BY <2>2, <3>1
    <3> QED
      BY <3>1, <3>2 DEF ErrorsOf
  <2> QED
    BY <2>1, <2>2
<1>3. Named = NamesOf(Told)
  <2>1. ASSUME NEW f \in Named PROVE f \in NamesOf(Told)
    BY <1>1, <1>2 DEF Named, NamesOf
  <2>2. ASSUME NEW f \in NamesOf(Told) PROVE f \in Named
    <3>1. PICK e \in ErrorsOf(Told) : f = e.field[1]
      BY DEF NamesOf
    <3>2. Seen(e)
      BY <1>1, <1>2
    <3> QED
      BY <3>1, <3>2 DEF Seen, Named
  <2> QED
    BY <2>1, <2>2
<1> QED
  BY <1>1, <1>3, NamesOfTold

(* Every variable of the explanation has its type, and the causes gone     *)
(* through are those of the document (validate.go 71-142).                 *)
THEOREM SchemaTypeCorrect == SchemaSpec => []SchemaTypeOK
<1>1. SchemaInv => SchemaTypeOK
  BY DEF SchemaInv
<1> QED
  BY <1>1, SchemaInvariant, PTL

(* What a document is refused for is told by the fields its author has to  *)
(* repair and no other, all that are wrong in themselves, and none twice,  *)
(* for any number of fields of each sort (validate.go 71-148).             *)
THEOREM FaultsAreNamed == SchemaSpec => []OnlyFaultsNamed
<1>1. SchemaInv => OnlyFaultsNamed
  <2> SUFFICES ASSUME SchemaInv, explaining = "done"
               PROVE  /\ Named # {} /\ Named \subseteq Faulty
                      /\ \A i, j \in DOMAIN fields : fields[i] = fields[j] => i = j
                      /\ (IF Wrong = {} THEN Faulty ELSE Wrong) \subseteq Named
    BY DEF OnlyFaultsNamed
  <2>1. Named = IF Wrong = {} THEN Faulty ELSE Wrong
    BY NamedAreTold
  <2>2. Faulty # {} /\ Wrong \subseteq Faulty
    BY DEF SchemaInv, Faulty
  <2> QED
    BY <2>1, <2>2 DEF SchemaInv, ErrorsTold
<1> QED
  BY <1>1, SchemaInvariant, PTL

================================================================================
