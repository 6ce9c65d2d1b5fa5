--------------------------- MODULE Repository_proofs ---------------------------
(***************************************************************************)
(* Proofs about Repository, for any number of processes and artifacts and  *)
(* without assuming that calls are serialized.                             *)
(***************************************************************************)
EXTENDS Repository, TLAPS

--------------------------------------------------------------------------------
(* The inductive invariant *)

(* A call in progress is about a file, carries a stamped document, and     *)
(* every reference it has stopped looking for was found.  Only log entries *)
(* are claimed.                                                            *)
CallInv ==
  /\ \A p \in Processes :
       /\ pc[p] # "idle" => path[p] \in Path /\ doc[p] \in Document
       /\ pc[p] = "idle" => doc[p] = Absent
       /\ pc[p] \in {"check", "claimed"} =>
            \A r \in doc[p].refs : r \in pending[p] \/ disk[r] # Absent
       /\ pc[p] = "claimed" => path[p] \in Entries /\ pending[p] = {}
  /\ \A f \in Path : disk[f] = Claimed => f \in Entries

(* On a clock that was never set back, stored and stamped documents were   *)
(* created before they were updated.                                       *)
InOrder(d) == backs = 0 => d.createdAt <= d.updatedAt /\ d.updatedAt <= clock

TimeInv ==
  /\ CreatedBeforeUpdated
  /\ \A p \in Processes : pc[p] # "idle" => InOrder(doc[p])

(* An artifact is stored under its own id; a call that found it stored     *)
(* carries its origin, and one that did not is alone with it.              *)
OriginInv ==
  /\ \A f \in Artifacts : Stored(f) => disk[f].id = f
  /\ \A p \in Processes : pc[p] # "idle" /\ path[p] \in Artifacts =>
       /\ doc[p].id = path[p]
       /\ Stored(path[p]) => SameOrigin(disk[path[p]], doc[p])
  /\ \A p, q \in Processes :
       pc[p] # "idle" /\ pc[q] # "idle" /\ path[p] = path[q]
         /\ path[p] \in Artifacts /\ ~Stored(path[p])
       => p = q

(* A call is alone with a serialized file: until it writes it carries a    *)
(* successor of what is stored there, and afterwards what is stored.       *)
TurnsInv ==
  /\ \A p, q \in Processes :
       pc[p] # "idle" /\ pc[q] # "idle" /\ path[p] = path[q]
         /\ path[p] \in Serialized
       => p = q
  /\ \A p \in Processes : path[p] \in Serialized =>
       /\ pc[p] \in {"check", "claimed"} /\ Stored(path[p]) =>
            Successor(path[p], disk[path[p]], doc[p])
       /\ pc[p] = "reread" => disk[path[p]] = doc[p]

(* Every roster, stored or about to be, has unique names.                  *)
Unambiguous(roster) ==
  \A i, j \in DOMAIN roster :
    i < j /\ roster[i] = roster[j] => roster[i] = Nameless

RosterInv ==
  /\ Stored(Roster) => Unambiguous(disk[Roster].content)
  /\ \A p \in Processes :
       pc[p] # "idle" /\ path[p] = Roster => Unambiguous(doc[p].content)

IInv ==
  /\ TypeOK
  /\ CallInv
  /\ ReferencesResolve
  /\ TimeInv
  /\ OriginInv
  /\ TurnsInv
  /\ RosterInv

--------------------------------------------------------------------------------

LEMMA InitIInv == Init => IInv
<1>. SUFFICES ASSUME Init  PROVE IInv
  OBVIOUS
<1>. USE DEF Stored
<1>1. TypeOK
  BY BoundsAreNat DEF Init, TypeOK
<1>2. CallInv
  BY MarksDiffer DEF Init, CallInv
<1>3. ReferencesResolve /\ CreatedBeforeUpdated
  BY DEF Init, ReferencesResolve, CreatedBeforeUpdated
<1>4. TimeInv /\ OriginInv
  BY <1>3 DEF Init, TimeInv, OriginInv, Path
<1>5. TurnsInv /\ RosterInv
  BY DEF Init, TurnsInv, RosterInv, Path, Singletons
<1>. QED  BY <1>1, <1>2, <1>3, <1>4, <1>5 DEF IInv

(* The clock moves on, or is set back: then nothing is said of times.      *)
LEMMA ClockMoves ==
  ASSUME IInv, Tick \/ StepBack
  PROVE  IInv'
<1>1. /\ UNCHANGED <<disk, pc, path, doc, pending>>
      /\ clock' \in Nat /\ backs' \in 0 .. MaxBacks
      /\ backs' = 0 => backs = 0 /\ clock <= clock'
  BY BoundsAreNat DEF IInv, TypeOK, Tick, StepBack
<1>2. TypeOK'
  BY <1>1 DEF IInv, TypeOK
<1>3. CallInv'
  BY <1>1 DEF IInv, CallInv
<1>4. ReferencesResolve'
  BY <1>1 DEF IInv, ReferencesResolve, Stored
<1>5. TimeInv'
  BY <1>1 DEF IInv, TypeOK, CallInv, TimeInv, InOrder, CreatedBeforeUpdated,
    Stored, Document
<1>6. OriginInv' /\ RosterInv'
  BY <1>1 DEF IInv, OriginInv, RosterInv, Stored, SameOrigin
<1>7. TurnsInv'
  BY <1>1 DEF IInv, TurnsInv, Stored, SameOrigin, Successor
<1>. QED  BY <1>2, <1>3, <1>4, <1>5, <1>6, <1>7 DEF IInv

(* Whatever a call begins with, a document that is well formed, stamped    *)
(* no later than now, of the right origin and, on a serialized file, a     *)
(* successor of what is stored keeps the invariant.                        *)
LEMMA BeginKeeps ==
  ASSUME IInv, NEW p \in Processes, NEW f \in Path, NEW d \in Document,
         pc[p] = "idle", Begin(p, f, d),
         InOrder(d),
         f \in Artifacts =>
           /\ d.id = f
           /\ Stored(f) => SameOrigin(disk[f], d)
           /\ ~Stored(f) =>
                \A q \in Processes : pc[q] # "idle" => path[q] # f,
         f \in Serialized =>
           /\ Alone(p, f)
           /\ Stored(f) => Successor(f, disk[f], d),
         f = Roster => Unambiguous(d.content)
  PROVE  IInv'
<1>1. TypeOK'
  BY DEF IInv, TypeOK, Begin, Document
<1>2. CallInv'
  BY MarksAreNoDocuments DEF IInv, TypeOK, CallInv, Begin
<1>3. ReferencesResolve'
  BY DEF IInv, ReferencesResolve, Stored, Begin
<1>4. TimeInv'
  BY DEF IInv, TypeOK, TimeInv, InOrder, CreatedBeforeUpdated, Stored, Begin
<1>5. OriginInv'
  BY DEF IInv, TypeOK, OriginInv, Stored, Begin
<1>6. TurnsInv'
  BY DEF IInv, TypeOK, TurnsInv, Successor, Alone, Stored, Begin
<1>7. RosterInv'
  BY DEF IInv, TypeOK, RosterInv, Stored, Begin
<1>. QED  BY <1>1, <1>2, <1>3, <1>4, <1>5, <1>6, <1>7 DEF IInv

(* An update is a successor of the version it read.                        *)
LEMMA StampUpdateSucceeds ==
  ASSUME IInv, NEW f \in Path, Stored(f),
         NEW content \in Languages \cup Rosters \cup {Absent}, NEW refs \in SUBSET Artifacts,
         f = Config => content = disk[f].content
  PROVE  LET d == StampUpdate(disk[f], clock, content, refs)
         IN /\ d \in Document
            /\ InOrder(d)
            /\ d.id = disk[f].id
            /\ d.content = content
            /\ Successor(f, disk[f], d)
<1>. DEFINE d == StampUpdate(disk[f], clock, content, refs)
<1>1. disk[f] \in Document
  BY DEF IInv, TypeOK, Stored
<1>2. d \in Document
  BY <1>1 DEF StampUpdate, Document, IInv, TypeOK
<1>3. InOrder(disk[f])
  BY DEF InOrder, IInv, TimeInv, InOrder, CreatedBeforeUpdated
<1>4. InOrder(d)
  BY <1>1, <1>3 DEF InOrder, StampUpdate, IInv, TypeOK, Document
<1>5. d \notin {Absent, Claimed}
  BY <1>2, MarksAreNoDocuments
<1>6. Successor(f, disk[f], d)
  BY <1>3, <1>5 DEF InOrder, StampUpdate, Successor, SameOrigin
<1>. QED
  BY <1>2, <1>4, <1>6 DEF StampUpdate

LEMMA BeginCreateKeeps ==
  ASSUME IInv, NEW p \in Processes, NEW id \in Artifacts,
         NEW refs \in RefChoices, BeginCreate(p, id, refs)
  PROVE  IInv'
<1>. DEFINE d == StampCreate(id, clock, p, Absent, Checked(id, refs))
<1>1. d \in Document
  BY RefsAreArtifacts DEF StampCreate, Checked, Document, Ids, IInv, TypeOK
<1>2. InOrder(d) /\ d.id = id
  BY DEF InOrder, StampCreate, IInv, TypeOK
<1>3. ~Stored(id)
  BY DEF BeginCreate, InUse, Stored
<1>4. \A q \in Processes : pc[q] # "idle" => path[q] # id
  BY MarksAreNoDocuments DEF BeginCreate, InUse, IInv, OriginInv, CallInv
<1>5. id \in Path /\ pc[p] = "idle" /\ Begin(p, id, d)
  BY DEF BeginCreate, Path
<1>6. Alone(p, id) /\ id # Roster
  BY <1>4, KindsDisjoint DEF Alone, Singletons
<1>. QED
  BY <1>1, <1>2, <1>3, <1>4, <1>5, <1>6, BeginKeeps

LEMMA BeginUpdateKeeps ==
  ASSUME IInv, NEW p \in Processes, NEW f \in Artifacts,
         NEW refs \in RefChoices, BeginUpdate(p, f, refs)
  PROVE  IInv'
<1>. DEFINE d == StampUpdate(disk[f], clock, Absent, Checked(f, refs))
<1>1. f \in Path /\ f \notin Entries /\ f # Config /\ f # Roster
  BY KindsDisjoint DEF BeginUpdate, Path, Singletons
<1>2. Stored(f)
  BY <1>1 DEF BeginUpdate, IInv, CallInv, Stored
<1>3. Checked(f, refs) \in SUBSET Artifacts
  BY RefsAreArtifacts DEF Checked
<1>4. /\ d \in Document
      /\ InOrder(d)
      /\ d.id = disk[f].id
      /\ Successor(f, disk[f], d)
  BY <1>1, <1>2, <1>3, StampUpdateSucceeds
<1>5. d.id = f /\ SameOrigin(disk[f], d)
  BY <1>2, <1>4 DEF Successor, IInv, OriginInv
<1>6. pc[p] = "idle" /\ Begin(p, f, d) /\ (f \in Serialized => Alone(p, f))
  BY DEF BeginUpdate
<1>. QED
  BY <1>1, <1>2, <1>4, <1>5, <1>6, BeginKeeps

(* The two alternatives of writeSingleton, for a document that the check   *)
(* of the file has let through.                                            *)
LEMMA SingletonCreateKeeps ==
  ASSUME IInv, NEW p \in Processes, NEW f \in Singletons, pc[p] = "idle",
         f \in Serialized => Alone(p, f), disk[f] = Absent,
         NEW id \in SingletonIds, NEW content \in Languages \cup Rosters,
         Begin(p, f, StampCreate(id, clock, p, content, {})),
         f = Roster => Unambiguous(content)
  PROVE  IInv'
<1>. DEFINE d == StampCreate(id, clock, p, content, {})
<1>1. d \in Document /\ d.content = content
  BY DEF StampCreate, Document, Ids, IInv, TypeOK
<1>2. InOrder(d)
  BY DEF InOrder, StampCreate, IInv, TypeOK
<1>3. f \in Path /\ f \notin Artifacts /\ ~Stored(f)
  BY KindsDisjoint DEF Path, Stored
<1>. QED
  BY <1>1, <1>2, <1>3, BeginKeeps

LEMMA SingletonUpdateKeeps ==
  ASSUME IInv, NEW p \in Processes, NEW f \in Singletons, pc[p] = "idle",
         f \in Serialized => Alone(p, f), disk[f] # Absent,
         NEW content \in Languages \cup Rosters,
         Begin(p, f, StampUpdate(disk[f], clock, content, {})),
         f = Config => content = disk[f].content,
         f = Roster => Unambiguous(content)
  PROVE  IInv'
<1>. DEFINE d == StampUpdate(disk[f], clock, content, {})
<1>1. f \in Path /\ f \notin Artifacts
  BY KindsDisjoint DEF Path
<1>2. Stored(f)
  BY <1>1 DEF IInv, CallInv, Stored, Artifacts
<1>3. /\ d \in Document /\ d.content = content
      /\ InOrder(d)
      /\ Successor(f, disk[f], d)
  BY <1>1, <1>2, StampUpdateSucceeds
<1>. QED
  BY <1>1, <1>2, <1>3, BeginKeeps

LEMMA WriteProjectConfigKeeps ==
  ASSUME IInv, NEW p \in Processes, NEW language \in Languages,
         WriteProjectConfig(p, language)
  PROVE  IInv'
<1>. USE DEF WriteProjectConfig, BeginSingleton
<1>1. Config \in Singletons /\ Config # Roster /\ Config \in Path
  BY KindsDisjoint DEF Singletons, Path
<1>2. CASE disk[Config] = Absent
  BY <1>1, <1>2, SingletonCreateKeeps
<1>3. CASE disk[Config] # Absent
  <2>1. language = disk[Config].content
    BY <1>3 DEF LanguageKept
  <2>. QED
    BY <1>1, <1>3, <2>1, SingletonUpdateKeeps
<1>. QED  BY <1>2, <1>3

LEMMA NoDuplicates ==
  ASSUME NEW roster \in Rosters, Duplicates(roster) = {}
  PROVE  Unambiguous(roster)
  BY RostersAreSequences DEF Duplicates, Unambiguous

LEMMA WriteAgentsKeeps ==
  ASSUME IInv, NEW p \in Processes, NEW roster \in Rosters,
         WriteAgents(p, roster)
  PROVE  IInv'
<1>. USE DEF WriteAgents, BeginSingleton
<1>1. Roster \in Singletons /\ Config # Roster
  BY KindsDisjoint DEF Singletons
<1>2. CASE disk[Roster] = Absent
  BY <1>1, <1>2, NoDuplicates, SingletonCreateKeeps
<1>3. CASE disk[Roster] # Absent
  BY <1>1, <1>3, NoDuplicates, SingletonUpdateKeeps
<1>. QED  BY <1>2, <1>3

LEMMA LookUpKeeps ==
  ASSUME IInv, NEW p \in Processes, NEW r \in Artifacts, LookUp(p, r)
  PROVE  IInv'
<1>1. TypeOK'
  BY DEF IInv, TypeOK, LookUp
<1>2. CallInv'
  BY DEF IInv, TypeOK, CallInv, LookUp
<1>3. ReferencesResolve' /\ TimeInv' /\ OriginInv'
  BY DEF IInv, ReferencesResolve, TimeInv, InOrder, CreatedBeforeUpdated,
    OriginInv, Stored, LookUp
<1>4. TurnsInv' /\ RosterInv'
  BY DEF IInv, TurnsInv, Successor, RosterInv, Stored, LookUp
<1>. QED  BY <1>1, <1>2, <1>3, <1>4 DEF IInv

(* The file of a log entry is claimed: nothing was stored there, and       *)
(* nothing is yet.                                                         *)
LEMMA ClaimKeeps ==
  ASSUME IInv, NEW p \in Processes, Claim(p)
  PROVE  IInv'
<1>1. /\ path[p] \in Entries /\ path[p] \in Path /\ disk[path[p]] = Absent
      /\ \A f \in Path : f # path[p] => disk'[f] = disk[f]
      /\ disk'[path[p]] = Claimed
  BY LinklessAreEntries DEF IInv, TypeOK, Claim, Path, Artifacts
<1>2. /\ path' = path /\ doc' = doc /\ pending' = pending
      /\ clock' = clock /\ backs' = backs
      /\ pc' = [pc EXCEPT ![p] = "claimed"] /\ pc[p] = "check"
      /\ pending[p] = {}
  BY DEF Claim
<1>3. \A f \in Path : Stored(f)' <=> Stored(f)
  BY <1>1 DEF Stored
<1>4. \A f \in Path : Stored(f) => disk'[f] = disk[f]
  BY <1>1 DEF Stored
<1>5. \A f \in Path : disk[f] # Absent => disk'[f] # Absent
  BY <1>1, MarksDiffer
<1>6. TypeOK'
  BY <1>2, LinklessAreEntries DEF IInv, TypeOK, Claim
<1>7. CallInv'
  <2>1. \A q \in Processes : pc[q] # "idle" => doc[q].refs \subseteq Path
    BY DEF IInv, CallInv, Document, Path
  <2>2. \A q \in Processes :
          /\ pc'[q] # "idle" => pc[q] # "idle"
          /\ pc'[q] = "idle" => pc[q] = "idle"
          /\ pc'[q] \in {"check", "claimed"} => pc[q] \in {"check", "claimed"}
          /\ pc'[q] = "claimed" => pc[q] = "claimed" \/ q = p
    BY <1>2 DEF IInv, TypeOK
  <2>3. \A q \in Processes : pc'[q] \in {"check", "claimed"} =>
          \A r \in doc[q].refs : r \in pending[q] \/ disk'[r] # Absent
    BY <1>5, <2>1, <2>2 DEF IInv, CallInv
  <2>4. \A f \in Path : disk'[f] = Claimed => f \in Entries
    BY <1>1 DEF IInv, CallInv
  <2>. QED
    BY <1>1, <1>2, <2>2, <2>3, <2>4 DEF IInv, CallInv
<1>8. ReferencesResolve'
  <2>1. \A f \in Path : Stored(f) => disk[f].refs \subseteq Path
    BY DEF IInv, TypeOK, Stored, Document, Path
  <2>. QED
    BY <1>3, <1>4, <1>5, <2>1 DEF IInv, ReferencesResolve
<1>9. TimeInv'
  BY <1>2, <1>3, <1>4 DEF IInv, TypeOK, TimeInv, InOrder, CreatedBeforeUpdated
<1>10. OriginInv'
  BY <1>1, <1>2, <1>3, <1>4 DEF IInv, TypeOK, OriginInv, Path
<1>11. TurnsInv'
  <2>1. \A q \in Processes : pc'[q] # "idle" => pc[q] # "idle" /\ path[q] \in Path
    BY <1>2 DEF IInv, TypeOK, CallInv
  <2>2. ~Stored(path[p])
    BY <1>1 DEF Stored
  <2>3. ASSUME NEW q \in Processes, q # p, path[q] \in Serialized, pc[q] # "idle"
        PROVE  path[q] # path[p]
    BY <1>2, <2>3 DEF IInv, TurnsInv
  <2>. QED
    BY <1>1, <1>2, <1>3, <1>4, <2>1, <2>2, <2>3
      DEF IInv, TypeOK, TurnsInv, Successor
<1>12. RosterInv'
  <2>1. Roster \in Path
    BY DEF Path, Singletons
  <2>. QED
    BY <1>2, <1>3, <1>4, <2>1 DEF IInv, TypeOK, RosterInv
<1>. QED  BY <1>6, <1>7, <1>8, <1>9, <1>10, <1>11, <1>12 DEF IInv

(* What a write does to the files, whether or not over a claim: its own    *)
(* path gets its document, and a reference stays found.                    *)
StoresDoc(p) ==
  /\ pc[p] \in {"check", "claimed"}
  /\ pending[p] = {}
  /\ path[p] \in Path /\ doc[p] \in Document
  /\ disk' = [disk EXCEPT ![path[p]] = doc[p]]
  /\ pc' = [pc EXCEPT ![p] = "reread"]
  /\ UNCHANGED <<clock, backs, path, doc, pending>>

LEMMA WriteStores ==
  ASSUME IInv, NEW p \in Processes, Write(p) \/ WriteOverClaim(p)
  PROVE  StoresDoc(p)
<1>1. path[p] \in Path /\ doc[p] \in Document
  BY DEF IInv, CallInv, Write, WriteOverClaim
<1>2. CASE Write(p)
  BY <1>1, <1>2 DEF StoresDoc, Write, Files!Put, Files!PutNew
<1>3. CASE WriteOverClaim(p)
  BY <1>1, <1>3 DEF StoresDoc, WriteOverClaim, IInv, CallInv
<1>. QED  BY <1>2, <1>3

LEMMA StoreEffect ==
  ASSUME IInv, NEW p \in Processes, StoresDoc(p)
  PROVE  /\ path[p] \in Path /\ doc[p] \in Document
         /\ disk'[path[p]] = doc[p] /\ Stored(path[p])'
         /\ \A f \in Path : f # path[p] => disk'[f] = disk[f]
         /\ \A f \in Path : disk[f] # Absent => disk'[f] # Absent
         /\ \A f \in Path : f # path[p] => (Stored(f)' <=> Stored(f))
         /\ path' = path /\ doc' = doc /\ pending' = pending
         /\ clock' = clock /\ backs' = backs
         /\ \A q \in Processes : q # p => pc'[q] = pc[q]
         /\ pc[p] \in {"check", "claimed"} /\ pc'[p] = "reread"
<1>1. path[p] \in Path /\ doc[p] \in Document
      /\ disk' = [disk EXCEPT ![path[p]] = doc[p]]
  BY DEF StoresDoc
<1>2. disk'[path[p]] = doc[p] /\ \A f \in Path : f # path[p] => disk'[f] = disk[f]
  BY <1>1 DEF IInv, TypeOK
<1>3. Stored(path[p])'
  BY <1>1, <1>2, MarksAreNoDocuments DEF StoresDoc, Stored
<1>4. \A f \in Path : f # path[p] => (Stored(f)' <=> Stored(f))
  BY <1>2 DEF Stored
<1>5. \A f \in Path : disk[f] # Absent => disk'[f] # Absent
  BY <1>1, <1>2, MarksAreNoDocuments
<1>6. /\ path' = path /\ doc' = doc /\ pending' = pending
      /\ clock' = clock /\ backs' = backs
      /\ \A q \in Processes : q # p => pc'[q] = pc[q]
      /\ pc[p] \in {"check", "claimed"} /\ pc'[p] = "reread"
  BY DEF StoresDoc, IInv, TypeOK
<1>. QED
  BY <1>1, <1>2, <1>3, <1>4, <1>5, <1>6

LEMMA StoreKeeps ==
  ASSUME IInv, NEW p \in Processes, StoresDoc(p)
  PROVE  IInv'
<1>. USE StoreEffect
<1>1. TypeOK'
  BY DEF IInv, TypeOK, StoresDoc
<1>2. CallInv'
  <2>1. \A q \in Processes : pc[q] # "idle" => doc[q].refs \subseteq Path
    BY DEF IInv, CallInv, Document, Path
  <2>2. \A q \in Processes : pc'[q] \in {"check", "claimed"} =>
          \A r \in doc[q].refs : r \in pending[q] \/ disk'[r] # Absent
    BY <2>1 DEF IInv, CallInv
  <2>3. \A f \in Path : disk'[f] = Claimed => f \in Entries
    BY MarksAreNoDocuments DEF IInv, CallInv
  <2>. QED
    BY <2>2, <2>3 DEF IInv, CallInv
<1>3. ReferencesResolve'
  <2>1. doc[p].refs \subseteq Path
    BY DEF Document, Path
  <2>2. \A r \in doc[p].refs : disk'[r] # Absent
    BY <2>1 DEF IInv, CallInv, StoresDoc
  <2>3. \A f \in Path : Stored(f) => disk[f].refs \subseteq Path
    BY DEF IInv, TypeOK, Stored, Document, Path
  <2>. QED
    BY <2>2, <2>3 DEF IInv, ReferencesResolve
<1>4. TimeInv'
  BY DEF IInv, TimeInv, InOrder, CreatedBeforeUpdated
<1>5. OriginInv'
  <2>1. \A q \in Processes : pc'[q] # "idle" => pc[q] # "idle"
    OBVIOUS
  <2>2. ASSUME NEW f \in Artifacts, Stored(f)'  PROVE disk'[f].id = f
    BY <2>1, <2>2 DEF IInv, OriginInv, Path
  <2>3. ASSUME NEW q \in Processes, pc[q] # "idle", path[q] \in Artifacts
        PROVE  /\ doc[q].id = path[q]
               /\ Stored(path[q])' => SameOrigin(disk'[path[q]], doc[q])
    <3>1. doc[p] \notin {Absent, Claimed} /\ doc[q] \notin {Absent, Claimed}
      BY <2>3, MarksAreNoDocuments DEF IInv, CallInv
    <3>2. CASE path[q] = path[p] /\ ~Stored(path[p])
      <4>1. q = p
        BY <2>3, <3>2 DEF IInv, OriginInv
      <4>. QED
        BY <2>3, <3>1, <4>1 DEF SameOrigin, IInv, OriginInv
    <3>3. CASE path[q] = path[p] /\ Stored(path[p])
      <4>1. SameOrigin(disk[path[p]], doc[p]) /\ SameOrigin(disk[path[p]], doc[q])
        BY <2>3, <3>3 DEF IInv, OriginInv
      <4>. QED
        BY <2>3, <3>1, <3>3, <4>1 DEF SameOrigin, IInv, OriginInv
    <3>4. CASE path[q] # path[p]
      BY <2>3, <3>4 DEF IInv, OriginInv, Path
    <3>. QED
      BY <3>2, <3>3, <3>4
  <2>4. ASSUME NEW q \in Processes, NEW s \in Processes,
               pc[q] # "idle", pc[s] # "idle", path[q] = path[s],
               path[q] \in Artifacts, ~Stored(path[q])'
        PROVE  q = s
    BY <2>4 DEF IInv, OriginInv, Path
  <2>. QED
    BY <2>1, <2>2, <2>3, <2>4 DEF OriginInv
<1>6. TurnsInv'
  <2>1. \A q \in Processes : pc'[q] # "idle" => pc[q] # "idle" /\ path[q] \in Path
    BY DEF IInv, CallInv
  <2>2. ASSUME NEW q \in Processes, q # p, path[q] \in Serialized, pc[q] # "idle"
        PROVE  path[q] # path[p]
    BY <2>2 DEF IInv, TurnsInv
  <2>3. ASSUME NEW q \in Processes, q # p, path[q] \in Serialized, pc'[q] # "idle"
        PROVE  /\ disk'[path[q]] = disk[path[q]]
               /\ Stored(path[q])' <=> Stored(path[q])
    BY <2>1, <2>2, <2>3
  <2>. QED
    BY <2>1, <2>3 DEF IInv, TurnsInv, Successor
<1>7. RosterInv'
  BY DEF IInv, RosterInv, Path, Singletons
<1>. QED  BY <1>1, <1>2, <1>3, <1>4, <1>5, <1>6, <1>7 DEF IInv

LEMMA EndKeeps ==
  ASSUME IInv, NEW p \in Processes, End(p)
  PROVE  IInv'
<1>. USE DEF Stored
<1>1. TypeOK'
  BY DEF IInv, TypeOK, End
<1>2. CallInv'
  BY DEF IInv, TypeOK, CallInv, End
<1>3. ReferencesResolve' /\ TimeInv'
  BY DEF IInv, TypeOK, ReferencesResolve, TimeInv, InOrder,
    CreatedBeforeUpdated, End
<1>4. OriginInv'
  BY DEF IInv, TypeOK, OriginInv, End
<1>5. TurnsInv' /\ RosterInv'
  BY DEF IInv, TypeOK, TurnsInv, Successor, RosterInv, End
<1>. QED  BY <1>1, <1>2, <1>3, <1>4, <1>5 DEF IInv

LEMMA NextIInv == IInv /\ [Next]_vars => IInv'
<1>. SUFFICES ASSUME IInv, [Next]_vars  PROVE IInv'
  OBVIOUS
<1>1. CASE UNCHANGED vars
  BY <1>1 DEF vars, IInv, TypeOK, CallInv, ReferencesResolve, TimeInv, InOrder,
    CreatedBeforeUpdated, OriginInv, TurnsInv, Successor, RosterInv, Stored
<1>2. CASE Next
  BY <1>2, ClockMoves, BeginCreateKeeps, BeginUpdateKeeps,
    WriteProjectConfigKeeps, WriteAgentsKeeps, LookUpKeeps, ClaimKeeps,
    WriteStores, StoreKeeps, EndKeeps DEF Next
<1>. QED  BY <1>1, <1>2

LEMMA Inductive == Spec => []IInv
  BY InitIInv, NextIInv, PTL DEF Spec

--------------------------------------------------------------------------------
(* The theorems *)

(* Every variable keeps its type. *)
THEOREM TypeCorrect == Spec => []TypeOK
  BY Inductive, PTL DEF IInv

(* No interleaving of creations and updates stores a reference, of a kind  *)
(* that has its references checked, to an artifact that does not exist.    *)
THEOREM RefsResolve == Spec => []ReferencesResolve
  BY Inductive, PTL DEF IInv

(* On a clock that is never set back, no interleaving stores a document    *)
(* updated before it was created.                                          *)
THEOREM TimesOrdered == Spec => []CreatedBeforeUpdated
<1>1. IInv => CreatedBeforeUpdated
  BY DEF IInv, TimeInv
<1>. QED  BY <1>1, Inductive, PTL

(* A call on a file whose callers take turns returns what it wrote.        *)
THEOREM OwnWritesReturned == Spec => []OwnWriteReturned
<1>1. IInv => OwnWriteReturned
  BY DEF IInv, TurnsInv, OwnWriteReturned
<1>. QED  BY <1>1, Inductive, PTL

(* No two agents of a stored roster have the same display name.            *)
THEOREM RosterNamesUnique == Spec => []NamesUnique
<1>1. IInv => NamesUnique
  BY DEF IInv, RosterInv, Unambiguous, NamesUnique
<1>. QED  BY <1>1, Inductive, PTL

(* A step leaves a file as it is, claims it, or stores a call's document.  *)
LEMMA StepOnFile ==
  ASSUME IInv, Next, NEW f \in Path, Stored(f), disk'[f] # disk[f]
  PROVE  \E p \in Processes : StoresDoc(p) /\ path[p] = f /\ disk'[f] = doc[p]
<1>1. ASSUME NEW p \in Processes, Claim(p)  PROVE disk'[f] = disk[f]
  BY <1>1 DEF Claim, Stored, IInv, TypeOK
<1>2. PICK p \in Processes : Write(p) \/ WriteOverClaim(p)
  BY <1>1 DEF Next, Tick, StepBack, BeginCreate, BeginUpdate, WriteProjectConfig,
    WriteAgents, BeginSingleton, Begin, LookUp, End
<1>3. StoresDoc(p)
  BY <1>2, WriteStores
<1>. QED
  BY <1>3, StoreEffect

(* Racing updates may lose each other's content, but none of them changes  *)
(* the id, the creation time or the creator of an artifact.                *)
THEOREM OriginsKept == Spec => OriginKept
<1>1. IInv /\ [Next]_vars =>
        [\A f \in Artifacts : Stored(f) => SameOrigin(disk[f], disk'[f])]_vars
  <2>. SUFFICES ASSUME IInv, Next, NEW f \in Artifacts, Stored(f)
                PROVE  SameOrigin(disk[f], disk'[f])
    OBVIOUS
  <2>1. CASE disk'[f] = disk[f]
    BY <2>1 DEF SameOrigin, Stored
  <2>2. CASE disk'[f] # disk[f]
    <3>1. f \in Path
      BY DEF Path
    <3>2. PICK p \in Processes : StoresDoc(p) /\ path[p] = f /\ disk'[f] = doc[p]
      BY <2>2, <3>1, StepOnFile
    <3>. QED
      BY <3>2 DEF IInv, OriginInv, StoresDoc
  <2>. QED  BY <2>1, <2>2
<1>. QED  BY <1>1, Inductive, PTL DEF Spec, OriginKept

(* A file whose callers take turns only moves on to a successor.           *)
THEOREM TurnsKeep == Spec => KeptInTurn
<1>1. IInv /\ [Next]_vars =>
        [\A f \in Serialized \cap Path :
           Stored(f) => Successor(f, disk[f], disk'[f])]_vars
  <2>. SUFFICES ASSUME IInv, Next, NEW f \in Serialized \cap Path, Stored(f)
                PROVE  Successor(f, disk[f], disk'[f])
    OBVIOUS
  <2>1. CASE disk'[f] = disk[f]
    BY <2>1 DEF Successor, SameOrigin, Stored, IInv, TypeOK, Document
  <2>2. CASE disk'[f] # disk[f]
    <3>1. PICK p \in Processes : StoresDoc(p) /\ path[p] = f /\ disk'[f] = doc[p]
      BY <2>2, StepOnFile
    <3>. QED
      BY <3>1 DEF IInv, TurnsInv, StoresDoc
  <2>. QED  BY <2>1, <2>2
<1>. QED  BY <1>1, Inductive, PTL DEF Spec, KeptInTurn

================================================================================
