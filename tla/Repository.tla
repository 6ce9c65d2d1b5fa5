------------------------------ MODULE Repository ------------------------------
(***************************************************************************)
(* store/repository.go: create, update and write-singleton over the        *)
(* artifact files, with the reference check of refs.go and the rules of    *)
(* the two singletons: the immutable artifactLanguage of project_config.go *)
(* and the unique display names of agents.go.                              *)
(*                                                                         *)
(* Several processes (or goroutines) call it at once.  Each call is a      *)
(* sequence of file operations with the caller's memory in between: read   *)
(* what is there, stamp the envelope, look up every reference, write,      *)
(* read back.  A file is read and written in one step, which is what       *)
(* ArtifactFiles is proved to provide, except a log entry where hard links *)
(* fail: its name is claimed first, and a writer that fails or is killed   *)
(* before its rename leaves the claim.  Nothing in store deletes a file.   *)
(* Times are those of the wall clock, which may be set back.               *)
(*                                                                         *)
(* Serialized is the set of files whose callers provide the serialization  *)
(* repository.go 92-105 says the package leaves to them: no two calls that *)
(* read, modify and write one of these files overlap.                      *)
(***************************************************************************)
EXTENDS Naturals, Sequences

CONSTANTS
  Processes,    \* concurrent callers, each with its own git identity
  Tasks,        \* ids of a mutable kind whose references are not checked
  Decisions,    \* ids of mutable kinds whose references are checked
  Entries,      \* ids of log entries
  Linkless,     \* the log entries on file systems where os.Link may fail
  Config,       \* the path of the project configuration
  Roster,       \* the path of the agents roster
  SingletonIds, \* ids minted for these two
  Languages,    \* what a configuration may say in artifactLanguage
  Names,        \* the display names of agents
  Rosters,      \* what a roster may say: the display name of each agent
  Nameless,     \* an agent without a display name, or with an empty one
  RefChoices,   \* the sets of references a caller may ask for
  Absent,
  Claimed,      \* a name taken with O_EXCL, whose file is still empty
  Serialized,   \* the files whose callers take turns
  MaxTime,      \* bound on the clock
  MaxBacks      \* how often the clock is set back in a run

Artifacts  == Tasks \cup Decisions \cup Entries
Singletons == {Config, Roster}
Path       == Artifacts \cup Singletons
Ids        == Artifacts \cup SingletonIds

ASSUME KindsDisjoint ==
  /\ Tasks \cap Decisions = {}
  /\ (Tasks \cup Decisions) \cap Entries = {}
  /\ Config # Roster
  /\ Singletons \cap Artifacts = {}
  /\ SingletonIds \cap Artifacts = {}

ASSUME LinklessAreEntries == Linkless \subseteq Entries

ASSUME RefsAreArtifacts == RefChoices \subseteq SUBSET Artifacts

ASSUME BoundsAreNat == {MaxTime, MaxBacks} \subseteq Nat

Document ==
  [id : Ids, createdAt : Nat, createdBy : Processes, updatedAt : Nat,
   content : Languages \cup Rosters \cup {Absent}, refs : SUBSET Artifacts]

ASSUME RostersAreSequences == Rosters \subseteq Seq(Names \cup {Nameless})

ASSUME MarksAreNoDocuments == {Absent, Claimed} \cap Document = {}

ASSUME MarksDiffer == Absent # Claimed

VARIABLES
  clock,      \* time.Now(), the wall clock
  backs,      \* history: how often that clock was set back
  disk,       \* the document at each path, Claimed or Absent
  pc,         \* where each process is in its call
  path,       \* the file each call is about
  doc,        \* the document each call has stamped
  pending     \* references a call has still to look up

vars == <<clock, backs, disk, pc, path, doc, pending>>

Files == INSTANCE AtomicArtifacts
  WITH Mutable    <- Tasks \cup Decisions \cup Singletons,
       AppendOnly <- Entries,
       Data       <- Document,
       value      <- disk,
       stable     <- disk

--------------------------------------------------------------------------------

(* A whole document is at a path. *)
Stored(f) == disk[f] \notin {Absent, Claimed}

TypeOK ==
  /\ clock    \in Nat
  /\ backs    \in 0 .. MaxBacks
  /\ disk     \in [Path -> Document \cup {Absent, Claimed}]
  /\ pc       \in [Processes -> {"idle", "check", "claimed", "reread"}]
  /\ path     \in [Processes -> Path \cup {Absent}]
  /\ doc      \in [Processes -> Document \cup {Absent}]
  /\ pending  \in [Processes -> SUBSET Artifacts]

Init ==
  /\ clock    = 0
  /\ backs    = 0
  /\ disk     = [f \in Path |-> Absent]
  /\ pc       = [p \in Processes |-> "idle"]
  /\ path     = [p \in Processes |-> Absent]
  /\ doc      = [p \in Processes |-> Absent]
  /\ pending  = [p \in Processes |-> {}]

Tick ==
  /\ clock < MaxTime
  /\ clock' = clock + 1
  /\ UNCHANGED <<backs, disk, pc, path, doc, pending>>

(* Time synchronization or the user corrects a clock that was ahead. *)
StepBack ==
  /\ backs < MaxBacks
  /\ \E earlier \in 0 .. clock - 1 : clock' = earlier
  /\ backs' = backs + 1
  /\ UNCHANGED <<disk, pc, path, doc, pending>>

--------------------------------------------------------------------------------
(* The envelope *)

StampCreate(id, now, by, content, refs) ==
  [id |-> id, createdAt |-> now, createdBy |-> by, updatedAt |-> now,
   content |-> content, refs |-> refs]

(* An update that re-attributes the artifact to whoever updates it. *)
StampUpdateRestamped(existing, now, content, refs) ==
  [id |-> existing.id, createdAt |-> now, createdBy |-> existing.createdBy,
   updatedAt |-> now, content |-> content, refs |-> refs]

StampUpdate(existing, now, content, refs) ==
  [id |-> existing.id, createdAt |-> existing.createdAt,
   createdBy |-> existing.createdBy, updatedAt |-> now,
   content |-> content, refs |-> refs]

(* checkArtifactLanguageImmutable *)
LanguageUnchecked(existing, language) == TRUE

LanguageKept(existing, language) ==
  existing # Absent => language = existing.content

(* checkUniqueDisplayNames: the agents whose name an earlier one has.      *)
Duplicates(roster) ==
  {i \in DOMAIN roster : roster[i] # Nameless
                          /\ \E j \in 1 .. i - 1 : roster[j] = roster[i]}

(* taskKind has no refs function and a singleton no reference check, so    *)
(* nothing they refer to is looked up, nor kept here.                      *)
Checked(f, refs) == IF f \in Tasks \cup Singletons THEN {} ELSE refs

--------------------------------------------------------------------------------
(* The calls *)

(* No other call is between its read and its last read of the same file. *)
Alone(p, f) == \A q \in Processes \ {p} : pc[q] # "idle" => path[q] # f

(* newID never repeats itself; an id nobody holds stands for a new one. *)
InUse(id) ==
  \/ id \in Artifacts /\ disk[id] # Absent
  \/ \E f \in Singletons : disk[f] # Absent /\ disk[f].id = id
  \/ \E p \in Processes : doc[p] # Absent /\ doc[p].id = id

Begin(p, f, d) ==
  /\ pc'      = [pc      EXCEPT ![p] = "check"]
  /\ path'    = [path    EXCEPT ![p] = f]
  /\ doc'     = [doc     EXCEPT ![p] = d]
  /\ pending' = [pending EXCEPT ![p] = d.refs]
  /\ UNCHANGED <<clock, backs, disk>>

(* createArtifact up to the schema validation: newID, actor, stampCreate. *)
BeginCreate(p, id, refs) ==
  /\ pc[p] = "idle"
  /\ ~InUse(id)
  /\ Begin(p, id, StampCreate(id, clock, p, Absent, Checked(id, refs)))

(* updateArtifact up to the schema validation: the existing document is    *)
(* read once, and everything the envelope keeps comes from that reading.   *)
BeginUpdate(p, f, refs) ==
  /\ pc[p] = "idle"
  /\ f \in Tasks \cup Decisions
  /\ disk[f] # Absent
  /\ f \in Serialized => Alone(p, f)
  /\ Begin(p, f, StampUpdate(disk[f], clock, Absent, Checked(f, refs)))

(* writeSingleton up to its write: a missing file makes it a creation, for *)
(* which an id is minted.                                                  *)
BeginSingleton(p, f, content) ==
  /\ pc[p] = "idle"
  /\ f \in Serialized => Alone(p, f)
  /\ \/ /\ disk[f] = Absent
        /\ \E id \in SingletonIds :
             ~InUse(id) /\ Begin(p, f, StampCreate(id, clock, p, content, {}))
     \/ /\ disk[f] # Absent
        /\ Begin(p, f, StampUpdate(disk[f], clock, content, {}))

(* The check that each of the two passes along sees the same reading.      *)
WriteProjectConfig(p, language) ==
  /\ LanguageKept(disk[Config], language)
  /\ BeginSingleton(p, Config, language)

WriteAgents(p, roster) ==
  /\ Duplicates(roster) = {}
  /\ BeginSingleton(p, Roster, roster)

(* A checkReferences that takes every reference for an existing one. *)
LookUpNothing(p, r) ==
  /\ pc[p] = "check"
  /\ r \in pending[p]
  /\ pending' = [pending EXCEPT ![p] = @ \ {r}]
  /\ UNCHANGED <<clock, backs, disk, pc, path, doc>>

(* checkReferences: one os.Stat per reference, in any order. *)
LookUp(p, r) ==
  /\ pc[p] = "check"
  /\ r \in pending[p]
  /\ disk[r] # Absent
  /\ pending' = [pending EXCEPT ![p] = @ \ {r}]
  /\ UNCHANGED <<clock, backs, disk, pc, path, doc>>

(* A call that takes a failed write for a successful one. *)
WriteErrorIgnored(p) ==
  /\ pc[p] = "check"
  /\ pending[p] = {}
  /\ pc' = [pc EXCEPT ![p] = "reread"]
  /\ UNCHANGED <<clock, backs, disk, path, doc, pending>>

(* Every reference was found: writeReplacing, or writeNew where the link   *)
(* succeeds, in the one step ArtifactFiles makes of it.                    *)
Write(p) ==
  /\ pc[p] = "check"
  /\ pending[p] = {}
  /\ Files!Put(path[p], doc[p]) \/ Files!PutNew(path[p], doc[p])
  /\ pc' = [pc EXCEPT ![p] = "reread"]
  /\ UNCHANGED <<clock, backs, path, doc, pending>>

(* writeNew where the link fails: the name is claimed first. *)
Claim(p) ==
  /\ pc[p] = "check"
  /\ pending[p] = {}
  /\ path[p] \in Linkless
  /\ disk[path[p]] = Absent
  /\ disk' = [disk EXCEPT ![path[p]] = Claimed]
  /\ pc'   = [pc   EXCEPT ![p] = "claimed"]
  /\ UNCHANGED <<clock, backs, path, doc, pending>>

(* The rename over the claim. *)
WriteOverClaim(p) ==
  /\ pc[p] = "claimed"
  /\ disk' = [disk EXCEPT ![path[p]] = doc[p]]
  /\ pc'   = [pc   EXCEPT ![p] = "reread"]
  /\ UNCHANGED <<clock, backs, path, doc, pending>>

(* The call is over: before the write, because a reference does not exist  *)
(* or the schema, the encoding or the file system refuses; between the     *)
(* claim and the rename, which leaves the claim at its name; after it,     *)
(* because the file was read back, or could not be.  Killing the process   *)
(* between two file operations leaves the same state.                      *)
End(p) ==
  /\ pc[p] # "idle"
  /\ pc'      = [pc      EXCEPT ![p] = "idle"]
  /\ path'    = [path    EXCEPT ![p] = Absent]
  /\ doc'     = [doc     EXCEPT ![p] = Absent]
  /\ pending' = [pending EXCEPT ![p] = {}]
  /\ UNCHANGED <<clock, backs, disk>>

Next ==
  \/ Tick
  \/ StepBack
  \/ \E p \in Processes :
       \/ \E id \in Artifacts, refs \in RefChoices : BeginCreate(p, id, refs)
       \/ \E f \in Artifacts, refs \in RefChoices : BeginUpdate(p, f, refs)
       \/ \E language \in Languages : WriteProjectConfig(p, language)
       \/ \E roster \in Rosters : WriteAgents(p, roster)
       \/ \E r \in Artifacts : LookUp(p, r)
       \/ Write(p)
       \/ Claim(p)
       \/ WriteOverClaim(p)
       \/ End(p)

Spec == Init /\ [][Next]_vars

--------------------------------------------------------------------------------
(* Properties *)

(* Every reference of every stored artifact of a checked kind names an     *)
(* artifact whose file exists, though the look-ups and the write are       *)
(* separate steps of several processes (checkReferences).  The file of a   *)
(* log entry whose writer was stopped at its claim counts as existing.     *)
ReferencesResolve ==
  \A f \in Path : Stored(f) =>
    \A r \in disk[f].refs : disk[r] # Absent

SameOrigin(d, e) ==
  /\ e \notin {Absent, Claimed}
  /\ e.id = d.id /\ e.createdAt = d.createdAt /\ e.createdBy = d.createdBy

(* However updates of an artifact race, it never disappears and never      *)
(* changes its id, its creation time or its creator (stampUpdate).         *)
OriginKept ==
  [][\A f \in Artifacts : Stored(f) => SameOrigin(disk[f], disk'[f])]_vars

(* While the wall clock has only moved forward, no artifact was updated    *)
(* before it was created, even when the process that stamped it is slower  *)
(* than others.  Nothing in stampUpdate compares the two times, so that a  *)
(* clock that is set back can turn them round.                             *)
CreatedBeforeUpdated ==
  backs = 0 =>
    \A f \in Path : Stored(f) =>
      disk[f].createdAt <= disk[f].updatedAt /\ disk[f].updatedAt <= clock

Successor(f, d, e) ==
  /\ SameOrigin(d, e)
  /\ backs = 0 => d.updatedAt <= e.updatedAt
  /\ f = Config => e.content = d.content

(* A file whose writers take turns keeps its origin from its first write   *)
(* on (writeSingleton's comment, repository.go 337-341), its updatedAt     *)
(* does not go back unless the wall clock has, and the configuration keeps *)
(* its artifactLanguage (project_config.go 20-26).                         *)
KeptInTurn ==
  [][\A f \in Serialized \cap Path :
       Stored(f) => Successor(f, disk[f], disk'[f])]_vars

(* What a serialized call reads back and returns is the document it wrote  *)
(* (createArtifact's comment on reading back, repository.go 225-233).      *)
OwnWriteReturned ==
  \A p \in Processes :
    pc[p] = "reread" /\ path[p] \in Serialized => disk[path[p]] = doc[p]

(* The stored roster calls no two agents by the same name, whoever wrote   *)
(* it and whatever was there before (agents.go 24-29).                     *)
NamesUnique ==
  Stored(Roster) =>
    \A i, j \in DOMAIN disk[Roster].content :
      i < j /\ disk[Roster].content[i] = disk[Roster].content[j]
        => disk[Roster].content[i] = Nameless

================================================================================
