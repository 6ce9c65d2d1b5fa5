----------------------------- MODULE ArtifactFiles -----------------------------
(***************************************************************************)
(* store/fsio.go: how an artifact reaches its real name.                   *)
(*                                                                         *)
(* Every write first builds a temporary file (writeTemp: create, write,    *)
(* fsync, close).  A mutable artifact is then renamed over its real name   *)
(* (writeReplacing).  An append-only one is hard-linked to it (writeNew),  *)
(* and where the file system refuses the link for any reason other than    *)
(* "file exists", the real name is claimed with O_EXCL and the temporary   *)
(* file renamed over the claim.                                            *)
(*                                                                         *)
(* Writers are goroutines or processes; any of them may be killed between  *)
(* two system calls, any system call may fail, and the machine may lose    *)
(* power.  A stray temporary name is not kept: nothing in store reads,     *)
(* lists or removes a ".tmp-*" name.                                       *)
(***************************************************************************)
CONSTANTS
  Writers,      \* concurrent callers of writeReplacing and writeNew
  Mutable,      \* names of mutable artifacts
  AppendOnly,   \* names of log entries
  Data,         \* encoded documents
  Absent,       \* no file, and no job
  Empty,        \* a file of no bytes
  Torn,         \* a file whose unsynced bytes a power loss took
  Linkless      \* log entries on a file system where os.Link may fail with
                \* something else than ErrExist

ASSUME DistinctMarks ==
  /\ {Absent, Empty, Torn} \cap Data = {}
  /\ Absent \notin [body : Data \cup {Empty, Torn}, synced : BOOLEAN]
  /\ Absent # Empty /\ Empty # Torn /\ Absent # Torn

ASSUME KindsDisjoint == Mutable \cap AppendOnly = {}

ASSUME LinklessAreEntries == Linkless \subseteq AppendOnly

VARIABLES
  pc,       \* the next system call of each writer
  job,      \* what each writer was asked to write, and where
  tmp,      \* the temporary file of each writer
  files,    \* the file at each real name
  media,    \* the file at each real name a power loss would bring back
  acked     \* history: writes of append-only names reported as successful
            \* since the last power loss

vars == <<pc, job, tmp, files, media, acked>>

--------------------------------------------------------------------------------

Path   == Mutable \cup AppendOnly
Linked == Path \ Linkless
Inode  == [body : Data \cup {Empty, Torn}, synced : BOOLEAN]
Job    == [path : Path, data : Data]

Steps == {"idle", "write", "sync", "close", "bind", "claim", "closeclaim",
          "rename", "ok", "failed"}

(* The artifact at a name is complete: some caller's whole document. *)
IsWhole(f) == f # Absent /\ f.body \in Data

(* What is left of a file after a power loss: only synced bytes. *)
AfterPowerLoss(f) ==
  IF f # Absent /\ ~f.synced THEN [body |-> Torn, synced |-> FALSE] ELSE f

TypeOK ==
  /\ pc    \in [Writers -> Steps]
  /\ job   \in [Writers -> Job \cup {Absent}]
  /\ tmp   \in [Writers -> Inode \cup {Absent}]
  /\ files \in [Path -> Inode \cup {Absent}]
  /\ media \in [Path -> Inode \cup {Absent}]
  /\ acked \in [AppendOnly -> SUBSET (Writers \X Data)]

Init ==
  /\ pc    = [w \in Writers |-> "idle"]
  /\ job   = [w \in Writers |-> Absent]
  /\ tmp   = [w \in Writers |-> Absent]
  /\ files = [p \in Path |-> Absent]
  /\ media = [p \in Path |-> Absent]
  /\ acked = [p \in AppendOnly |-> {}]

--------------------------------------------------------------------------------
(* writeTemp *)

(* os.MkdirAll and os.CreateTemp; when either fails nothing has changed. *)
CreateTemp(w, p, d) ==
  /\ pc[w] = "idle"
  /\ pc'  = [pc  EXCEPT ![w] = "write"]
  /\ job' = [job EXCEPT ![w] = [path |-> p, data |-> d]]
  /\ tmp' = [tmp EXCEPT ![w] = [body |-> Empty, synced |-> FALSE]]
  /\ UNCHANGED <<files, media, acked>>

WriteTemp(w) ==
  /\ pc[w] = "write"
  /\ pc'  = [pc  EXCEPT ![w] = "sync"]
  /\ tmp' = [tmp EXCEPT ![w] = [body |-> job[w].data, synced |-> FALSE]]
  /\ UNCHANGED <<job, files, media, acked>>

(* A writeTemp that forgets tmp.Sync(). *)
SyncTempSkipped(w) ==
  /\ pc[w] = "sync"
  /\ pc'  = [pc  EXCEPT ![w] = "close"]
  /\ UNCHANGED <<job, tmp, files, media, acked>>

SyncTemp(w) ==
  /\ pc[w] = "sync"
  /\ pc'  = [pc  EXCEPT ![w] = "close"]
  /\ tmp' = [tmp EXCEPT ![w] = [body |-> tmp[w].body, synced |-> TRUE]]
  /\ UNCHANGED <<job, files, media, acked>>

CloseTemp(w) ==
  /\ pc[w] = "close"
  /\ pc'  = [pc EXCEPT ![w] = "bind"]
  /\ UNCHANGED <<job, tmp, files, media, acked>>

(* Write, Sync or Close reports an error: the temporary file is removed. *)
TempFails(w) ==
  /\ pc[w] \in {"write", "sync", "close"}
  /\ pc'  = [pc  EXCEPT ![w] = "failed"]
  /\ tmp' = [tmp EXCEPT ![w] = Absent]
  /\ UNCHANGED <<job, files, media, acked>>

--------------------------------------------------------------------------------
(* writeReplacing *)

Rename(w) ==
  LET p == job[w].path IN
  /\ pc[w] = "bind"
  /\ p \in Mutable
  /\ pc'    = [pc    EXCEPT ![w] = "ok"]
  /\ files' = [files EXCEPT ![p] = tmp[w]]
  /\ tmp'   = [tmp   EXCEPT ![w] = Absent]
  /\ UNCHANGED <<job, media, acked>>

RenameFails(w) ==
  /\ pc[w] = "bind"
  /\ job[w].path \in Mutable
  /\ pc'  = [pc  EXCEPT ![w] = "failed"]
  /\ tmp' = [tmp EXCEPT ![w] = Absent]
  /\ UNCHANGED <<job, files, media, acked>>

--------------------------------------------------------------------------------
(* writeNew *)

(* A writeNew that binds with rename, which replaces what it finds. *)
LinkReplacing(w) ==
  LET p == job[w].path IN
  /\ pc[w] = "bind"
  /\ p \in AppendOnly
  /\ pc'    = [pc    EXCEPT ![w] = "ok"]
  /\ files' = [files EXCEPT ![p] = tmp[w]]
  /\ UNCHANGED <<job, tmp, media, acked>>

Link(w) ==
  LET p == job[w].path IN
  /\ pc[w] = "bind"
  /\ p \in AppendOnly
  /\ files[p] = Absent
  /\ pc'    = [pc    EXCEPT ![w] = "ok"]
  /\ files' = [files EXCEPT ![p] = tmp[w]]
  /\ UNCHANGED <<job, tmp, media, acked>>

(* ErrExist: refused as an append-only violation. *)
LinkExists(w) ==
  LET p == job[w].path IN
  /\ pc[w] = "bind"
  /\ p \in AppendOnly
  /\ files[p] # Absent
  /\ pc' = [pc EXCEPT ![w] = "failed"]
  /\ UNCHANGED <<job, tmp, files, media, acked>>

(* Any other error of os.Link takes the fallback route. *)
LinkFails(w) ==
  /\ pc[w] = "bind"
  /\ job[w].path \in Linkless
  /\ pc' = [pc EXCEPT ![w] = "claim"]
  /\ UNCHANGED <<job, tmp, files, media, acked>>

(* A fallback that checks the name with os.Stat before it opens it without *)
(* O_EXCL, and so can win a name another writer has just claimed.          *)
ClaimWithoutExcl(w) ==
  LET p == job[w].path IN
  /\ pc[w] = "claim"
  /\ files[p] = Absent \/ ~IsWhole(files[p])
  /\ pc'    = [pc    EXCEPT ![w] = "closeclaim"]
  /\ files' = [files EXCEPT ![p] = [body |-> Empty, synced |-> TRUE]]
  /\ UNCHANGED <<job, tmp, media, acked>>

(* os.OpenFile with O_CREATE and O_EXCL: an empty file at the real name. *)
Claim(w) ==
  LET p == job[w].path IN
  /\ pc[w] = "claim"
  /\ files[p] = Absent
  /\ pc'    = [pc    EXCEPT ![w] = "closeclaim"]
  /\ files' = [files EXCEPT ![p] = [body |-> Empty, synced |-> TRUE]]
  /\ UNCHANGED <<job, tmp, media, acked>>

(* ErrExist, or any other error of os.OpenFile. *)
ClaimFails(w) ==
  /\ pc[w] = "claim"
  /\ pc' = [pc EXCEPT ![w] = "failed"]
  /\ UNCHANGED <<job, tmp, files, media, acked>>

CloseClaim(w) ==
  /\ pc[w] = "closeclaim"
  /\ pc' = [pc EXCEPT ![w] = "rename"]
  /\ UNCHANGED <<job, tmp, files, media, acked>>

RenameOverClaim(w) ==
  LET p == job[w].path IN
  /\ pc[w] = "rename"
  /\ pc'    = [pc    EXCEPT ![w] = "ok"]
  /\ files' = [files EXCEPT ![p] = tmp[w]]
  /\ tmp'   = [tmp   EXCEPT ![w] = Absent]
  /\ UNCHANGED <<job, media, acked>>

(* claim.Close or os.Rename reports an error: the claim stays at the name. *)
FallbackFails(w) ==
  /\ pc[w] \in {"closeclaim", "rename"}
  /\ pc' = [pc EXCEPT ![w] = "failed"]
  /\ UNCHANGED <<job, tmp, files, media, acked>>

--------------------------------------------------------------------------------

(* The deferred os.Remove of the temporary name, and the result. *)
Return(w) ==
  /\ pc[w] \in {"ok", "failed"}
  /\ pc'    = [pc  EXCEPT ![w] = "idle"]
  /\ job'   = [job EXCEPT ![w] = Absent]
  /\ tmp'   = [tmp EXCEPT ![w] = Absent]
  /\ acked' = IF pc[w] = "ok" /\ job[w].path \in AppendOnly
              THEN [acked EXCEPT ![job[w].path] = @ \cup {<<w, job[w].data>>}]
              ELSE acked
  /\ UNCHANGED <<files, media>>

(* The writer is killed and restarted: its memory is gone, the names stay. *)
Crash(w) ==
  /\ pc[w] # "idle"
  /\ pc'  = [pc  EXCEPT ![w] = "idle"]
  /\ job' = [job EXCEPT ![w] = Absent]
  /\ tmp' = [tmp EXCEPT ![w] = Absent]
  /\ UNCHANGED <<files, media, acked>>

(* The kernel writes a directory entry back; store never fsyncs one. *)
Settle(p) ==
  /\ media' = [media EXCEPT ![p] = files[p]]
  /\ UNCHANGED <<pc, job, tmp, files, acked>>

PowerLoss ==
  /\ pc'    = [w \in Writers |-> "idle"]
  /\ job'   = [w \in Writers |-> Absent]
  /\ tmp'   = [w \in Writers |-> Absent]
  /\ files' = [p \in Path |-> AfterPowerLoss(media[p])]
  /\ media' = [p \in Path |-> AfterPowerLoss(media[p])]
  /\ acked' = [p \in AppendOnly |-> {}]

WriterStep(w) ==
  \/ \E p \in Path, d \in Data : CreateTemp(w, p, d)
  \/ WriteTemp(w) \/ SyncTemp(w) \/ CloseTemp(w) \/ TempFails(w)
  \/ Rename(w) \/ RenameFails(w)
  \/ Link(w) \/ LinkExists(w) \/ LinkFails(w)
  \/ Claim(w) \/ ClaimFails(w) \/ CloseClaim(w)
  \/ RenameOverClaim(w) \/ FallbackFails(w)
  \/ Return(w)

Next ==
  \/ \E w \in Writers : WriterStep(w) \/ Crash(w)
  \/ \E p \in Path : Settle(p)
  \/ PowerLoss

Spec == Init /\ [][Next]_vars

--------------------------------------------------------------------------------
(* Properties *)

(* No half-written artifact is ever found at its real name, whatever is    *)
(* killed and whenever the power goes (writeTemp's comment, fsio.go 54-58).*)
(* The one exception is the empty claim the fallback leaves at a linkless  *)
(* name; even there nothing ever holds part of a document.                 *)
NoHalfWritten ==
  \A p \in Path : files[p] # Absent =>
    IsWhole(files[p]) \/ (p \in Linkless /\ files[p].body = Empty)

(* Only the writer that claimed a name is about to rename over it, and     *)
(* until then nothing but its own empty claim is there: this is what keeps *)
(* the fallback's rename, which replaces, from clobbering a log entry.     *)
Claiming(w) == pc[w] \in {"closeclaim", "rename"}

ClaimHonoured ==
  /\ \A w \in Writers :
        Claiming(w) =>
          /\ job[w].path \in AppendOnly
          /\ files[job[w].path] # Absent
          /\ files[job[w].path].body = Empty
  /\ \A v, w \in Writers :
        Claiming(v) /\ Claiming(w) /\ job[v].path = job[w].path => v = w

(* Of all the writers that race for one log entry at most one is told it   *)
(* succeeded, and its document is the one at the name.                     *)
OneWinner ==
  \A p \in AppendOnly :
    /\ \A a, b \in acked[p] : a = b
    /\ \A a \in acked[p] : files[p] # Absent /\ files[p].body = a[2]

(* A log entry, once whole, is never overwritten or emptied; only a power  *)
(* loss before its directory entry is on stable media can take it back.    *)
EntryKept == \A p \in AppendOnly : IsWhole(files[p]) => files'[p] = files[p]

AppendOnlyKept == [][PowerLoss \/ EntryKept]_vars

(* Wherever hard links work the package is a set of atomic registers.      *)
Shown(f) == IF f = Absent THEN Absent ELSE f.body

Artifacts == INSTANCE AtomicArtifacts
  WITH AppendOnly <- AppendOnly \ Linkless,
       value      <- [p \in Linked |-> Shown(files[p])],
       stable     <- [p \in Linked |-> Shown(media[p])]

ImplementsAtomicArtifacts == Artifacts!Spec

================================================================================
