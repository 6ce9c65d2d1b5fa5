-------------------------- MODULE ArtifactFiles_proofs --------------------------
(***************************************************************************)
(* Proofs about ArtifactFiles, for any number of writers, names and        *)
(* documents, whichever log entries are on a file system without links.    *)
(***************************************************************************)
EXTENDS ArtifactFiles, TLAPS

--------------------------------------------------------------------------------
(* The inductive invariant *)

HasTemp == {"write", "sync", "close", "bind", "claim", "closeclaim", "rename"}
Filled  == {"sync", "close", "bind", "claim", "closeclaim", "rename"}
Synced  == {"close", "bind", "claim", "closeclaim", "rename"}
OnClaim == {"claim", "closeclaim", "rename"}

(* From the close of the temporary file on, it holds the whole document of *)
(* its writer's job, and holds it on stable media.                         *)
TempInv ==
  \A w \in Writers :
    /\ pc[w] # "idle" => job[w] \in Job
    /\ pc[w] \in HasTemp => tmp[w] \in Inode
    /\ pc[w] \in Filled  => tmp[w].body = job[w].data
    /\ pc[w] \in Synced  => tmp[w].synced

(* What a real name is bound to was synced before it was bound.            *)
NamesInv ==
  \A p \in Path :
    /\ files[p] # Absent => files[p].synced /\ files[p].body # Torn
    /\ media[p] # Absent => media[p].synced /\ media[p].body # Torn

(* Only linkless names are claimed, so every other name is whole.          *)
LinksInv ==
  /\ \A w \in Writers : pc[w] \in OnClaim => job[w].path \in Linkless
  /\ \A p \in Linked : /\ files[p] # Absent => files[p].body \in Data
                       /\ media[p] # Absent => media[p].body \in Data

ClaimInv ==
  /\ \A w \in Writers : pc[w] \in OnClaim => job[w].path \in AppendOnly
  /\ ClaimHonoured

(* A writer about to report success on a log entry owns what is there.     *)
Winning(w) == pc[w] = "ok" /\ job[w].path \in AppendOnly

WinInv ==
  /\ \A w \in Writers :
       Winning(w) => /\ files[job[w].path] # Absent
                     /\ files[job[w].path].body = job[w].data
                     /\ acked[job[w].path] = {}
  /\ \A v, w \in Writers :
       Winning(v) /\ Winning(w) /\ job[v].path = job[w].path => v = w

IInv ==
  /\ TypeOK
  /\ TempInv
  /\ NamesInv
  /\ LinksInv
  /\ ClaimInv
  /\ WinInv
  /\ OneWinner

--------------------------------------------------------------------------------

LEMMA InitIInv == Init => IInv
  BY DistinctMarks DEF Init, IInv, Path, Linked, TypeOK, TempInv, NamesInv, LinksInv, ClaimInv,
     ClaimHonoured, Claiming, WinInv, Winning, OneWinner, Steps, OnClaim, HasTemp, Filled, Synced

LEMMA CreateTempKeeps ==
  ASSUME IInv, NEW w \in Writers, NEW p \in Path, NEW d \in Data, CreateTemp(w, p, d)
  PROVE  IInv'
<1>1. TypeOK'
  BY DEF IInv, TypeOK, TempInv, Filled, HasTemp, Steps, Job, Inode,
    CreateTemp, Path
<1>2. TempInv'
  BY DEF IInv, TypeOK, TempInv, HasTemp, Filled, Synced, Job, Inode,
    CreateTemp, Path
<1>3. NamesInv'
  BY DEF IInv, TypeOK, TempInv, NamesInv, Filled, Synced, Job, CreateTemp,
    Path
<1>4. LinksInv'
  BY DEF IInv, TypeOK, TempInv, LinksInv, Linked, Filled, OnClaim, Job, CreateTemp,
    Path
<1>5. ClaimInv'
  BY DEF IInv, TypeOK, TempInv, ClaimInv, ClaimHonoured, Claiming, OnClaim,
    Job, CreateTemp, Path
<1>6. WinInv'
  BY DEF IInv, TypeOK, TempInv, ClaimInv, ClaimHonoured, Claiming, WinInv,
    Winning, OneWinner, Filled, OnClaim, Job, CreateTemp, Path
<1>7. OneWinner'
  BY DEF IInv, TypeOK, TempInv, ClaimInv, ClaimHonoured, Claiming, WinInv,
    Winning, OneWinner, Job, OnClaim, CreateTemp, Path
<1>. QED  BY <1>1, <1>2, <1>3, <1>4, <1>5, <1>6, <1>7 DEF IInv

LEMMA WriteTempKeeps ==
  ASSUME IInv, NEW w \in Writers, WriteTemp(w)
  PROVE  IInv'
<1>1. TypeOK'
  BY DEF IInv, TypeOK, TempInv, Filled, HasTemp, Steps, Job, Inode, WriteTemp
<1>2. TempInv'
  BY DEF IInv, TypeOK, TempInv, HasTemp, Filled, Synced, Job, Inode, WriteTemp
<1>3. NamesInv'
  BY DEF IInv, TypeOK, TempInv, NamesInv, Filled, Synced, Job, WriteTemp
<1>4. LinksInv'
  BY DEF IInv, TypeOK, TempInv, LinksInv, Linked, Filled, OnClaim, Job, WriteTemp
<1>5. ClaimInv'
  BY DEF IInv, TypeOK, TempInv, ClaimInv, ClaimHonoured, Claiming, OnClaim,
    Job, WriteTemp
<1>6. WinInv'
  BY DEF IInv, TypeOK, TempInv, ClaimInv, ClaimHonoured, Claiming, WinInv,
    Winning, OneWinner, Filled, OnClaim, Job, WriteTemp
<1>7. OneWinner'
  BY DEF IInv, TypeOK, TempInv, ClaimInv, ClaimHonoured, Claiming, WinInv,
    Winning, OneWinner, Job, OnClaim, WriteTemp
<1>. QED  BY <1>1, <1>2, <1>3, <1>4, <1>5, <1>6, <1>7 DEF IInv

LEMMA SyncTempKeeps ==
  ASSUME IInv, NEW w \in Writers, SyncTemp(w)
  PROVE  IInv'
<1>1. TypeOK'
  BY DEF IInv, TypeOK, TempInv, Filled, HasTemp, Steps, Job, Inode, SyncTemp
<1>2. TempInv'
  BY DEF IInv, TypeOK, TempInv, HasTemp, Filled, Synced, Job, Inode, SyncTemp
<1>3. NamesInv'
  BY DEF IInv, TypeOK, TempInv, NamesInv, Filled, Synced, Job, SyncTemp
<1>4. LinksInv'
  BY DEF IInv, TypeOK, TempInv, LinksInv, Linked, Filled, OnClaim, Job, SyncTemp
<1>5. ClaimInv'
  BY DEF IInv, TypeOK, TempInv, ClaimInv, ClaimHonoured, Claiming, OnClaim,
    Job, SyncTemp
<1>6. WinInv'
  BY DEF IInv, TypeOK, TempInv, ClaimInv, ClaimHonoured, Claiming, WinInv,
    Winning, OneWinner, Filled, OnClaim, Job, SyncTemp
<1>7. OneWinner'
  BY DEF IInv, TypeOK, TempInv, ClaimInv, ClaimHonoured, Claiming, WinInv,
    Winning, OneWinner, Job, OnClaim, SyncTemp
<1>. QED  BY <1>1, <1>2, <1>3, <1>4, <1>5, <1>6, <1>7 DEF IInv

LEMMA CloseTempKeeps ==
  ASSUME IInv, NEW w \in Writers, CloseTemp(w)
  PROVE  IInv'
<1>1. TypeOK'
  BY DEF IInv, TypeOK, TempInv, Filled, HasTemp, Steps, Job, Inode, CloseTemp
<1>2. TempInv'
  BY DEF IInv, TypeOK, TempInv, HasTemp, Filled, Synced, Job, Inode, CloseTemp
<1>3. NamesInv'
  BY DEF IInv, TypeOK, TempInv, NamesInv, Filled, Synced, Job, CloseTemp
<1>4. LinksInv'
  BY DEF IInv, TypeOK, TempInv, LinksInv, Linked, Filled, OnClaim, Job, CloseTemp
<1>5. ClaimInv'
  BY DEF IInv, TypeOK, TempInv, ClaimInv, ClaimHonoured, Claiming, OnClaim,
    Job, CloseTemp
<1>6. WinInv'
  BY DEF IInv, TypeOK, TempInv, ClaimInv, ClaimHonoured, Claiming, WinInv,
    Winning, OneWinner, Filled, OnClaim, Job, CloseTemp
<1>7. OneWinner'
  BY DEF IInv, TypeOK, TempInv, ClaimInv, ClaimHonoured, Claiming, WinInv,
    Winning, OneWinner, Job, OnClaim, CloseTemp
<1>. QED  BY <1>1, <1>2, <1>3, <1>4, <1>5, <1>6, <1>7 DEF IInv

LEMMA TempFailsKeeps ==
  ASSUME IInv, NEW w \in Writers, TempFails(w)
  PROVE  IInv'
<1>1. TypeOK'
  BY DEF IInv, TypeOK, TempInv, Filled, HasTemp, Steps, Job, Inode, TempFails
<1>2. TempInv'
  BY DEF IInv, TypeOK, TempInv, HasTemp, Filled, Synced, Job, Inode, TempFails
<1>3. NamesInv'
  BY DEF IInv, TypeOK, TempInv, NamesInv, Filled, Synced, Job, TempFails
<1>4. LinksInv'
  BY DEF IInv, TypeOK, TempInv, LinksInv, Linked, Filled, OnClaim, Job, TempFails
<1>5. ClaimInv'
  BY DEF IInv, TypeOK, TempInv, ClaimInv, ClaimHonoured, Claiming, OnClaim,
    Job, TempFails
<1>6. WinInv'
  BY DEF IInv, TypeOK, TempInv, ClaimInv, ClaimHonoured, Claiming, WinInv,
    Winning, OneWinner, Filled, OnClaim, Job, TempFails
<1>7. OneWinner'
  BY DEF IInv, TypeOK, TempInv, ClaimInv, ClaimHonoured, Claiming, WinInv,
    Winning, OneWinner, Job, OnClaim, TempFails
<1>. QED  BY <1>1, <1>2, <1>3, <1>4, <1>5, <1>6, <1>7 DEF IInv

LEMMA RenameKeeps ==
  ASSUME IInv, NEW w \in Writers, Rename(w)
  PROVE  IInv'
<1>1. TypeOK'
  BY DEF IInv, TypeOK, TempInv, Filled, HasTemp, Steps, Job, Inode, Rename
<1>2. TempInv'
  BY DEF IInv, TypeOK, TempInv, HasTemp, Filled, Synced, Job, Inode, Rename
<1>3. NamesInv'
  BY DistinctMarks DEF IInv, TypeOK, TempInv, NamesInv, Filled, Synced, Job,
    Path, Inode, HasTemp, Rename
<1>4. LinksInv'
  BY DEF IInv, TypeOK, TempInv, LinksInv, Linked, Filled, OnClaim, Job, Rename
<1>5. ClaimInv'
  BY KindsDisjoint, DistinctMarks DEF IInv, TypeOK, TempInv, ClaimInv,
    ClaimHonoured, Claiming, OnClaim, Job, Path, Rename
<1>6. WinInv'
  BY KindsDisjoint, DistinctMarks DEF IInv, TypeOK, TempInv, ClaimInv,
    ClaimHonoured, Claiming, WinInv, Winning, OneWinner, Filled, OnClaim, Job,
    Path, Rename
<1>7. OneWinner'
  BY KindsDisjoint, DistinctMarks DEF IInv, TypeOK, TempInv, ClaimInv,
    ClaimHonoured, Claiming, WinInv, Winning, OneWinner, Job, OnClaim, Path,
    Rename
<1>. QED  BY <1>1, <1>2, <1>3, <1>4, <1>5, <1>6, <1>7 DEF IInv

LEMMA RenameFailsKeeps ==
  ASSUME IInv, NEW w \in Writers, RenameFails(w)
  PROVE  IInv'
<1>1. TypeOK'
  BY DEF IInv, TypeOK, TempInv, Filled, HasTemp, Steps, Job, Inode,
    RenameFails
<1>2. TempInv'
  BY DEF IInv, TypeOK, TempInv, HasTemp, Filled, Synced, Job, Inode,
    RenameFails
<1>3. NamesInv'
  BY DEF IInv, TypeOK, TempInv, NamesInv, Filled, Synced, Job, RenameFails
<1>4. LinksInv'
  BY DEF IInv, TypeOK, TempInv, LinksInv, Linked, Filled, OnClaim, Job, RenameFails
<1>5. ClaimInv'
  BY DEF IInv, TypeOK, TempInv, ClaimInv, ClaimHonoured, Claiming, OnClaim,
    Job, RenameFails
<1>6. WinInv'
  BY DEF IInv, TypeOK, TempInv, ClaimInv, ClaimHonoured, Claiming, WinInv,
    Winning, OneWinner, Filled, OnClaim, Job, RenameFails
<1>7. OneWinner'
  BY DEF IInv, TypeOK, TempInv, ClaimInv, ClaimHonoured, Claiming, WinInv,
    Winning, OneWinner, Job, OnClaim, RenameFails
<1>. QED  BY <1>1, <1>2, <1>3, <1>4, <1>5, <1>6, <1>7 DEF IInv

LEMMA LinkKeeps ==
  ASSUME IInv, NEW w \in Writers, Link(w)
  PROVE  IInv'
<1>1. TypeOK'
  BY DEF IInv, TypeOK, TempInv, Filled, HasTemp, Steps, Job, Inode, Link
<1>2. TempInv'
  BY DEF IInv, TypeOK, TempInv, HasTemp, Filled, Synced, Job, Inode, Link
<1>3. NamesInv'
  BY DistinctMarks DEF IInv, TypeOK, TempInv, NamesInv, Filled, Synced, Job,
    Path, Inode, HasTemp, Link
<1>4. LinksInv'
  BY DEF IInv, TypeOK, TempInv, LinksInv, Linked, Filled, OnClaim, Job, Link
<1>5. ClaimInv'
  BY DEF IInv, TypeOK, TempInv, ClaimInv, ClaimHonoured, Claiming, OnClaim,
    Job, Link
<1>6. WinInv'
  BY DistinctMarks DEF IInv, TypeOK, TempInv, ClaimInv, ClaimHonoured,
    Claiming, WinInv, Winning, OneWinner, Filled, OnClaim, Job, Path, Inode,
    HasTemp, Link
<1>7. OneWinner'
  BY DEF IInv, TypeOK, TempInv, ClaimInv, ClaimHonoured, Claiming, WinInv,
    Winning, OneWinner, Job, OnClaim, Link
<1>. QED  BY <1>1, <1>2, <1>3, <1>4, <1>5, <1>6, <1>7 DEF IInv

LEMMA LinkExistsKeeps ==
  ASSUME IInv, NEW w \in Writers, LinkExists(w)
  PROVE  IInv'
<1>1. TypeOK'
  BY DEF IInv, TypeOK, TempInv, Filled, HasTemp, Steps, Job, Inode, LinkExists
<1>2. TempInv'
  BY DEF IInv, TypeOK, TempInv, HasTemp, Filled, Synced, Job, Inode,
    LinkExists
<1>3. NamesInv'
  BY DEF IInv, TypeOK, TempInv, NamesInv, Filled, Synced, Job, LinkExists
<1>4. LinksInv'
  BY DEF IInv, TypeOK, TempInv, LinksInv, Linked, Filled, OnClaim, Job, LinkExists
<1>5. ClaimInv'
  BY DEF IInv, TypeOK, TempInv, ClaimInv, ClaimHonoured, Claiming, OnClaim,
    Job, LinkExists
<1>6. WinInv'
  BY DEF IInv, TypeOK, TempInv, ClaimInv, ClaimHonoured, Claiming, WinInv,
    Winning, OneWinner, Filled, OnClaim, Job, LinkExists
<1>7. OneWinner'
  BY DEF IInv, TypeOK, TempInv, ClaimInv, ClaimHonoured, Claiming, WinInv,
    Winning, OneWinner, Job, OnClaim, LinkExists
<1>. QED  BY <1>1, <1>2, <1>3, <1>4, <1>5, <1>6, <1>7 DEF IInv

LEMMA LinkFailsKeeps ==
  ASSUME IInv, NEW w \in Writers, LinkFails(w)
  PROVE  IInv'
<1>1. TypeOK'
  BY DEF IInv, TypeOK, TempInv, Filled, HasTemp, Steps, Job, Inode, LinkFails
<1>2. TempInv'
  BY DEF IInv, TypeOK, TempInv, HasTemp, Filled, Synced, Job, Inode, LinkFails
<1>3. NamesInv'
  BY DEF IInv, TypeOK, TempInv, NamesInv, Filled, Synced, Job, LinkFails
<1>4. LinksInv'
  BY DEF IInv, TypeOK, TempInv, LinksInv, Linked, Filled, OnClaim, Job, LinkFails
<1>5. ClaimInv'
  BY LinklessAreEntries DEF IInv, TypeOK, TempInv, ClaimInv, ClaimHonoured, Claiming,
    OnClaim, Job, LinkFails
<1>6. WinInv'
  BY DEF IInv, TypeOK, TempInv, ClaimInv, ClaimHonoured, Claiming, WinInv,
    Winning, OneWinner, Filled, OnClaim, Job, LinkFails
<1>7. OneWinner'
  BY DEF IInv, TypeOK, TempInv, ClaimInv, ClaimHonoured, Claiming, WinInv,
    Winning, OneWinner, Job, OnClaim, LinkFails
<1>. QED  BY <1>1, <1>2, <1>3, <1>4, <1>5, <1>6, <1>7 DEF IInv

LEMMA ClaimKeeps ==
  ASSUME IInv, NEW w \in Writers, Claim(w)
  PROVE  IInv'
<1>1. TypeOK'
  BY DEF IInv, TypeOK, TempInv, Filled, HasTemp, Steps, Job, Inode, Claim
<1>2. TempInv'
  BY DEF IInv, TypeOK, TempInv, HasTemp, Filled, Synced, Job, Inode, Claim
<1>3. NamesInv'
  BY DistinctMarks DEF IInv, TypeOK, TempInv, NamesInv, Filled, Synced, Job,
    Path, Inode, Claim
<1>4. LinksInv'
  BY DEF IInv, TypeOK, TempInv, LinksInv, Linked, Filled, OnClaim, Job, Claim
<1>5. ClaimInv'
  <2>1. /\ job' = job
        /\ \A v \in Writers : v # w => pc'[v] = pc[v]
        /\ pc[w] = "claim" /\ files[job[w].path] = Absent
        /\ job[w] \in Job /\ job[w].path \in AppendOnly
    BY DEF IInv, TypeOK, TempInv, ClaimInv, OnClaim, Claim
  <2>2. files'[job[w].path] # Absent /\ files'[job[w].path].body = Empty
    <3>1. files'[job[w].path] = [body |-> Empty, synced |-> TRUE]
      BY <2>1 DEF Claim, IInv, TypeOK, Job, Path
    <3>2. [body |-> Empty, synced |-> TRUE]
            \in [body : Data \cup {Empty, Torn}, synced : BOOLEAN]
      OBVIOUS
    <3>3. [body |-> Empty, synced |-> TRUE] # Absent
      BY <3>2, DistinctMarks
    <3>. QED
      BY <3>1, <3>3
  <2>3. \A v \in Writers : Claiming(v) => job[v].path # job[w].path
    BY <2>1 DEF IInv, ClaimInv, ClaimHonoured
  <2>4. \A v \in Writers :
          v # w /\ Claiming(v)' =>
            /\ Claiming(v)
            /\ files'[job[v].path] = files[job[v].path]
    BY <2>1, <2>3 DEF Claiming, Claim, IInv, TypeOK
  <2>5. ClaimHonoured'
    BY <2>1, <2>2, <2>3, <2>4 DEF IInv, ClaimInv, ClaimHonoured
  <2>. QED
    BY <2>1, <2>5 DEF IInv, ClaimInv, OnClaim
<1>6. WinInv'
  BY DEF IInv, TypeOK, TempInv, ClaimInv, ClaimHonoured, Claiming, WinInv,
    Winning, OneWinner, Filled, OnClaim, Job, Claim
<1>7. OneWinner'
  BY DEF IInv, TypeOK, TempInv, ClaimInv, ClaimHonoured, Claiming, WinInv,
    Winning, OneWinner, Job, OnClaim, Claim
<1>. QED  BY <1>1, <1>2, <1>3, <1>4, <1>5, <1>6, <1>7 DEF IInv

LEMMA ClaimFailsKeeps ==
  ASSUME IInv, NEW w \in Writers, ClaimFails(w)
  PROVE  IInv'
<1>1. TypeOK'
  BY DEF IInv, TypeOK, TempInv, Filled, HasTemp, Steps, Job, Inode, ClaimFails
<1>2. TempInv'
  BY DEF IInv, TypeOK, TempInv, HasTemp, Filled, Synced, Job, Inode,
    ClaimFails
<1>3. NamesInv'
  BY DEF IInv, TypeOK, TempInv, NamesInv, Filled, Synced, Job, ClaimFails
<1>4. LinksInv'
  BY DEF IInv, TypeOK, TempInv, LinksInv, Linked, Filled, OnClaim, Job, ClaimFails
<1>5. ClaimInv'
  BY DEF IInv, TypeOK, TempInv, ClaimInv, ClaimHonoured, Claiming, OnClaim,
    Job, ClaimFails
<1>6. WinInv'
  BY DEF IInv, TypeOK, TempInv, ClaimInv, ClaimHonoured, Claiming, WinInv,
    Winning, OneWinner, Filled, OnClaim, Job, ClaimFails
<1>7. OneWinner'
  BY DEF IInv, TypeOK, TempInv, ClaimInv, ClaimHonoured, Claiming, WinInv,
    Winning, OneWinner, Job, OnClaim, ClaimFails
<1>. QED  BY <1>1, <1>2, <1>3, <1>4, <1>5, <1>6, <1>7 DEF IInv

LEMMA CloseClaimKeeps ==
  ASSUME IInv, NEW w \in Writers, CloseClaim(w)
  PROVE  IInv'
<1>1. TypeOK'
  BY DEF IInv, TypeOK, TempInv, Filled, HasTemp, Steps, Job, Inode, CloseClaim
<1>2. TempInv'
  BY DEF IInv, TypeOK, TempInv, HasTemp, Filled, Synced, Job, Inode,
    CloseClaim
<1>3. NamesInv'
  BY DEF IInv, TypeOK, TempInv, NamesInv, Filled, Synced, Job, CloseClaim
<1>4. LinksInv'
  BY DEF IInv, TypeOK, TempInv, LinksInv, Linked, Filled, OnClaim, Job, CloseClaim
<1>5. ClaimInv'
  BY DEF IInv, TypeOK, TempInv, ClaimInv, ClaimHonoured, Claiming, OnClaim,
    Job, CloseClaim
<1>6. WinInv'
  BY DEF IInv, TypeOK, TempInv, ClaimInv, ClaimHonoured, Claiming, WinInv,
    Winning, OneWinner, Filled, OnClaim, Job, CloseClaim
<1>7. OneWinner'
  BY DEF IInv, TypeOK, TempInv, ClaimInv, ClaimHonoured, Claiming, WinInv,
    Winning, OneWinner, Job, OnClaim, CloseClaim
<1>. QED  BY <1>1, <1>2, <1>3, <1>4, <1>5, <1>6, <1>7 DEF IInv

LEMMA RenameOverClaimKeeps ==
  ASSUME IInv, NEW w \in Writers, RenameOverClaim(w)
  PROVE  IInv'
<1>1. TypeOK'
  BY DEF IInv, TypeOK, TempInv, Filled, HasTemp, Steps, Job, Inode,
    RenameOverClaim
<1>2. TempInv'
  BY DEF IInv, TypeOK, TempInv, HasTemp, Filled, Synced, Job, Inode,
    RenameOverClaim
<1>3. NamesInv'
  BY DistinctMarks DEF IInv, TypeOK, TempInv, NamesInv, Filled, Synced, Job,
    Path, Inode, HasTemp, RenameOverClaim
<1>4. LinksInv'
  BY DEF IInv, TypeOK, TempInv, LinksInv, Linked, Filled, OnClaim, Job,
    RenameOverClaim
<1>5. ClaimInv'
  BY DEF IInv, TypeOK, TempInv, ClaimInv, ClaimHonoured, Claiming, OnClaim,
    Job, RenameOverClaim
<1>6. WinInv'
  BY DistinctMarks DEF IInv, TypeOK, TempInv, ClaimInv, ClaimHonoured,
    Claiming, WinInv, Winning, OneWinner, Filled, OnClaim, Job, Path, Inode,
    HasTemp, RenameOverClaim
<1>7. OneWinner'
  BY DistinctMarks DEF IInv, TypeOK, TempInv, ClaimInv, ClaimHonoured,
    Claiming, WinInv, Winning, OneWinner, Job, OnClaim, Path, Inode, HasTemp,
    RenameOverClaim
<1>. QED  BY <1>1, <1>2, <1>3, <1>4, <1>5, <1>6, <1>7 DEF IInv

LEMMA FallbackFailsKeeps ==
  ASSUME IInv, NEW w \in Writers, FallbackFails(w)
  PROVE  IInv'
<1>1. TypeOK'
  BY DEF IInv, TypeOK, TempInv, Filled, HasTemp, Steps, Job, Inode,
    FallbackFails
<1>2. TempInv'
  BY DEF IInv, TypeOK, TempInv, HasTemp, Filled, Synced, Job, Inode,
    FallbackFails
<1>3. NamesInv'
  BY DEF IInv, TypeOK, TempInv, NamesInv, Filled, Synced, Job, FallbackFails
<1>4. LinksInv'
  BY DEF IInv, TypeOK, TempInv, LinksInv, Linked, Filled, OnClaim, Job, FallbackFails
<1>5. ClaimInv'
  BY DEF IInv, TypeOK, TempInv, ClaimInv, ClaimHonoured, Claiming, OnClaim,
    Job, FallbackFails
<1>6. WinInv'
  BY DEF IInv, TypeOK, TempInv, ClaimInv, ClaimHonoured, Claiming, WinInv,
    Winning, OneWinner, Filled, OnClaim, Job, FallbackFails
<1>7. OneWinner'
  BY DEF IInv, TypeOK, TempInv, ClaimInv, ClaimHonoured, Claiming, WinInv,
    Winning, OneWinner, Job, OnClaim, FallbackFails
<1>. QED  BY <1>1, <1>2, <1>3, <1>4, <1>5, <1>6, <1>7 DEF IInv

LEMMA ReturnKeeps ==
  ASSUME IInv, NEW w \in Writers, Return(w)
  PROVE  IInv'
<1>1. TypeOK'
  BY DEF IInv, TypeOK, TempInv, Filled, HasTemp, Steps, Job, Inode, Return
<1>2. TempInv'
  BY DEF IInv, TypeOK, TempInv, HasTemp, Filled, Synced, Job, Inode, Return
<1>3. NamesInv'
  BY DEF IInv, TypeOK, TempInv, NamesInv, Filled, Synced, Job, Return
<1>4. LinksInv'
  BY DEF IInv, TypeOK, TempInv, LinksInv, Linked, Filled, OnClaim, Job, Return
<1>5. ClaimInv'
  BY DEF IInv, TypeOK, TempInv, ClaimInv, ClaimHonoured, Claiming, OnClaim,
    Job, Return
<1>6. WinInv'
  BY DEF IInv, TypeOK, TempInv, ClaimInv, ClaimHonoured, Claiming, WinInv,
    Winning, OneWinner, Filled, OnClaim, Job, Return
<1>7. OneWinner'
  BY DEF IInv, TypeOK, TempInv, ClaimInv, ClaimHonoured, Claiming, WinInv,
    Winning, OneWinner, Job, OnClaim, Return
<1>. QED  BY <1>1, <1>2, <1>3, <1>4, <1>5, <1>6, <1>7 DEF IInv

LEMMA CrashKeeps ==
  ASSUME IInv, NEW w \in Writers, Crash(w)
  PROVE  IInv'
<1>1. TypeOK'
  BY DEF IInv, TypeOK, TempInv, Filled, HasTemp, Steps, Job, Inode, Crash
<1>2. TempInv'
  BY DEF IInv, TypeOK, TempInv, HasTemp, Filled, Synced, Job, Inode, Crash
<1>3. NamesInv'
  BY DEF IInv, TypeOK, TempInv, NamesInv, Filled, Synced, Job, Crash
<1>4. LinksInv'
  BY DEF IInv, TypeOK, TempInv, LinksInv, Linked, Filled, OnClaim, Job, Crash
<1>5. ClaimInv'
  BY DEF IInv, TypeOK, TempInv, ClaimInv, ClaimHonoured, Claiming, OnClaim,
    Job, Crash
<1>6. WinInv'
  BY DEF IInv, TypeOK, TempInv, ClaimInv, ClaimHonoured, Claiming, WinInv,
    Winning, OneWinner, Filled, OnClaim, Job, Crash
<1>7. OneWinner'
  BY DEF IInv, TypeOK, TempInv, ClaimInv, ClaimHonoured, Claiming, WinInv,
    Winning, OneWinner, Job, OnClaim, Crash
<1>. QED  BY <1>1, <1>2, <1>3, <1>4, <1>5, <1>6, <1>7 DEF IInv

LEMMA SettleKeeps ==
  ASSUME IInv, NEW p \in Path, Settle(p)
  PROVE  IInv'
<1>1. TypeOK'
  BY DEF IInv, TypeOK, Settle
<1>2. TempInv' /\ ClaimInv' /\ WinInv' /\ OneWinner'
  BY DEF IInv, TempInv, ClaimInv, ClaimHonoured, Claiming, WinInv, Winning,
    OneWinner, Settle
<1>3. NamesInv' /\ LinksInv'
  BY DEF IInv, TypeOK, NamesInv, LinksInv, Settle
<1>. QED  BY <1>1, <1>2, <1>3 DEF IInv

(* Everything a real name was bound to had been synced, so a power loss    *)
(* loses names but no bytes.                                               *)
LEMMA PowerLossKeepsBytes ==
  ASSUME IInv, PowerLoss
  PROVE  files' = media /\ media' = media
<1>1. \A p \in Path : AfterPowerLoss(media[p]) = media[p]
  BY DEF IInv, NamesInv, AfterPowerLoss
<1>2. media = [p \in Path |-> media[p]]
  BY DEF IInv, TypeOK
<1>. QED  BY <1>1, <1>2 DEF PowerLoss

LEMMA PowerLossKeeps ==
  ASSUME IInv, PowerLoss
  PROVE  IInv'
<1>. USE PowerLossKeepsBytes
<1>1. TypeOK'
  BY DEF IInv, TypeOK, PowerLoss, Steps
<1>2. TempInv' /\ ClaimInv' /\ WinInv' /\ OneWinner'
  BY DEF TempInv, ClaimInv, ClaimHonoured, Claiming, WinInv, Winning,
    OneWinner, PowerLoss, HasTemp, Filled, Synced, OnClaim
<1>3. NamesInv' /\ LinksInv'
  BY DEF IInv, NamesInv, LinksInv, OnClaim, PowerLoss
<1>. QED  BY <1>1, <1>2, <1>3 DEF IInv

LEMMA NextIInv == IInv /\ [Next]_vars => IInv'
<1>. SUFFICES ASSUME IInv, [Next]_vars  PROVE IInv'
  OBVIOUS
<1>1. ASSUME NEW w \in Writers, WriterStep(w)  PROVE IInv'
  BY <1>1, CreateTempKeeps, WriteTempKeeps, SyncTempKeeps, CloseTempKeeps,
    TempFailsKeeps, RenameKeeps, RenameFailsKeeps, LinkKeeps, LinkExistsKeeps,
    LinkFailsKeeps, ClaimKeeps, ClaimFailsKeeps, CloseClaimKeeps,
    RenameOverClaimKeeps, FallbackFailsKeeps, ReturnKeeps DEF WriterStep
<1>2. ASSUME NEW w \in Writers, Crash(w)  PROVE IInv'
  BY <1>2, CrashKeeps
<1>3. ASSUME NEW p \in Path, Settle(p)  PROVE IInv'
  BY <1>3, SettleKeeps
<1>4. CASE PowerLoss
  BY <1>4, PowerLossKeeps
<1>5. CASE UNCHANGED vars
  BY <1>5 DEF vars, IInv, TypeOK, TempInv, NamesInv, LinksInv, ClaimInv,
    ClaimHonoured, Claiming, WinInv, Winning, OneWinner
<1>. QED  BY <1>1, <1>2, <1>3, <1>4, <1>5 DEF Next

LEMMA Inductive == Spec => []IInv
  BY InitIInv, NextIInv, PTL DEF Spec

--------------------------------------------------------------------------------
(* The theorems *)

(* Every variable keeps its type. *)
THEOREM TypeCorrect == Spec => []TypeOK
  BY Inductive, PTL DEF IInv

(* Whatever is killed and whenever the power goes, a real name holds       *)
(* nothing, a whole document or, only where os.Link may fail with another  *)
(* error than ErrExist, an empty claim: writeTemp syncs before anything is *)
(* bound.                                                                  *)
THEOREM NeverHalfWritten == Spec => []NoHalfWritten
<1>1. IInv => NoHalfWritten
  BY DEF IInv, TypeOK, NamesInv, LinksInv, NoHalfWritten, IsWhole, Linked, Inode
<1>. QED  BY <1>1, Inductive, PTL

(* A claim stays its writer's own until that writer renames over it.       *)
THEOREM ClaimsHonoured == Spec => []ClaimHonoured
<1>1. IInv => ClaimHonoured
  BY DEF IInv, ClaimInv
<1>. QED  BY <1>1, Inductive, PTL

(* At most one writer of a log entry is told it succeeded.                 *)
THEOREM WinnerUnique == Spec => []OneWinner
  BY Inductive, PTL DEF IInv

(* On either route, no step but a power loss changes a whole log entry.    *)
THEOREM EntriesKept == Spec => AppendOnlyKept
<1>1. IInv /\ [Next]_vars => [PowerLoss \/ EntryKept]_vars
  <2>. SUFFICES ASSUME IInv, Next, ~PowerLoss,
                       NEW p \in AppendOnly, IsWhole(files[p])
                PROVE  files'[p] = files[p]
    BY DEF EntryKept
  <2>1. ASSUME NEW w \in Writers, Rename(w)  PROVE files'[p] = files[p]
    BY <2>1, KindsDisjoint DEF Rename, IInv, TypeOK, Path
  <2>2. ASSUME NEW w \in Writers, Link(w)  PROVE files'[p] = files[p]
    BY <2>2 DEF Link, IInv, TypeOK, Path, IsWhole
  <2>3. ASSUME NEW w \in Writers, Claim(w)  PROVE files'[p] = files[p]
    BY <2>3 DEF Claim, IInv, TypeOK, Path, IsWhole
  <2>4. ASSUME NEW w \in Writers, RenameOverClaim(w)
        PROVE  files'[p] = files[p]
    <3>1. files[job[w].path].body = Empty /\ Empty \notin Data
      BY <2>4, DistinctMarks DEF RenameOverClaim, IInv, ClaimInv,
        ClaimHonoured, Claiming
    <3>2. p # job[w].path
      BY <3>1 DEF IsWhole
    <3>. QED
      BY <2>4, <3>2 DEF RenameOverClaim, IInv, TypeOK, Path
  <2>5. ASSUME files' = files  PROVE files'[p] = files[p]
    BY <2>5
  <2>. QED
    BY <2>1, <2>2, <2>3, <2>4, <2>5 DEF Next, WriterStep, CreateTemp,
      WriteTemp, SyncTemp, CloseTemp, TempFails, RenameFails, LinkExists,
      LinkFails, ClaimFails, CloseClaim, FallbackFails, Return, Crash, Settle
<1>. QED  BY <1>1, Inductive, PTL DEF Spec, AppendOnlyKept

--------------------------------------------------------------------------------
(* The refinement *)

ShownFiles == [p \in Linked |-> Shown(files[p])]
ShownMedia == [p \in Linked |-> Shown(media[p])]

(* Binding a temporary file to a linkable name shows its writer's document *)
(* there; binding anything to a linkless name shows nothing.               *)
LEMMA BindShown ==
  ASSUME IInv, NEW w \in Writers, job[w] \in Job, tmp[w] \in Inode,
         tmp[w].body = job[w].data, job[w].path \in Linked,
         files' = [files EXCEPT ![job[w].path] = tmp[w]]
  PROVE  ShownFiles' = [ShownFiles EXCEPT ![job[w].path] = job[w].data]
<1>1. tmp[w] # Absent
  BY DistinctMarks DEF Inode
<1>2. files'[job[w].path] = tmp[w]
  BY DEF IInv, TypeOK, Job
<1>3. Shown(files'[job[w].path]) = job[w].data
  BY <1>1, <1>2 DEF Shown
<1>4. \A p \in Path : p # job[w].path => files'[p] = files[p]
  BY DEF IInv, TypeOK, Job
<1>5. \A p \in Linked : Shown(files'[p]) =
        IF p = job[w].path THEN job[w].data ELSE Shown(files[p])
  BY <1>3, <1>4 DEF Linked
<1>6. ShownFiles' = [p \in Linked |-> Shown(files'[p])]
  BY DEF ShownFiles
<1>7. ShownFiles' = [p \in Linked |->
        IF p = job[w].path THEN job[w].data ELSE Shown(files[p])]
  BY <1>5, <1>6
<1>. QED  BY <1>7 DEF ShownFiles

LEMMA LinklessUnseen ==
  ASSUME IInv, NEW q \in Linkless, NEW f,
         files' = [files EXCEPT ![q] = f]
  PROVE  ShownFiles' = ShownFiles
<1>1. \A p \in Linked : files'[p] = files[p]
  BY DEF IInv, TypeOK, Linked
<1>. QED  BY <1>1 DEF ShownFiles

LEMMA AbstractPath ==
  ASSUME TRUE
  PROVE  Artifacts!Path = Linked
BY LinklessAreEntries, KindsDisjoint DEF Artifacts!Path, Linked, Path

(* On the names where links do not fail, store/fsio.go implements atomic   *)
(* registers: a rename is a Put, a link is a PutNew, and every other step, *)
(* those of the fallback included, changes nothing a reader of them sees.  *)
THEOREM Implementation == Spec => ImplementsAtomicArtifacts
<1>. USE AbstractPath
<1>1. Init => Artifacts!Init
  BY DEF Init, Artifacts!Init, Linked, Shown
<1>2. IInv /\ [Next]_vars => [Artifacts!Next]_<<ShownFiles, ShownMedia>>
  <2>. SUFFICES ASSUME IInv, [Next]_vars
                PROVE  Artifacts!Next \/ UNCHANGED <<ShownFiles, ShownMedia>>
    OBVIOUS
  <2>0. ASSUME media' = media  PROVE ShownMedia' = ShownMedia
    BY <2>0 DEF ShownMedia
  <2>1. ASSUME NEW w \in Writers, Rename(w)  PROVE Artifacts!Next
    <3>1. /\ job[w] \in Job /\ tmp[w] \in Inode /\ tmp[w].body = job[w].data
          /\ files' = [files EXCEPT ![job[w].path] = tmp[w]]
          /\ media' = media /\ job[w].path \in Mutable
      BY <2>1 DEF Rename, IInv, TempInv, HasTemp, Filled
    <3>2. job[w].path \in Linked
      BY <3>1, LinklessAreEntries, KindsDisjoint DEF Linked, Path
    <3>3. ShownFiles' = [ShownFiles EXCEPT ![job[w].path] = job[w].data]
      BY <3>1, <3>2, BindShown
    <3>4. Artifacts!Put(job[w].path, job[w].data)
      BY <3>1, <3>3 DEF Artifacts!Put, ShownFiles
    <3>. QED
      BY <2>0, <3>1, <3>2, <3>4 DEF Artifacts!Next, Job, ShownMedia
  <2>2. ASSUME NEW w \in Writers, Link(w)
        PROVE  Artifacts!Next \/ UNCHANGED <<ShownFiles, ShownMedia>>
    <3>1. /\ job[w] \in Job /\ tmp[w] \in Inode /\ tmp[w].body = job[w].data
          /\ files' = [files EXCEPT ![job[w].path] = tmp[w]]
          /\ media' = media /\ job[w].path \in AppendOnly
          /\ files[job[w].path] = Absent
      BY <2>2 DEF Link, IInv, TempInv, HasTemp, Filled
    <3>2. CASE job[w].path \in Linkless
      BY <2>0, <3>1, <3>2, LinklessUnseen
    <3>3. CASE job[w].path \in Linked
      <4>1. ShownFiles' = [ShownFiles EXCEPT ![job[w].path] = job[w].data]
        BY <3>1, <3>3, BindShown
      <4>2. job[w].path \in AppendOnly \ Linkless
        BY <3>1, <3>3 DEF Linked
      <4>3. Artifacts!PutNew(job[w].path, job[w].data)
        BY <3>1, <3>3, <4>1, <4>2 DEF Artifacts!PutNew, ShownFiles, Shown
      <4>. QED
        BY <2>0, <3>1, <3>3, <4>3 DEF Artifacts!Next, Job, ShownMedia
    <3>. QED  BY <3>1, <3>2, <3>3 DEF Linked, Path
  <2>3. ASSUME NEW p \in Path, Settle(p)
        PROVE  Artifacts!Next \/ UNCHANGED <<ShownFiles, ShownMedia>>
    <3>1. /\ files' = files /\ media' = [media EXCEPT ![p] = files[p]]
          /\ media \in [Path -> Inode \cup {Absent}]
      BY <2>3 DEF Settle, IInv, TypeOK
    <3>2. ShownFiles' = ShownFiles
      BY <3>1 DEF ShownFiles
    <3>3. CASE p \in Linkless
      <4>1. \A q \in Linked : media'[q] = media[q]
        BY <3>1, <3>3 DEF Linked
      <4>. QED  BY <3>2, <4>1 DEF ShownMedia
    <3>4. CASE p \in Linked
      <4>1. ShownMedia' = [ShownMedia EXCEPT ![p] = Shown(files[p])]
        BY <3>1 DEF ShownMedia, Linked
      <4>2. Artifacts!Settle(p)
        BY <3>2, <3>4, <4>1 DEF Artifacts!Settle, ShownFiles, ShownMedia
      <4>. QED  BY <3>4, <4>2 DEF Artifacts!Next
    <3>. QED  BY <3>3, <3>4 DEF Linked
  <2>4. ASSUME PowerLoss  PROVE Artifacts!Next
    <3>1. ShownFiles' = ShownMedia /\ ShownMedia' = ShownMedia
      BY <2>4, PowerLossKeepsBytes DEF ShownFiles, ShownMedia
    <3>. QED
      BY <3>1 DEF Artifacts!Next, Artifacts!PowerLoss, ShownFiles, ShownMedia
  <2>5. ASSUME NEW w \in Writers, Claim(w) \/ RenameOverClaim(w)
        PROVE  UNCHANGED <<ShownFiles, ShownMedia>>
    <3>1. job[w].path \in Linkless
      BY <2>5 DEF IInv, LinksInv, OnClaim, Claim, RenameOverClaim
    <3>2. media' = media
      BY <2>5 DEF Claim, RenameOverClaim
    <3>3. ASSUME Claim(w)  PROVE ShownFiles' = ShownFiles
      BY <3>1, <3>3, LinklessUnseen DEF Claim
    <3>4. ASSUME RenameOverClaim(w)  PROVE ShownFiles' = ShownFiles
      BY <3>1, <3>4, LinklessUnseen DEF RenameOverClaim
    <3>. QED  BY <2>0, <2>5, <3>2, <3>3, <3>4
  <2>6. ASSUME files' = files /\ media' = media
        PROVE  UNCHANGED <<ShownFiles, ShownMedia>>
    BY <2>6 DEF ShownFiles, ShownMedia
  <2>. QED
    BY <2>1, <2>2, <2>3, <2>4, <2>5, <2>6 DEF Next, WriterStep, CreateTemp,
      WriteTemp, SyncTemp, CloseTemp, TempFails, RenameFails, LinkExists,
      LinkFails, ClaimFails, CloseClaim, FallbackFails, Return, Crash, vars
<1>. QED
  BY <1>1, <1>2, Inductive, PTL
    DEF Spec, ImplementsAtomicArtifacts, Artifacts!Spec, ShownFiles, ShownMedia

================================================================================
