# A verification project for Atrio

Atrio keeps the management of a software project (tasks, decisions, a log,
changelogs, flow progress, a configuration) as JSON files beside its code, an
index of its documents and a few ephemeral tables in a local SQLite database,
and the rules of that management in a pure domain package. This directory
models the parts of it that keep state or decide about it in TLA+, checks them
on small instances with TLC, and proves the results that matter most with
TLAPS. All paths below are relative to the repository.

Contents: [the system](#the-system) ·
[modules](#modules-and-how-they-correspond-to-the-code) ·
[runs](#runs) · [proofs](#proofs) · [findings](#findings) ·
[limits](#what-is-not-modelled-and-what-is-only-checked) · [plan](#plan)

## The system

| Part | State | Operations | What is hard | What makes it correct |
|---|---|---|---|---|
| File writes (`store/fsio.go`) | the file at each artifact's name, stray temporary files | `writeReplacing`, `writeNew` | crashes between system calls, file systems without hard links, power loss before data is on disk, writers racing for a log entry | a name holds nothing or a whole document; one winner per log entry, whose entry nobody overwrites |
| Repository (`store/repository.go`, `refs.go`, `project_config.go`, `agents.go` and the wrappers per kind) | the artifacts, the project configuration, the roster of agents | create, update, write singleton, read, list | read-modify-write without a lock, references looked up one by one, the claim a killed writer leaves | id, creation time and creator survive; checked references resolve; `artifactLanguage` does not change; no two agents share a name |
| Ids (`store/ulid.go`) | the last millisecond and entropy | `next` | the clock is read outside the lock and may be set back; the entropy of a millisecond runs out | ids sort in creation order, with two exceptions |
| Task rules (`core/task.go`, `environment.go`) | none (values) | `NewTask`, `ApplyTransition`, `EnterEnvironment`, `ValidateTaskUpdate` | long sequences of moves, overwrites that change several fields at once | the trail is a walk through the graph, blockers and closure environments are honoured, the end is final |
| Decisions (`core/decision.go`) | none (values) | `ValidateDecisionUpdate` | sequences of versions | contents never change, superseding is final and named |
| Journal (`core/log.go`) | the arrays its slices lie in, the exit codes its entries point at | `Append`, `Entries`, `Len` | slices that share an array, copies that share a pointer | a log keeps its entries, whatever is derived from it |
| Local database (`store/localdb.go`, `localdb.sql`) | the file, its generation and tables; handles | `OpenLocalDB`, `Reset`, `Close` | several processes rebuild at once, a kill in mid-bootstrap or between the removals, a pool that opens by name | the generation can be trusted; one database per project |
| Document index (`store/documentindex.go`) | the document tables, notifications about documents | `Reindex`, `DocumentsByTag`, `SearchDocuments`, `Issues` | files change while a run reads them, runs overlap, the commit and the notifications are two steps | the index is a function of the corpus, every document is indexed or marked, readers see whole indexes |
| Notifications (`store/notification.go`) | the notification table | `Notify`, `MarkRead`, `List` | batches, retries, text order of timestamps | a batch is marked whole, the first reading counts, the order is total |
| Front matter (`store/frontmatter.go`) | none | `parseFrontMatter` | line endings, a tree to be walked to its leaves | nothing of a file is lost; exactly the plain subset is accepted |
| Schema validation (`store/validate.go`, `errors.go`, `schemas/`) | compiled schemas | `validate` | a library's tree of causes, with causes that follow from others | the fields named are the ones to repair |
| Git (`gitops/`) | none | locate, `Status`, `Identity`, `LastEditor` | the output of a process, two runs with a user in between, exit codes | a status is read as the one report that prints that way; answers are whole |
| Command line, portal, flows, providers, web | none yet | a version string; package comments | | |

How they interact: the repository writes its files through `fsio.go`, takes ids
from `ulid.go` and the creator from git's identity. The indexer reads `docs/`,
resolves relations against the repository's artifacts, writes its tables and
notifications into the local database and asks git for attribution. The domain
rules of `core/` are pure: the callers that will store what they accept are not
written yet. There are no locks in the code: goroutines and processes meet only
in the file system (one atomic system call at a time), in SQLite (one write
transaction at a time, because `_txlock=immediate`) and in the lock of the id
reader. Those are exactly the steps of the models.

`PROJECT.json` lists the hazards this leads to, each at its line, with the
properties that would catch it.

## Modules and how they correspond to the code

| Module | Models | State | Actions |
|---|---|---|---|
| `AtomicArtifacts` | what `fsio.go` promises | value and stable value of each name | `Put`, `PutNew`, `Settle`, `PowerLoss` |
| `ArtifactFiles` | `fsio.go`, a step per system call | each writer's program counter, job and temporary file; the file at each name now and after a power loss | `CreateTemp` … `Return`, a failing variant of every call, `Crash`, `Settle`, `PowerLoss` |
| `Repository` | `repository.go`, `refs.go`, `project_config.go`, `agents.go` over the registers of `AtomicArtifacts` | clock, disk, each call's stamped document and pending look-ups | `Tick`, `StepBack`, `BeginCreate`, `BeginUpdate`, `WriteProjectConfig`, `WriteAgents`, `LookUp`, `Write`, `Claim`, `WriteOverClaim`, `End` |
| `TaskRules` | the functions of `task.go` and `environment.go` | | |
| `TaskLifecycle` | one task moved by the domain operations | the task | `ApplyTransition`, `EnterEnvironment`, `Assign` |
| `TaskUpdates` | one stored task overwritten by anything the gate accepts | the task | `UpdateTask` |
| `DecisionRules` | `ValidateDecisionUpdate` | | |
| `DecisionRecord` | decisions and their versions | the decisions | `RecordDecision`, `UpdateDecision` |
| `Journal` | `Log` on the memory of its slices, with a caller that keeps every log, writes into every slice it is given and through the pointers of its entries | arrays, the integers pointed at, logs, slices handed out | `DeriveLog`, `TakeEntries`, `Scribble`, `Extend`, `WriteExitCode` |
| `IdGenerator` | `next()` over an external monotonic reader | clock, reader, calls under way, the ids in the order they were given out | `Tick`, `StepBack`, `ReadClock`, `NewId`, `Overflow` |
| `LocalDB` | opening, rebuilding, resetting | the path, whose sidecars lie beside it, the files torn from theirs, each file's generation, tables and lock, each process's call, connection, handle and pool | a step per statement or system call, each of the three removals among them, `PoolConnect`, `Fail`, `Crash` |
| `IndexRegister` | what the index promises its readers | the index | `Rebuild` |
| `DocumentRules` | the phases of `Reindex` as functions | | |
| `DocumentIndex` | `Reindex` run by several processes over a changing project | the corpus, the tables, each run's memory | `Walk`, `Read`, `Group`, `Check`, `Begin`, `Commit`, `Notify`, `Return`, `Abort`, and the edits |
| `IndexTables` | the transaction of a `Reindex`, statement by statement over the keyed tables, their cascade and trigger | committed tables, the open transaction and the set of statements it has still to execute, in the order `write` gives them | `Begin`, `Execute`, `Commit`, `Fail` |
| `DocumentQueries` | `DocumentsByTag` against these transactions | each reader's hits | `SelectRows`, `LoadTags`, `LoadRelations`, `Reindex` |
| `Notifications` | the table used by several callers; `List(f)`, one SELECT, as a function of the committed rows | the rows, the write lock, each `MarkRead` | `Notify`, `BeginMark`, `Update`, `CommitMark`, `RollbackMark` |
| `FrontMatter` | `parseFrontMatter`: the split of a file, then the two walks over the tree the decoder makes of its block | lines left, the block, what it holds, the nodes a walk has still to visit, the verdict and its reason | `Open`, `Scan`, `ParseYAML`, `RejectUnsupported`, `RejectNonStringKeys` |
| `SchemaErrors` | `validate.go`: the walk down the tree of causes a document gives rise to, and the errors of its leaves | the document, the causes pending, the leaves, the errors to go through and those told | `Validate`, `SplitCauses`, `Explain`, `Report`, `Explained` |
| `GitStatus` | `parsePorcelainV1Z`, a token at a time | position, entries, verdict | `ParseToken`, `Reject`, `Finish` |
| `GitCalls` | `LocateNamed`, `LastEditor`, `Identity`, with a user who configures and commits meanwhile | git's configuration and history, the call | `Locate`, `NotFound`, `LastEditor`, `ReadName`, `ReadEmail`; `Configure`, `Commit` |

Each `MC…` module extends the modules it is named for and supplies values.
`MCCore` extends the four modules about the values of package `core`, and
`MCLeaves` puts the parts that call no other one beside each other: these
subjects share no state, so that a behaviour picks one of them and leaves the
others alone, and one run checks them all. Each `…_proofs` module extends the
modules it is named for and holds their theorems: `CoreRules_proofs` those of
`TaskLifecycle`, `TaskUpdates`, `DecisionRecord` and `Journal`, `Leaves_proofs`
those of `IdGenerator`, `GitStatus`, `GitCalls`, `FrontMatter` and
`SchemaErrors`, `DocumentQueries_proofs` also those of `IndexTables`, every
other one those of one module. No definition is recursive: where the code
recurses, over the nodes of a block or the causes of a failure, a step makes one
call, and a variable holds the calls that are still to be made. An operator whose
comment describes a mistaken program (a sync that is skipped, a link that
replaces) stands just before the operator it would spoil: it is used by nothing
except `mutants` in `PROJECT.json`, where each property is shown to fail when
the mistaken operator takes the place of the faithful one.

Choices that are not visible in the definitions:

- *Files are inodes.* `ArtifactFiles` keeps for each name the inode now and the
  inode a power loss would bring back. `Settle` lets the kernel write a
  directory entry at any time, since the package never syncs one; unsynced
  bytes come back as `Torn`. A crash of a process loses only its memory.
- *Linkless names.* `writeNew` falls back to creating the name empty and
  renaming over it where hard links fail for another reason than an existing
  name. `Linkless` is the set of the log entries' names on such file systems;
  at every other name a link fails only because the name exists. One model
  with names of both kinds says what each kind gets.
- *Callers that take turns.* The code leaves mutual exclusion to its callers
  (`repository.go` 92-105, `localdb.go` 72-74). `Serialized` in `Repository` is
  the set of files whose calls do not overlap, and `exclusive` in `LocalDB`,
  chosen initially, says whether calls on the database do; the properties that
  need it name it as their premise, the others hold without.
- *One step per write in `Repository`.* Reading and writing a file are single
  steps there, which `ImplementsAtomicArtifacts` justifies where hard links
  exist, and `Write` is built from the abstract module's `Put` and `PutNew`.
  The exception is a log entry where links fail: `Claim` and `WriteOverClaim` are
  the two steps of its fallback, and a call that ends between them leaves the
  empty claim. `End` covers every error return at once: an error before the write
  changes nothing, one after it leaves the write in place.
- *Data that no rule reads* is left out: who moved a task and why, the titles
  and bodies of documents, attribution. Schema validation, which may reject any
  document, is part of `End` and of the valid inputs.
- *Time as text.* `Notifications` models `formatTimestamp` by what it does: a
  fraction loses its trailing zeros and is compared as text.
- *Bytes as lines, outputs as texts.* `FrontMatter` sees a file as its lines, a
  flag for a carriage return on each, and the number of byte order marks;
  `GitStatus` sees an output as the texts between its NULs, each known by whether
  it can be read as a status line. A YAML tree is the sequence of its nodes in
  the order of the text, with the decoder's tags and the positions of each
  node's content; which trees a block may decode to is a constant. A walk visits
  the first pending node, which is the order of the recursion of
  `rejectUnsupportedYAML`; that of `rejectNonStringKeys` goes by sorted keys, and
  only the place it names could tell.
- *Orders without weights.* Rows of a rebuild and hits of a query are ordered by
  their path, a rank; releases of git are compared number by number. A
  definition that sorts says what a sorted sequence is and chooses one.
- *Causes as a tree.* `SchemaErrors` builds the tree of causes that the shape
  shared by all the artifact schemas gives rise to: the envelope under `allOf`,
  the fields of the artifact, and `unevaluatedProperties`, which refuses whatever
  a failed branch would have accounted for. Two causes alike but for the branch
  of the schema they come from are two; the causes of one cause are a set, whose
  order nothing depends on.
- *One call per behaviour in `GitCalls`.* No call leaves anything behind, so
  that one call among all the changes of a user is the general case.
- *The wall clock may be set back* in `Repository` and `IdGenerator`, where
  properties compare times; those name it as an exception. `Notifications`
  orders rows by their times whatever order they came in, so that there a clock
  that moves forward, read with the insert, shows the same rows. The id is drawn
  and the clock read some statements before the insert (203, 207, 210), which no
  property depends on.
- *Sidecars of SQLite* are found by name, as the removals of `LocalDB` find
  them. A file that loses its log or index while it can still be opened, or that
  takes over those of the file before it, is *torn*: anything may be read from
  it, its lock protects nothing and DDL may succeed or fail. A file and its
  sidecars are opened in one step. Otherwise a transaction is what SQLite makes
  of it, all or nothing, and DDL on existing tables fails.
- *A scalar that cannot be read* as its standard tag says (`!!int a`) makes the
  decoder fail, as a duplicate or a collection as a key does; such a block is
  malformed, and no property calls it plain.
- *A killed process has no exit code* in `GitCalls` (-1), which is so where a
  signal kills it. On Windows Go gives it 1; see the [findings](#findings).

## Runs

Each property of a run has a mutant that breaks it in the same run.
`PROJECT.json` names them.

| Run | Instance | Shows |
|---|---|---|
| `files` | 2 writers, a mutable name, a log entry, a log entry without hard links, 2 documents | `NoHalfWritten`: a name holds a whole document or, at a linkless name, an empty claim, after a power loss too; one winner per entry, claims honoured, acknowledged entries kept; the refinement of `AtomicArtifacts` over the names with links |
| `repository` | 2 processes, a decision whose writers race, a log entry with or without hard links, a task, a configuration and a roster whose writers take turns | references resolve and origins are kept in every interleaving and after every kill; where calls on a file do not overlap, a call reads back its own write, times do not go back unless the clock does, and the configuration keeps its language |
| `core` | a task or bug, 2 declared environments and a name that is neither, a blocker, 13 trail entries; every version against every other; 2 decisions, 2 contents; 4 logs, entries with and without a pointer to an exit code | the trail is a walk, nothing completes where it was not declared, every domain step passes the gate; no sequence of overwrites stores a task completed where it was not declared, and none skips the environment loop in one write; what a decision says never changes, superseding is for good; logs keep their entries |
| `leaves` | ids: 2 callers, 3 milliseconds, 4 entropies in steps of up to 2, 4 calls, a clock set back once; outputs of git status of up to 3 texts with every pair of columns, up to 5 with a few; 3 changes by git's user; files of up to 4 lines, trees up to 3 deep; every combination of faults in 8 fields | ids in creation order with the two exceptions; status read as what git printed; answers of git whole and its typed refusals true; a front matter reassembles and only plain ones pass; only real faults are named |
| `corpus` | every corpus of 3 paths (2 equal but for case), 2 ids, a task | the index is the declared function of the corpus; lost targets are errors |
| `edits` | 2 overlapping runs over 2 linked documents, 1 edit anywhere | nothing dropped, out of date only after an edit, only committed issues notified, readers see whole indexes (`ImplementsRegister`), every run ends |
| `tags` | 2 ids at 2 paths, 2 tags, 2 rebuilds, statement by statement | no rebuild hits a key; a failure at any statement leaves the old tables; a query is exact while nothing is committed |
| `table` | 2 callers, 2 rows, 4 levels, 2 categories, 32 filters | batches whole, first reading kept, a page is the head of what matches in a total order |
| `database` | 2 processes, 4 files, 3 generations, calls that overlap or not | the generation can be trusted of every file but a torn one, and `Reset` fails loudly; where calls do not overlap, no file is torn, every connection of a pool is on the one database and rebuilds start empty |
| `newest`, `unnamed`, `deploying` | as `table`, `leaves` and `core` | the [findings](#findings) |

*Why the bounds are enough to be of use.* Two writers, processes or runs are
what every race in the code needs; the fallback's claim, the two sides of a
read-modify-write and the two rebuilds of a database all show with two, and
`LocalDB` has four files, so that a process can meet the second file another one
made in place of its first. A sum of entropies that wraps, and a millisecond that
is left and met again, by a late call or by a clock that is set back, are what a
monotonic reader can get wrong. `repository` has five files and explores the
states with at most three of them (`FewFiles`): a call touches one and looks up
references to two. Thirteen trail entries cover being blocked, sent back from review and
two rounds of the environment loop. Two logs that were derived from one and one
before it are what a shared array takes to show, and a slice the caller may
extend twice is longer than any spare room `append` left. A rename and the
token before and behind it fit in three texts, two of them in five. A list of
mappings in a mapping is as deep as a walk over a tree has cases, and every
construct stands at every place of it. Three paths give a collision or a
duplicate beside a document that depends on it. Counters that would grow for
ever (`MaxTime`, `MaxHistory`, `MaxRuns`, `MaxEdits`, `MaxRebuilds`,
`MaxCalls`, `MaxRows`, `MaxFiles`, `MaxLogs`, `MaxCopies`, `MaxLength`,
`MaxSpare`, `MaxChanges`, `MaxBacks`, `MaxMs`) are constants that bound the guards, and deadlock is
checked except where those bounds, or a task's definitive state, let the system
really stop.

*Symmetry.* `files` permutes writers and documents, `repository` processes, the
ids minted for the two singletons, and languages, `database` processes. No definition and no property
tells two members of these sets apart, and none of these runs has a liveness property.

*Fairness.* Only `RunsEnd` needs any. `DocumentIndex` asks weak fairness of each
indexer's own steps: a goroutine that can take its next step eventually does.
Nobody is obliged to start a run, to edit or to abort. `Begin` and `Notify` wait
for the write lock; weak fairness is enough, because the runs are bounded and a
holder of the lock is itself obliged to commit. The code's five-second
`busy_timeout` turns a long wait into an error, which is an `Abort`.

## Proofs

Checked by TLAPS for every value of the constants, from the named assumptions
each module makes of them. Most of these say that marks are not values (`Absent`
and `Torn` no documents, `Unread` no time, `NoFile` no file, `Foreign` output no
commit), that kinds of names are disjoint, and that bounds are naturals. Some say
what the code before the modelled part has already made sure of:
`FiltersAreValid`, because `validate` rejects other filters; `BatchesAreIndexes`,
because a rebuild is what `RebuildsAreExact` shows of a run; `TreesGrow` and
`StreamsAreTrees`, because the decoder makes trees whose content follows its
node in the text; `RootIsNoField`, because `(root)` stands for the document;
`RostersAreSequences` and `HistoriesAreTrails`, because of their types. TLC
evaluates every one of them on the runs.

- **`ArtifactFiles_proofs`.** The inductive invariant says of each writer what
  its temporary file holds at its program counter, that a synced file at a name
  is whole or an empty claim, that a claim has one owner, and that an
  acknowledged entry is at its name and on its way to the disk. None of
  `NoHalfWritten`, `OneWinner` or `AppendOnlyKept` is inductive without it: they
  say nothing of a temporary file, and the next step renames one. From it:
  `NeverHalfWritten`, `ClaimsHonoured`, `WinnerUnique`, `EntriesKept`, and
  `Implementation`, the refinement of `AtomicArtifacts` over the names with
  hard links.
- **`Repository_proofs`.** `RefsResolve` rests on two facts: what is at a name
  once, an artifact or a claim, stays there, and every stamped reference is still
  pending or was found. `OriginsKept` needs that each stamped update has the
  origin of the version now on disk, which every interleaving keeps because
  nobody changes an origin. `TurnsKeep` and `OwnWritesReturned` need, of a file
  whose writers take turns, that the call under way is the only one and that
  what it stamped succeeds what is on disk. The times in both hold while the
  clock has never been set back. Two theorems have no run of their own:
  `TimesOrdered`, and `RosterNamesUnique`, which no interleaving can break
  because each roster is checked before it is stamped.
- **`DocumentIndex_proofs`**, for any number of overlapping runs over any
  corpus. First what the phases compute: every path read is either a row or has
  exactly one draft of an issue (`PathsPartitioned`, `DraftsOnePerPath`), and
  what `Commit` writes has no two rows with an id or a path in common
  (`CommitsAnIndex`). The winner among duplicates is a least path, and that
  there is one needs well-foundedness (`LeastNumber`). The invariant then
  follows a run through its phases: `RunsInv`, numbers are not reused and the
  write lock is held exactly while a run writes; `ReadInv`, what is read is what
  is off the list; `CheckInv`, what was checked and not rejected points only at
  resolvable documents, whatever artifacts came and went meanwhile; `QuietInv`,
  while nothing is edited, memory agrees with the project; `NoticeInv`, the
  issues off the list have been notified. From it: `EveryPathAccounted`
  (`NothingDropped`), `RebuildsAreExact` (`RebuildMatchesCorpus`), `UpToDate`
  (`CurrentUnlessEdited`), `LossesAreErrors` (`LostTargetsReported`),
  `OnlyMarkedNotified` (`NoticesAreMarked`), and `Refinement`, the step-by-step
  implementation of `IndexRegister`.
- **`DocumentQueries_proofs`.** `TxInv` says of an open transaction that the
  statements left are closed under what must follow them, and that a table once
  emptied holds exactly what was inserted since. From it:
  `NoRebuildFailsOnItsData` (`KeysNeverHit`), because an insert finds its table
  cleared and its batch has no two rows of a key; `RebuildsAreWhole`
  (`RebuiltWhole`), where the search table comes out in the order of the paths;
  and `TablesAreTheRegister`, so that the keyed tables too implement
  `IndexRegister`. `QueryInv` says which columns of which hits a reader has
  loaded; `QuietReadsAreExact` (`ExactWhenQuiet`) follows from it, for any
  number of readers.
- **`Notifications_proofs`.** `TimesOfReadingStay` (`ReadOnce`) and
  `BatchesAreWhole` (`AllOrNothing`) from `MarkInv`: what a caller has updated
  under the lock was unread and still is, and the ids it is done with name rows it
  has updated or that were read before. `AnswersAreHeads` (`HeadOfMatches`)
  needs the order of `List` to be a strict total one on the rows, ids being
  unique (`RowsInv`), and then that sorting exists: each row takes the place of
  its rank, the number of rows before it, and as many ranks as rows take all
  the places.
- **`CoreRules_proofs`.** Of one task, for trails of any length: `HistoryWalks`;
  `CompletionRespected`, which needs that a completed task can no longer be
  assigned to; `DomainStepsAreAccepted`, which unfolds both readings of the
  graph. Of overwrites, for any environments and blockers: `NeverCompletedElsewhere`
  (`StoredWhereDeclared`), `LoopIsNotSkipped`. Of decisions: `ContentsKept`, `SupersededIsFinal`. Of
  logs, any number of them: `LogsKeepEntries`, whose invariant says that every
  log and every slice handed out lies in an array that exists, and that no array
  is shared between a log and a slice the caller may write into. `append` in
  place touches only what is behind the slice; the copy `Append` makes first is
  what keeps that from being another log's. What an entry says is what it said
  then, as long as nobody writes through its pointer. Theorems without a run:
  `BlockedIsJustified`, `CancellableUntilDone`, `NeverBlockedOnNothing`,
  `ReplacementsNamed`.
- **`LocalDB_proofs`.** `StampMeansSchema` (`GenerationTrusted`) for any number
  of overlapping and crashing processes: a transaction about to commit on a file
  that is not torn has created the schema before it stamped. `ResetsFailLoudly`
  from "past its close, a Reset holds a closed handle". Where calls do not
  overlap, `InTurn` says that the process whose turn it is works on the file the
  path names, that no table has reached a file not yet created, and that a file
  is removed, with its sidecars, when no connection is on it; from it that no
  file is torn, `HandlesAgree` (`OneDatabase`) and `RebuildsStartEmpty`.
- **`Leaves_proofs`.** `IdsSortAsCreated` (`CreationOrder`), for any number of
  callers: a call has read the clock after every id it can be compared with was
  given out, and so no earlier millisecond unless the clock was set back
  (`ClockInv`); while a millisecond stays the last one and no sum overflows,
  entropies go up (`EntropyInv`), and overflows are only ever counted up
  (`OverInv`). `ReportsAreReadWhole` (`StatusFaithful`), for outputs of
  any length: the tokens behind the loop are a report with the entries as its
  lines, and no report of the whole output has an origin where the loop stands,
  so that an output is refused only if git could not have printed it.
  `GitAnswersAreWhole` (`AnswersWhole`): an answer is among those that would
  have been true while the call was under way, and the half of an identity
  already read is one of those. `BlocksReassemble` (`BlockReassembles`), for
  files of any length: the block is the lines behind the first delimiter, and
  what is left follows it. `PlainBlocksPass` (`OnlyPlainAccepted`), for trees of
  any size: that a walk reaches every node it is about is not induction over
  the tree but an invariant of its front (`Front`): every call still to be made
  by a node already visited, for a node not yet visited, is pending. Because each
  node is in the content of one before it, no node lies between two calls in a
  row (`NextCall`), and when none is pending all have been visited. The first
  walk goes over all nodes, the second over those that are no keys, which are
  scalars by then (`ConstructsInv`, `KeysInv`). `FaultsAreNamed`
  (`OnlyFaultsNamed`), for any number of fields: a leaf not found yet is held by a
  pending cause (`LeavesFound`), an error of a leaf that is told is pending or
  told (`ErrorsTold`), and the leaves that are told name exactly the fields at
  fault (`NamesOfTold`): if no leaf is a fault in itself then the envelope has
  not failed, and what is refused should not be there.

Type correctness is a theorem of every module that states a type invariant,
except the abstract `AtomicArtifacts`; no run spends a property on it. What
`Journal` needs of types is part of its invariant.

The bounds on naturals stay in the theorems as parameters: they hold for
every `MaxTime`, `MaxHistory` or `MaxFiles`. Refinements are theorems of the
safety part only, which is all that the abstract modules state.

## Findings

Three runs show a place where a comment is false of what the code does when it
runs as the comment asks.

`newest`: `List` promises its notifications
newest first (`notification.go` 227), but orders by the text of `created_at`
(275), and `RFC3339Nano` trims the zeros of a fraction, so that `05Z` sorts after
`05.1Z`. What `List` does keep is `HeadOfMatches`.

`unnamed`: the error of `validate` names "every field at fault" (`validate.go`
68-70), but a field the schema refuses is left out as soon as another one is
wrong in itself (101), because it cannot be told from the fields that are refused
only in consequence. Its author learns of it at the next attempt. What holds is
`OnlyFaultsNamed`.

`deploying`: "entering deploying always means entering it for one concrete
environment" (`task.go` 317-318), but `ApplyTransition` enters it for none (290).
`CompletedWhereDeclared` shows that no task is completed that way.

The following was met while modelling and has no run of its own. Most of it the
comments leave to the caller; where one says more than the code does, it is
named. The properties are stated so as to say exactly what remains true.

- The fallback of `writeNew`, killed between its two steps, leaves an empty
  file at a log entry's name: `NoHalfWritten` allows it at linkless names only,
  and `ClaimHonoured` says that nobody else's entry gets there meanwhile.
- Overlapping first writes of the configuration may change the immutable
  `artifactLanguage` and its id, and overlapping updates may leave an earlier
  `updatedAt`: `KeptInTurn` has the premise that writers take turns.
- `updatedAt` comes from the wall clock (`repository.go` 170) and is compared
  with nothing: after the clock was set back it may precede `createdAt`, and the
  `updatedAt` of the version before.
- "There is no way to reach an existing entry and change it" (`log.go` 59-60),
  and "mutating it does not reach the log" (68-69), are true of the slice only:
  `LogPayload.ExitCode` is a pointer (36) that `Append` and `Entries` copy, so
  that `*l.Entries()[0].Payload.ExitCode = 5` changes the entry of the log.
  `EntriesKept` states the exception.
- A `git config` that is killed on Windows exits with 1, which
  `identity.go` 78 takes for a key that is not set.
- Two overwrites, each of them accepted, may erase the closure environment of a
  task and then complete it from review: `LoopNotSkipped` speaks of one.
- The gate compares neither the type nor the trail of an unfinished task.
- A front matter with the quoted key `"<<"`, a plain string, is refused as a merge
  key (`frontmatter.go` 162).
- An identity may pair a name and an email that were never configured
  together: `AnswersWhole` says that each was configured while it was read.
- The reference check takes the empty claim a killed writer left for an artifact.
- An insert of a notification that cannot be read back is reported as an error
  and stays.
- An active decision may name a replacement; only superseded ones must, and it
  may be the decision itself.
- "Two artifacts created within the same millisecond still sort in creation
  order" (`ulid.go` 24-29) has exceptions, which `CreationOrder` states: the
  entropy of the millisecond overflowed between the two, which fails one call and
  leaves the reader at the wrapped sum, or an overlapping call that had read
  another millisecond came between. Ids of different milliseconds sort against
  their creation where the clock was set back between the two.
- Retrying `Reindex` after its notifications failed halfway repeats some.
- Paths that are equal under case folding but not under `strings.ToLower` (an
  `s` and a long s) are both indexed.
- `DocumentsByTag` reads rows and tags with separate statements, so that during
  a rebuild it may return a document that no longer carries the tag;
  `ExactWhenQuiet` says when its answers are exact.
- Two processes that open an outdated database at once discard one another's
  rebuild. The three removals (`localdb.go` 331-335) go by name, so that one may
  also take the log of a file the other has just built; and a pool opens its
  further connections by name (247-252), be it a file that is still being built.
  `OneDatabase`, and that no file is torn, have the premise that calls do not
  overlap; of calls that do, `GenerationTrusted` says what remains.

## What is not modelled, and what is only checked

- *Only model-checked.* `RunsEnd` is liveness under fairness, which is beyond
  the prover; every other property of the runs that pass is a theorem. What the
  proofs needed of induction over data comes from invariants of the steps, and
  from facts of the library about well-founded relations and finite sets: that
  a least number of a set exists, and that a finite set can be sorted.
- *External.* The kernel, SQLite's transactions, the monotonic reader, git, the
  YAML decoder, the schema validator and the memory of Go's slices are modelled
  from how the code uses them. What SQLite does with a write-ahead log whose
  name was removed under an open connection is not known to the model, which
  lets anything be read from such a file.
- *Left out.* Logging and wording of errors, file permissions, the DSN, which
  documents a schema refuses, full-text matching, `SearchDocuments` and `Issues`
  (one SELECT each), attribution, reading and
  listing of artifacts (they change nothing), the `Valid` tests of arguments.
- *Nothing to model.* `api`, `flows`, `providers` and `web` are package comments
  at this commit; `cli` prints a version; `schemas` is data; the tests of
  `internal/` look at imports and workflow files.

## Plan

Done: every component that keeps state or decides about it, and a theorem for
every safety property of the runs. What would add most from here, in this order:

1. A composition of `LocalDB` with the index and the notifications: what a reset
   does to a run under way, whose operations ask for the handle anew
   (`localdb.go` 66-69).
2. The step from `DocumentIndex`, which commits at once, to the statements of
   `IndexTables`, as one refinement; today both implement `IndexRegister`
   separately, and `BatchesAreIndexes` is the link between them.
3. The two separately accepted overwrites of the findings, as a property over the
   history of a task, once a caller of the gate exists.
