-------------------------------- MODULE LocalDB --------------------------------
(***************************************************************************)
(* store/localdb.go: opening, rebuilding and resetting .atrio/atrio.db by  *)
(* several processes, any of which may be killed between two steps.  The   *)
(* path names a file or nothing; a connection stays on the file it opened, *)
(* whatever the path names later.  What DB() answers is a pool, whose      *)
(* further connections are opened by the name as well.                     *)
(*                                                                         *)
(* SQLite is external.  A file's log and index, -wal and -shm, are found   *)
(* by name too: a file that loses them while it is there to be opened, or  *)
(* that shares them with the one before it, is torn, and anything may be   *)
(* read from it.  A connection opens the file and its sidecars in one      *)
(* step.  The last one to close a file that the path names removes them.   *)
(*                                                                         *)
(* Serializing the calls of several processes is left by the code to its   *)
(* callers (localdb.go 72-74); exclusive says whether these ones do.       *)
(***************************************************************************)
EXTENDS Naturals

CONSTANTS
  Processes,
  Current,      \* localDBGeneration, the generation this build writes
  Generations,  \* the user_version of any file: 0, Current, other builds' ones
  NoFile,       \* the path names nothing
  NoHandle,     \* the process has no LocalDB
  Closed,       \* the handle of its LocalDB is closed
  NoOne,        \* a file's write lock is free
  MaxFiles      \* bound on the files ever created

ASSUME GenerationsDiffer ==
  /\ Current \in Generations /\ 0 \in Generations /\ Current # 0
  /\ MaxFiles \in Nat \ {0}
ASSUME NotAFile ==
  /\ {NoFile, NoHandle, Closed} \cap (1 .. MaxFiles) = {}
  /\ NoHandle # Closed
  /\ NoOne \notin Processes

VARIABLES
  exclusive,    \* never changes: calls do not overlap, and Reset waits for
                \* the others' handles
  path,         \* the file .atrio/atrio.db names
  created,      \* how many files were created
  sidecars,     \* the file whose sidecars lie beside the path
  torn,         \* the files that lost their sidecars or share them
  generation,   \* the committed user_version of each file
  schema,       \* its committed tables: none, those of localdb.sql, others
  lock,         \* its write lock
  pc,           \* the next step of each process's call
  call,         \* the call
  conn,         \* the connection the call works on
  handle,       \* what DB() answers, by the connection it was made with
  pool,         \* the files its further connections are on
  tx            \* what its bootstrap transaction has done so far

names == <<path, created, sidecars, torn>>
files == <<exclusive, names, generation, schema, lock>>
vars  == <<files, pc, call, conn, handle, pool, tx>>

File == 1 .. MaxFiles
Step == {"idle", "connect", "read", "close", "remove", "removeWal", "removeShm",
         "reconnect", "begin", "create", "stamp", "commit"}

TypeOK ==
  /\ exclusive  \in BOOLEAN
  /\ path       \in File \cup {NoFile}
  /\ created    \in 0 .. MaxFiles
  /\ sidecars   \in File \cup {NoFile}
  /\ torn       \subseteq File
  /\ generation \in [File -> Generations]
  /\ schema     \in [File -> {"none", "localdb", "other"}]
  /\ lock       \in [File -> Processes \cup {NoOne}]
  /\ pc         \in [Processes -> Step]
  /\ call       \in [Processes -> {"open", "reset"}]
  /\ conn       \in [Processes -> File \cup {Closed}]
  /\ handle     \in [Processes -> File \cup {NoHandle, Closed}]
  /\ pool       \in [Processes -> SUBSET File]
  /\ tx         \in [Processes -> {"empty", "schema", "stamped"}]

(* No file yet, or one of this build, of another one, or never stamped,    *)
(* and its sidecars if somebody died with it.                              *)
Init ==
  /\ exclusive \in BOOLEAN
  /\ \/ path = NoFile /\ created = 0
     \/ path = 1 /\ created = 1
  /\ sidecars \in {NoFile, path} /\ torn = {}
  /\ \E g \in Generations, s \in {"none", "localdb", "other"} :
       /\ g = Current => s = "localdb"
       /\ g # Current => s # "localdb"
       /\ path = NoFile => g = 0 /\ s = "none"
       /\ generation = [f \in File |-> IF f = 1 THEN g ELSE 0]
       /\ schema     = [f \in File |-> IF f = 1 THEN s ELSE "none"]
  /\ lock   = [f \in File |-> NoOne]
  /\ pc     = [p \in Processes |-> "idle"]
  /\ call   = [p \in Processes |-> "open"]
  /\ conn   = [p \in Processes |-> Closed]
  /\ handle = [p \in Processes |-> NoHandle]
  /\ pool   = [p \in Processes |-> {}]
  /\ tx     = [p \in Processes |-> "empty"]

--------------------------------------------------------------------------------
(* The calls *)

Alone(p) ==
  exclusive => \A q \in Processes \ {p} : pc[q] = "idle"

Unshared(p) ==
  exclusive => \A q \in Processes \ {p} : handle[q] \notin File

(* The files some connection is on. *)
Used ==
  {f \in File : \E q \in Processes : conn[q] = f \/ handle[q] = f \/ f \in pool[q]}

(* A connection reaches f by the name; SQLite creates it where there is    *)
(* none, beside what is left of the one before.                            *)
Reach(f) ==
  \/ /\ path \in File /\ f = path
     /\ sidecars' = path
     /\ UNCHANGED <<path, created, torn>>
  \/ /\ path = NoFile /\ created < MaxFiles /\ f = created + 1
     /\ created'  = f
     /\ path'     = f
     /\ sidecars' = f
     /\ torn'     = IF sidecars \in Used THEN torn \cup {sidecars, f} ELSE torn

(* Connections are closed: the last one of a file cleans up behind it.     *)
CleanUp ==
  sidecars' = IF sidecars = path /\ sidecars \in Used \ Used' THEN NoFile ELSE sidecars

(* OpenLocalDB *)
Open(p) ==
  /\ pc[p] = "idle"
  /\ handle[p] = NoHandle
  /\ Alone(p)
  /\ pc'   = [pc   EXCEPT ![p] = "connect"]
  /\ call' = [call EXCEPT ![p] = "open"]
  /\ UNCHANGED <<files, conn, handle, pool, tx>>

(* Reset of a LocalDB whose handle may be closed by an earlier failure. *)
Reset(p) ==
  /\ pc[p] = "idle"
  /\ handle[p] # NoHandle
  /\ Alone(p)
  /\ Unshared(p)
  /\ pc'   = [pc   EXCEPT ![p] = "close"]
  /\ call' = [call EXCEPT ![p] = "reset"]
  /\ conn' = [conn EXCEPT ![p] = IF handle[p] \in File THEN handle[p] ELSE Closed]
  /\ UNCHANGED <<files, handle, pool, tx>>

Close(p) ==
  /\ pc[p] = "idle"
  /\ handle[p] # NoHandle
  /\ handle' = [handle EXCEPT ![p] = NoHandle]
  /\ pool'   = [pool   EXCEPT ![p] = {}]
  /\ UNCHANGED <<pc, call, conn, tx>>
  /\ CleanUp
  /\ UNCHANGED <<exclusive, path, created, torn, generation, schema, lock>>

(* The pool behind DB() opens one connection more. *)
PoolConnect(p) ==
  \E f \in File :
    /\ handle[p] \in File
    /\ Reach(f)
    /\ pool' = [pool EXCEPT ![p] = @ \cup {f}]
    /\ UNCHANGED <<exclusive, generation, schema, lock, pc, call, conn, handle, tx>>

(* sql.Open and Ping. *)
Connect(p) ==
  \E f \in File :
    /\ pc[p] \in {"connect", "reconnect"}
    /\ Reach(f)
    /\ conn' = [conn EXCEPT ![p] = f]
    /\ pc'   = [pc EXCEPT ![p] = IF pc[p] = "connect" THEN "read" ELSE "begin"]
    /\ UNCHANGED <<exclusive, generation, schema, lock, call, handle, pool, tx>>

(* readGeneration, and OpenLocalDB's decision on it *)
ReadGeneration(p) ==
  /\ pc[p] = "read"
  /\ \/ /\ generation[conn[p]] = Current \/ conn[p] \in torn
        /\ pc'     = [pc     EXCEPT ![p] = "idle"]
        /\ handle' = [handle EXCEPT ![p] = conn[p]]
        /\ conn'   = [conn   EXCEPT ![p] = Closed]
     \/ /\ generation[conn[p]] # Current \/ conn[p] \in torn
        /\ pc' = [pc EXCEPT ![p] = "close"]
        /\ UNCHANGED <<conn, handle>>
  /\ UNCHANGED <<files, call, pool, tx>>

--------------------------------------------------------------------------------
(* discardAndBootstrap *)

(* A Reset that keeps its handle open until the new one is there.          *)
CloseOldLater(p) ==
  /\ pc[p] = "close"
  /\ pc'   = [pc   EXCEPT ![p] = "remove"]
  /\ conn' = [conn EXCEPT ![p] = Closed]
  /\ UNCHANGED <<files, call, handle, pool, tx>>

(* db.Close.  In Reset the LocalDB is left with the closed handle. *)
CloseOld(p) ==
  /\ pc[p] = "close"
  /\ pc'     = [pc     EXCEPT ![p] = "remove"]
  /\ conn'   = [conn   EXCEPT ![p] = Closed]
  /\ handle' = [handle EXCEPT ![p] = IF call[p] = "reset" THEN Closed ELSE @]
  /\ pool'   = [pool   EXCEPT ![p] = IF call[p] = "reset" THEN {} ELSE @]
  /\ UNCHANGED <<call, tx>>
  /\ CleanUp
  /\ UNCHANGED <<exclusive, path, created, torn, generation, schema, lock>>

(* A removal whose error is not looked at.                                 *)
RemoveUnchecked(p) ==
  /\ pc[p] = "remove"
  /\ path' \in {path, NoFile}
  /\ pc'   = [pc EXCEPT ![p] = "removeWal"]
  /\ UNCHANGED <<exclusive, created, sidecars, torn, generation, schema, lock, call,
                 conn, handle, pool, tx>>

(* os.Remove of the file; one that is gone is no error. *)
Remove(p) ==
  /\ pc[p] = "remove"
  /\ path' = NoFile
  /\ pc'   = [pc EXCEPT ![p] = "removeWal"]
  /\ UNCHANGED <<exclusive, created, sidecars, torn, generation, schema, lock, call,
                 conn, handle, pool, tx>>

(* os.Remove of its log and then of its index, by name: where another      *)
(* process has made a new file by now, they are that one's.                *)
RemoveSidecar(p) ==
  /\ \/ /\ pc[p] = "removeWal"
        /\ pc' = [pc EXCEPT ![p] = "removeShm"]
        /\ UNCHANGED sidecars
     \/ /\ pc[p] = "removeShm"
        /\ pc' = [pc EXCEPT ![p] = "reconnect"]
        /\ sidecars' = NoFile
  /\ torn' = IF sidecars = path THEN torn \cup ({path} \ {NoFile}) ELSE torn
  /\ UNCHANGED <<exclusive, path, created, generation, schema, lock, call, conn,
                 handle, pool, tx>>

(* db.Begin, which takes the write lock (_txlock=immediate). *)
Begin(p) ==
  /\ pc[p] = "begin"
  /\ lock[conn[p]] = NoOne \/ conn[p] \in torn
  /\ lock' = [lock EXCEPT ![conn[p]] = p]
  /\ pc'   = [pc EXCEPT ![p] = "create"]
  /\ tx'   = [tx EXCEPT ![p] = "empty"]
  /\ UNCHANGED <<exclusive, names, generation, schema, call, conn, handle, pool>>

(* localdb.sql has no "if not exists": on its own tables it fails. *)
CreateSchema(p) ==
  /\ pc[p] = "create"
  /\ schema[conn[p]] # "localdb" \/ conn[p] \in torn
  /\ pc' = [pc EXCEPT ![p] = "stamp"]
  /\ tx' = [tx EXCEPT ![p] = "schema"]
  /\ UNCHANGED <<files, call, conn, handle, pool>>

(* A stamp written outside the transaction.                                *)
StampAtOnce(p) ==
  /\ pc[p] = "stamp"
  /\ pc' = [pc EXCEPT ![p] = "commit"]
  /\ tx' = [tx EXCEPT ![p] = "stamped"]
  /\ generation' = [generation EXCEPT ![conn[p]] = Current]
  /\ UNCHANGED <<exclusive, names, schema, lock, call, conn, handle, pool>>

(* pragma user_version *)
Stamp(p) ==
  /\ pc[p] = "stamp"
  /\ pc' = [pc EXCEPT ![p] = "commit"]
  /\ tx' = [tx EXCEPT ![p] = "stamped"]
  /\ UNCHANGED <<files, call, conn, handle, pool>>

Commit(p) ==
  LET f == conn[p] IN
  /\ pc[p] = "commit"
  /\ schema'     = [schema     EXCEPT ![f] = IF tx[p] = "empty" THEN @ ELSE "localdb"]
  /\ generation' = [generation EXCEPT ![f] = IF tx[p] = "stamped" THEN Current ELSE @]
  /\ lock'       = [lock       EXCEPT ![f] = NoOne]
  /\ pc'         = [pc         EXCEPT ![p] = "idle"]
  /\ handle'     = [handle     EXCEPT ![p] = f]
  /\ conn'       = [conn       EXCEPT ![p] = Closed]
  /\ tx'         = [tx         EXCEPT ![p] = "empty"]
  /\ UNCHANGED <<exclusive, names, call, pool>>

--------------------------------------------------------------------------------
(* Failures *)

(* The end of a call that fails or is killed: its transaction is undone.   *)
GiveUp(p) ==
  /\ pc'   = [pc   EXCEPT ![p] = "idle"]
  /\ conn' = [conn EXCEPT ![p] = Closed]
  /\ tx'   = [tx   EXCEPT ![p] = "empty"]
  /\ lock' = [f \in File |-> IF lock[f] = p THEN NoOne ELSE lock[f]]
  /\ UNCHANGED <<exclusive, path, created, torn, generation, schema, call>>

(* Any step may return an error, after which OpenLocalDB answers no        *)
(* LocalDB, and Reset leaves its own as it is by then.  A failing Close    *)
(* has closed the handle all the same, and cleaned up or not.              *)
Fail(p) ==
  LET closing == pc[p] = "close" /\ call[p] = "reset" IN
  /\ pc[p] # "idle"
  /\ GiveUp(p)
  /\ handle' = [handle EXCEPT ![p] = IF closing THEN Closed ELSE @]
  /\ pool'   = [pool   EXCEPT ![p] = IF closing THEN {} ELSE @]
  /\ CleanUp \/ UNCHANGED sidecars

(* Nobody cleans up behind a process that is killed. *)
Crash(p) ==
  /\ GiveUp(p)
  /\ handle' = [handle EXCEPT ![p] = NoHandle]
  /\ pool'   = [pool   EXCEPT ![p] = {}]
  /\ UNCHANGED sidecars

Next ==
  \E p \in Processes :
    \/ Open(p) \/ Reset(p) \/ Close(p) \/ PoolConnect(p)
    \/ Connect(p) \/ ReadGeneration(p)
    \/ CloseOld(p) \/ Remove(p) \/ RemoveSidecar(p)
    \/ Begin(p) \/ CreateSchema(p) \/ Stamp(p) \/ Commit(p)
    \/ Fail(p) \/ Crash(p)

Spec == Init /\ [][Next]_vars

--------------------------------------------------------------------------------
(* Properties *)

(* A file stamped with the current generation has the whole schema, and so *)
(* has the file of every handle when DB() comes to answer it and ever      *)
(* after: a process killed mid-bootstrap, or two that bootstrap at once,   *)
(* never leave or hand out a half-built database, which is why OpenLocalDB *)
(* trusts the generation alone (localdb.go 358-363).  This is so of every  *)
(* file but a torn one, and when the callers serialize their calls there   *)
(* is none.  When they do not, it is not said of the further connections   *)
(* of a pool: they may be on what another process is still building.       *)
StampedIsWhole ==
  /\ \A f \in File \ torn : generation[f] = Current => schema[f] = "localdb"
  /\ \A p \in Processes :
       handle[p] \in File \ torn => generation[handle[p]] = Current

GenerationTrusted == StampedIsWhole /\ (exclusive => torn = {})

(* A Reset that ends without a rebuilt database leaves a closed handle,    *)
(* never one that goes on working on what was discarded (localdb.go        *)
(* 147-155).                                                               *)
FailsLoudly ==
  \A p \in Processes :
    /\ call[p] = "reset" /\ pc[p] # "idle" /\ pc'[p] = "idle"
    /\ handle'[p] \in File
    => pc[p] = "commit" /\ (schema'[handle'[p]] = "localdb" \/ handle'[p] \in torn')
ResetFailsLoudly == [][FailsLoudly]_vars

(* When the callers serialize their calls, all the connections behind the  *)
(* handles they hold are on the file the path names, through every         *)
(* failure, crash and rebuild, those that a pool opens by name included.   *)
OneDatabase ==
  exclusive =>
    \A p \in Processes :
      handle[p] \in File => handle[p] = path /\ pool[p] \subseteq {path}

(* When they do, a rebuild starts from a file without tables, so that it   *)
(* cannot fail on what an earlier one left (localdb.go 324-326).           *)
RebuildStartsEmpty ==
  exclusive =>
    \A p \in Processes : pc[p] = "create" => schema[conn[p]] = "none"

================================================================================
