---------------------------- MODULE LocalDB_proofs ----------------------------
(***************************************************************************)
(* What LocalDB says of every number of processes, files and generations:  *)
(* first whether or not their calls overlap, then of callers that          *)
(* serialize them.                                                         *)
(***************************************************************************)
EXTENDS LocalDB, TLAPS

Bootstrapping == {"begin", "create", "stamp", "commit"}

(* What makes StampedIsWhole inductive: a transaction about to commit has  *)
(* created the schema before it stamped, on a file that exists; and what   *)
(* makes FailsLoudly follow: past its close a Reset holds a closed handle. *)
TxInv ==
  \A p \in Processes :
    /\ pc[p] = "commit" => tx[p] = "stamped"
    /\ pc[p] \in Bootstrapping \cup {"read"} => conn[p] \in File

ResetInv ==
  \A p \in Processes :
    call[p] = "reset" =>
      /\ pc[p] \notin {"connect", "read"}
      /\ pc[p] \notin {"idle", "close"} => handle[p] = Closed

IInv == TypeOK /\ StampedIsWhole /\ TxInv /\ ResetInv

LEMMA TypedInit == Init => TypeOK
<1> SUFFICES ASSUME Init PROVE TypeOK
  OBVIOUS
<1>1. path \in File \cup {NoFile} /\ sidecars \in File \cup {NoFile} /\ created \in 0 .. MaxFiles
  BY GenerationsDiffer DEF Init, File
<1> QED
  BY <1>1, GenerationsDiffer DEF Init, TypeOK, File, Step

(* What a connection by name and a clean close may leave of the names. *)
LEMMA ReachTyped ==
  ASSUME TypeOK, NEW f \in File, Reach(f)
  PROVE  /\ path' = f /\ sidecars' = f /\ created' \in 0 .. MaxFiles
         /\ torn \subseteq torn' /\ torn' \subseteq File
<1>1. path' = f /\ sidecars' = f
  BY DEF Reach
<1>2. created' \in 0 .. MaxFiles
  BY GenerationsDiffer DEF Reach, TypeOK, File
<1>3. Used \subseteq File
  BY DEF Used
<1>4. torn \subseteq torn' /\ torn' \subseteq File
  BY <1>3 DEF Reach, TypeOK
<1> QED
  BY <1>1, <1>2, <1>4

LEMMA CleanUpTyped ==
  ASSUME TypeOK, CleanUp \/ UNCHANGED sidecars
  PROVE  sidecars' \in File \cup {NoFile}
BY DEF CleanUp, TypeOK

LEMMA TypedNext == TypeOK /\ [Next]_vars => TypeOK'
<1> SUFFICES ASSUME TypeOK, [Next]_vars PROVE TypeOK'
  OBVIOUS
<1> USE GenerationsDiffer DEF TypeOK, Step
<1>1. CASE UNCHANGED vars
  BY <1>1 DEF vars, files, names
<1>2. ASSUME NEW p \in Processes, Open(p) \/ Reset(p) PROVE TypeOK'
  BY <1>2 DEF Open, Reset, files, names
<1>3. ASSUME NEW p \in Processes, Close(p) PROVE TypeOK'
  BY <1>3, CleanUpTyped DEF Close
<1>4. ASSUME NEW p \in Processes, PoolConnect(p) PROVE TypeOK'
  BY <1>4, ReachTyped DEF PoolConnect
<1>5. ASSUME NEW p \in Processes, Connect(p) PROVE TypeOK'
  BY <1>5, ReachTyped DEF Connect
<1>6. ASSUME NEW p \in Processes, ReadGeneration(p) PROVE TypeOK'
  <2>1. conn[p] \in File \cup {Closed}
    OBVIOUS
  <2>2. handle' = [handle EXCEPT ![p] = conn[p]] \/ handle' = handle
    BY <1>6 DEF ReadGeneration
  <2>3. handle' \in [Processes -> File \cup {NoHandle, Closed}]
    BY <2>1, <2>2
  <2> QED
    BY <1>6, <2>3 DEF ReadGeneration, files, names
<1>7. ASSUME NEW p \in Processes, CloseOld(p) PROVE TypeOK'
  BY <1>7, CleanUpTyped DEF CloseOld
<1>8. ASSUME NEW p \in Processes, Remove(p) \/ RemoveSidecar(p) PROVE TypeOK'
  BY <1>8 DEF Remove, RemoveSidecar
<1>9. ASSUME NEW p \in Processes, Begin(p) \/ CreateSchema(p) \/ Stamp(p) PROVE TypeOK'
  BY <1>9 DEF Begin, CreateSchema, Stamp, files, names
<1>10. ASSUME NEW p \in Processes, Commit(p) PROVE TypeOK'
  <2>1. conn[p] \in File \cup {Closed}
    OBVIOUS
  <2> QED
    BY <1>10, <2>1 DEF Commit, names
<1>11. ASSUME NEW p \in Processes, Fail(p) \/ Crash(p) PROVE TypeOK'
  <2>1. sidecars' \in File \cup {NoFile}
    BY <1>11, CleanUpTyped DEF Fail, Crash
  <2> QED
    BY <1>11, <2>1 DEF Fail, Crash, GiveUp
<1> QED
  BY <1>1, <1>2, <1>3, <1>4, <1>5, <1>6, <1>7, <1>8, <1>9, <1>10, <1>11 DEF Next

(* Every variable has its type (localdb.go 75-78, 85-121, 327-345).        *)
THEOREM TypeCorrect == Spec => []TypeOK
<1> QED
  BY TypedInit, TypedNext, PTL DEF Spec

LEMMA TrustedInit == Init => IInv
BY TypedInit, GenerationsDiffer, NotAFile
DEF Init, IInv, StampedIsWhole, TxInv, ResetInv, Bootstrapping, File

(* Nobody's handle comes to be on a file it was not on, no stamp and no    *)
(* schema is written, and the torn files only become more.                 *)
LEMMA NoneHandedOut ==
  ASSUME IInv, UNCHANGED <<generation, schema>>, torn \subseteq torn',
         \A q \in Processes : handle'[q] = handle[q] \/ handle'[q] \notin File
  PROVE  StampedIsWhole'
BY DEF IInv, StampedIsWhole, File

LEMMA TrustedNext == IInv /\ [Next]_vars => IInv'
<1> SUFFICES ASSUME IInv, [Next]_vars PROVE IInv'
  OBVIOUS
<1>0. TypeOK /\ TypeOK'
  BY TypedNext DEF IInv
<1>n. NoHandle \notin File /\ Closed \notin File
  BY NotAFile DEF File
<1>w. StampedIsWhole /\ TxInv /\ ResetInv
  BY DEF IInv
<1> USE <1>0 DEF TypeOK
<1>1. CASE UNCHANGED vars
  BY <1>1, <1>w DEF vars, files, names, IInv, StampedIsWhole, TxInv, ResetInv
<1>2. ASSUME NEW p \in Processes, Open(p) \/ Reset(p) PROVE IInv'
  <2>1. StampedIsWhole'
    BY <1>2, NoneHandedOut DEF Open, Reset, files, names
  <2>2. TxInv' /\ ResetInv'
    BY <1>2, <1>w DEF Open, Reset, TxInv, ResetInv, Bootstrapping
  <2> QED
    BY <2>1, <2>2 DEF IInv
<1>3. ASSUME NEW p \in Processes, Close(p) PROVE IInv'
  <2>1. StampedIsWhole'
    BY <1>3, <1>n, NoneHandedOut DEF Close
  <2>2. TxInv' /\ ResetInv'
    BY <1>3, <1>w DEF Close, TxInv, ResetInv, Bootstrapping
  <2> QED
    BY <2>1, <2>2 DEF IInv
<1>4. ASSUME NEW p \in Processes, PoolConnect(p) PROVE IInv'
  <2>1. StampedIsWhole'
    BY <1>4, ReachTyped, NoneHandedOut DEF PoolConnect
  <2>2. TxInv' /\ ResetInv'
    BY <1>4, <1>w DEF PoolConnect, TxInv, ResetInv
  <2> QED
    BY <2>1, <2>2 DEF IInv
<1>5. ASSUME NEW p \in Processes, Connect(p) PROVE IInv'
  <2>1. StampedIsWhole'
    BY <1>5, ReachTyped, NoneHandedOut DEF Connect
  <2>2. TxInv' /\ ResetInv'
    BY <1>5, <1>w DEF Connect, TxInv, ResetInv, Bootstrapping
  <2> QED
    BY <2>1, <2>2 DEF IInv
<1>6. ASSUME NEW p \in Processes, ReadGeneration(p) PROVE IInv'
  <2>0. UNCHANGED <<files, call, pool, tx>> /\ pc[p] = "read" /\ conn[p] \in File
    BY <1>6, <1>w DEF ReadGeneration, TxInv
  <2>1. CASE /\ generation[conn[p]] = Current \/ conn[p] \in torn
             /\ pc'     = [pc     EXCEPT ![p] = "idle"]
             /\ handle' = [handle EXCEPT ![p] = conn[p]]
             /\ conn'   = [conn   EXCEPT ![p] = Closed]
    <3>1. StampedIsWhole'
      BY <1>w, <2>0, <2>1 DEF StampedIsWhole, files, names
    <3>2. TxInv' /\ ResetInv'
      BY <1>w, <2>0, <2>1 DEF TxInv, ResetInv, Bootstrapping
    <3> QED
      BY <3>1, <3>2 DEF IInv
  <2>2. CASE pc' = [pc EXCEPT ![p] = "close"] /\ UNCHANGED <<conn, handle>>
    <3>1. StampedIsWhole'
      BY <2>0, <2>2, NoneHandedOut DEF files, names
    <3>2. TxInv' /\ ResetInv'
      BY <1>w, <2>0, <2>2 DEF TxInv, ResetInv, Bootstrapping
    <3> QED
      BY <3>1, <3>2 DEF IInv
  <2> QED
    BY <1>6, <2>1, <2>2 DEF ReadGeneration
<1>7. ASSUME NEW p \in Processes, CloseOld(p) PROVE IInv'
  <2>1. \A q \in Processes : handle'[q] = handle[q] \/ handle'[q] = Closed
    BY <1>7 DEF CloseOld
  <2>2. StampedIsWhole'
    BY <1>7, <1>n, <2>1, NoneHandedOut DEF CloseOld
  <2>3. TxInv' /\ ResetInv'
    BY <1>7, <1>w DEF CloseOld, TxInv, ResetInv, Bootstrapping
  <2> QED
    BY <2>2, <2>3 DEF IInv
<1>8. ASSUME NEW p \in Processes, Remove(p) \/ RemoveSidecar(p) PROVE IInv'
  <2>1. StampedIsWhole'
    BY <1>8, NoneHandedOut DEF Remove, RemoveSidecar
  <2>2. TxInv' /\ ResetInv'
    BY <1>8, <1>w DEF Remove, RemoveSidecar, TxInv, ResetInv, Bootstrapping
  <2> QED
    BY <2>1, <2>2 DEF IInv
<1>9. ASSUME NEW p \in Processes, Begin(p) \/ CreateSchema(p) \/ Stamp(p) PROVE IInv'
  <2>1. StampedIsWhole'
    BY <1>9, NoneHandedOut DEF Begin, CreateSchema, Stamp, files, names
  <2>2. TxInv' /\ ResetInv'
    BY <1>9, <1>w DEF Begin, CreateSchema, Stamp, TxInv, ResetInv, Bootstrapping
  <2> QED
    BY <2>1, <2>2 DEF IInv
<1>10. ASSUME NEW p \in Processes, Commit(p) PROVE IInv'
  <2>1. conn[p] \in File /\ tx[p] = "stamped"
    BY <1>10, <1>w DEF Commit, TxInv, Bootstrapping
  <2>2. /\ generation' = [generation EXCEPT ![conn[p]] = Current]
        /\ schema' = [schema EXCEPT ![conn[p]] = "localdb"]
        /\ handle' = [handle EXCEPT ![p] = conn[p]]
        /\ torn' = torn
    BY <1>10, <2>1 DEF Commit, names
  <2>3. StampedIsWhole'
    BY <1>w, <2>1, <2>2 DEF StampedIsWhole
  <2>4. TxInv' /\ ResetInv'
    BY <1>10, <1>w DEF Commit, TxInv, ResetInv, Bootstrapping
  <2> QED
    BY <2>3, <2>4 DEF IInv
<1>11. ASSUME NEW p \in Processes, Fail(p) \/ Crash(p) PROVE IInv'
  <2>1. \A q \in Processes : handle'[q] = handle[q] \/ handle'[q] \notin File
    BY <1>11, <1>n DEF Fail, Crash
  <2>2. /\ \A q \in Processes : pc'[q] = "idle" \/ (q # p /\ pc'[q] = pc[q])
        /\ \A q \in Processes \ {p} : tx'[q] = tx[q] /\ conn'[q] = conn[q]
                                      /\ handle'[q] = handle[q]
        /\ UNCHANGED <<generation, schema, torn, call>>
    BY <1>11 DEF Fail, Crash, GiveUp
  <2>3. StampedIsWhole'
    BY <2>1, <2>2, NoneHandedOut
  <2>4. TxInv'
    BY <1>w, <2>2 DEF TxInv, Bootstrapping
  <2>5. ResetInv'
    BY <1>w, <2>2 DEF ResetInv
  <2> QED
    BY <2>3, <2>4, <2>5 DEF IInv
<1> QED
  BY <1>1, <1>2, <1>3, <1>4, <1>5, <1>6, <1>7, <1>8, <1>9, <1>10, <1>11 DEF Next

(* A Reset ends with a rebuilt database or with a closed handle (Reset's   *)
(* comment, localdb.go 147-155).                                           *)
THEOREM ResetsFailLoudly == Spec => ResetFailsLoudly
<1>1. IInv /\ IInv' /\ [Next]_vars => [FailsLoudly]_vars
  <2> SUFFICES ASSUME IInv, IInv', Next,
                      NEW q \in Processes,
                      call[q] = "reset", pc[q] # "idle", pc'[q] = "idle",
                      handle'[q] \in File
               PROVE  /\ pc[q] = "commit"
                      /\ schema'[handle'[q]] = "localdb" \/ handle'[q] \in torn'
    BY DEF FailsLoudly
  <2> USE NotAFile DEF IInv, TypeOK, ResetInv
  <2>1. ASSUME NEW p \in Processes, Commit(p) PROVE pc[q] = "commit"
    BY <2>1 DEF Commit, File
  <2>2. ASSUME NEW p \in Processes,
               Open(p) \/ Reset(p) \/ Close(p) \/ PoolConnect(p) \/ Connect(p) \/ CloseOld(p)
                 \/ Remove(p) \/ RemoveSidecar(p) \/ Begin(p) \/ CreateSchema(p) \/ Stamp(p)
        PROVE  FALSE
    BY <2>2 DEF Open, Reset, Close, PoolConnect, Connect, CloseOld, Remove, RemoveSidecar,
                Begin, CreateSchema, Stamp
  <2>3. ASSUME NEW p \in Processes, ReadGeneration(p) PROVE FALSE
    BY <2>3 DEF ReadGeneration
  <2>4. ASSUME NEW p \in Processes, Fail(p) \/ Crash(p) PROVE FALSE
    BY <2>4 DEF Fail, Crash, GiveUp, File
  <2>5. pc[q] = "commit"
    BY <2>1, <2>2, <2>3, <2>4 DEF Next
  <2>6. schema'[handle'[q]] = "localdb" \/ handle'[q] \in torn'
    BY DEF StampedIsWhole
  <2> QED
    BY <2>5, <2>6
<1> QED
  BY <1>1, TrustedInit, TrustedNext, PTL DEF Spec, ResetFailsLoudly

--------------------------------------------------------------------------------
(* Callers that serialize their calls                                      *)

(* No table has reached a file that is yet to be created. *)
Untouched ==
  /\ \A f \in File : f > created => schema[f] = "none"
  /\ path \in File => path <= created

Turns == \A p, q \in Processes : p # q => pc[p] = "idle" \/ pc[q] = "idle"

(* The process whose turn it is works on the file the path names, finds no *)
(* tables in it before its transaction, and has the database to itself     *)
(* from the moment it is to be discarded: nobody holds a handle on a file  *)
(* of another generation, and Reset waits for the other handles.  So no    *)
(* connection is left when the files are removed, and none is made before  *)
(* all of them are.                                                        *)
Turn(p) ==
  /\ pc[p] \in Bootstrapping \cup {"read"} => conn[p] = path
  /\ pc[p] \in {"idle", "connect", "remove", "removeWal", "removeShm", "reconnect"} =>
       conn[p] \notin File
  /\ pc[p] \in {"removeWal", "removeShm", "reconnect"} => path = NoFile
  /\ pc[p] \in {"begin", "create"} => schema[path] = "none"
  /\ pc[p] \in Bootstrapping \cup {"close", "remove", "removeWal", "removeShm", "reconnect"} =>
       \A q \in Processes \ {p} : handle[q] \notin File
  /\ pc[p] # "idle" /\ call[p] = "open" => handle[p] = NoHandle
  /\ handle[p] \notin File => pool[p] = {}

InTurn ==
  exclusive =>
    torn = {} /\ Untouched /\ Turns /\ (\A p \in Processes : Turn(p)) /\ OneDatabase

LEMMA InTurnInit == Init => InTurn
BY NotAFile DEF Init, InTurn, Untouched, Turns, Turn, OneDatabase, Bootstrapping, File

(* What a step of p that is not the start of a call finds. *)
LEMMA OthersWait ==
  ASSUME InTurn, exclusive, NEW p \in Processes, pc[p] # "idle",
         NEW q \in Processes, q # p
  PROVE  pc[q] = "idle"
BY DEF InTurn, Turns

(* A connection by name does not tear anything. *)
LEMMA ReachInTurn ==
  ASSUME IInv, InTurn, exclusive, NEW f \in File, Reach(f),
         path = NoFile =>
           \A q \in Processes : conn[q] \notin File /\ handle[q] \notin File
  PROVE  /\ torn' = {} /\ path' = f /\ path' \in File
         /\ path \in File => path' = path /\ created' = created
         /\ path = NoFile => f = created + 1 /\ created' = f
<1>1. path = NoFile => Used = {}
  BY DEF InTurn, Turn, Used
<1>2. NoFile \notin File /\ torn = {} /\ path \in File \cup {NoFile}
  BY NotAFile DEF File, InTurn, IInv, TypeOK
<1> QED
  BY <1>1, <1>2 DEF Reach

LEMMA InTurnNext == IInv /\ InTurn /\ [Next]_vars => InTurn'
<1> DEFINE Fine == torn = {} /\ Untouched /\ Turns
                    /\ (\A q \in Processes : Turn(q)) /\ OneDatabase
<1> SUFFICES ASSUME IInv, InTurn, exclusive', [Next]_vars
             PROVE  Fine'
  BY DEF InTurn
<1>0. TypeOK /\ TypeOK'
  BY TypedNext DEF IInv
<1>x. exclusive
  BY DEF Next, vars, files, Open, Reset, Close, PoolConnect, Connect, ReadGeneration, CloseOld,
         Remove, RemoveSidecar, Begin, CreateSchema, Stamp, Commit, Fail, Crash, GiveUp
<1>i. torn = {} /\ Untouched /\ Turns /\ (\A p \in Processes : Turn(p)) /\ OneDatabase
  BY <1>x DEF InTurn
<1>n. NoFile \notin File /\ NoHandle \notin File /\ Closed \notin File
  BY NotAFile DEF File
<1> USE <1>0, <1>x, <1>i, <1>n DEF TypeOK, Untouched, Turns, Turn, OneDatabase,
        Bootstrapping
<1>1. CASE UNCHANGED vars
  BY <1>1 DEF vars, files, names
<1>2. ASSUME NEW p \in Processes, Open(p)  PROVE Fine'
  BY <1>2 DEF Open, Alone, files, names
<1>3. ASSUME NEW p \in Processes, Reset(p)  PROVE Fine'
  BY <1>3 DEF Reset, Alone, Unshared, files, names
<1>4. ASSUME NEW p \in Processes, Close(p)  PROVE Fine'
  <2>1. /\ UNCHANGED <<exclusive, path, created, torn, schema, pc, call, conn>>
        /\ \A q \in Processes \ {p} : handle'[q] = handle[q] /\ pool'[q] = pool[q]
        /\ handle'[p] = NoHandle /\ pool'[p] = {} /\ pc[p] = "idle"
    BY <1>4 DEF Close
  <2>2. OneDatabase'
    BY <2>1
  <2>3. \A q \in Processes : Turn(q)'
    BY <2>1
  <2> QED
    BY <2>1, <2>2, <2>3
<1>5. ASSUME NEW p \in Processes, PoolConnect(p)  PROVE Fine'
  <2>1. PICK f \in File :
          /\ handle[p] \in File /\ Reach(f) /\ pool' = [pool EXCEPT ![p] = @ \cup {f}]
          /\ UNCHANGED <<exclusive, generation, schema, lock, pc, call, conn, handle, tx>>
    BY <1>5 DEF PoolConnect
  <2>2. path \in File /\ path # NoFile
    BY <2>1
  <2>3. /\ torn' = {} /\ path' = path /\ created' = created
        /\ pool' = [pool EXCEPT ![p] = @ \cup {path}]
    BY <2>1, <2>2, ReachInTurn
  <2>4. OneDatabase'
    BY <2>1, <2>3
  <2>5. \A q \in Processes : Turn(q)'
    BY <2>1, <2>3
  <2> QED
    BY <2>1, <2>3, <2>4, <2>5
<1>6. ASSUME NEW p \in Processes, Connect(p)  PROVE Fine'
  <2>1. PICK f \in File :
          /\ pc[p] \in {"connect", "reconnect"} /\ Reach(f)
          /\ conn' = [conn EXCEPT ![p] = f]
          /\ pc' = [pc EXCEPT ![p] = IF pc[p] = "connect" THEN "read" ELSE "begin"]
          /\ UNCHANGED <<exclusive, generation, schema, lock, call, handle, pool, tx>>
    BY <1>6 DEF Connect
  <2>2. \A q \in Processes \ {p} : pc[q] = "idle" /\ pc'[q] = "idle"
    BY <2>1, OthersWait
  <2>3. ASSUME path = NoFile, NEW q \in Processes
        PROVE  conn[q] \notin File /\ handle[q] \notin File
    BY <2>1, <2>2, <2>3
  <2>4. /\ torn' = {} /\ path' = f
        /\ path \in File => path' = path /\ created' = created
        /\ path = NoFile => f = created + 1 /\ created' = f
    BY <2>1, <2>3, ReachInTurn
  <2>5. CASE path \in File
    <3>1. pc[p] = "connect" /\ call[p] = "open"
      BY <2>1, <2>5 DEF IInv, ResetInv
    <3>2. Turn(p)'
      BY <2>1, <2>4, <2>5, <3>1
    <3>3. \A q \in Processes \ {p} : Turn(q)'
      BY <2>1, <2>2, <2>4, <2>5
    <3> QED
      BY <2>1, <2>2, <2>4, <2>5, <3>2, <3>3
  <2>6. CASE path = NoFile
    <3>1. schema[f] = "none" /\ created \in Nat
      BY <2>4, <2>6, GenerationsDiffer DEF File
    <3>2. Untouched'
      BY <2>1, <2>4, <2>6, <3>1 DEF File
    <3>3. Turn(p)'
      BY <2>1, <2>3, <2>4, <2>6, <3>1
    <3>4. \A q \in Processes \ {p} : Turn(q)'
      BY <2>1, <2>2, <2>3, <2>4, <2>6
    <3>5. OneDatabase'
      BY <2>1, <2>3, <2>6
    <3> QED
      BY <2>1, <2>2, <2>4, <3>2, <3>3, <3>4, <3>5
  <2> QED
    BY <2>5, <2>6
<1>7. ASSUME NEW p \in Processes, ReadGeneration(p)  PROVE Fine'
  <2>0. /\ UNCHANGED <<files, call, pool, tx>> /\ conn[p] = path /\ path \in File
        /\ pc[p] = "read" /\ call[p] = "open" /\ handle[p] = NoHandle
    BY <1>7 DEF ReadGeneration, IInv, TxInv, ResetInv
  <2>1. \A q \in Processes \ {p} : pc[q] = "idle"
    BY <2>0, OthersWait
  <2>2. CASE /\ pc' = [pc EXCEPT ![p] = "idle"] /\ handle' = [handle EXCEPT ![p] = conn[p]]
             /\ conn' = [conn EXCEPT ![p] = Closed]
    BY <2>0, <2>1, <2>2 DEF files, names
  <2>3. CASE /\ generation[conn[p]] # Current \/ conn[p] \in torn
             /\ pc' = [pc EXCEPT ![p] = "close"] /\ UNCHANGED <<conn, handle>>
    <3>1. \A q \in Processes : handle[q] \notin File
      BY <2>0, <2>1, <2>3 DEF IInv, StampedIsWhole
    <3> QED
      BY <2>0, <2>1, <2>3, <3>1 DEF files, names
  <2> QED
    BY <1>7, <2>2, <2>3 DEF ReadGeneration
<1>8. ASSUME NEW p \in Processes, CloseOld(p)  PROVE Fine'
  <2>0. /\ pc[p] = "close" /\ pc' = [pc EXCEPT ![p] = "remove"]
        /\ conn' = [conn EXCEPT ![p] = Closed]
        /\ \A q \in Processes \ {p} : handle'[q] = handle[q] /\ pool'[q] = pool[q]
        /\ call[p] = "reset" => handle'[p] = Closed /\ pool'[p] = {}
        /\ call[p] = "open" => handle'[p] = handle[p] /\ pool'[p] = pool[p]
        /\ UNCHANGED <<exclusive, path, created, torn, schema, call>>
    BY <1>8 DEF CloseOld
  <2>1. \A q \in Processes \ {p} : pc[q] = "idle" /\ pc'[q] = "idle"
    BY <2>0, OthersWait
  <2>2. \A q \in Processes : handle'[q] \notin File
    <3>1. call[p] \in {"open", "reset"}
      OBVIOUS
    <3>2. handle'[p] \notin File
      BY <2>0, <3>1
    <3> QED
      BY <2>0, <3>2
  <2>3. \A q \in Processes : Turn(q)'
    <3>1. call[p] \in {"open", "reset"}
      OBVIOUS
    <3>2. Turn(p)'
      BY <2>0, <2>2, <3>1
    <3> QED
      BY <2>0, <2>1, <2>2, <3>2
  <2> QED
    BY <2>0, <2>1, <2>2, <2>3
<1>9. ASSUME NEW p \in Processes, Remove(p) \/ RemoveSidecar(p)  PROVE Fine'
  <2>0. pc[p] \in {"remove", "removeWal", "removeShm"}
    BY <1>9 DEF Remove, RemoveSidecar
  <2>1. \A q \in Processes \ {p} : pc[q] = "idle"
    BY <2>0, OthersWait
  <2>2. \A q \in Processes : handle[q] \notin File
    <3>1. call[p] \in {"open", "reset"}
      OBVIOUS
    <3>2. handle[p] \notin File
      BY <2>0, <3>1 DEF IInv, ResetInv
    <3> QED
      BY <2>0, <3>2
  <2>3. /\ path' = NoFile
        /\ \E s \in {"removeWal", "removeShm", "reconnect"} : pc' = [pc EXCEPT ![p] = s]
        /\ UNCHANGED <<exclusive, created, schema, call, conn, handle, pool>>
    BY <1>9 DEF Remove, RemoveSidecar
  <2>4. torn' = {}
    BY <1>9 DEF Remove, RemoveSidecar
  <2>5. \A q \in Processes : Turn(q)'
    <3>1. Turn(p)'
      BY <2>0, <2>2, <2>3
    <3> QED
      BY <2>1, <2>2, <2>3, <3>1
  <2> QED
    BY <2>1, <2>2, <2>3, <2>4, <2>5
<1>10. ASSUME NEW p \in Processes, Begin(p) \/ CreateSchema(p) \/ Stamp(p)  PROVE Fine'
  <2>1. \A q \in Processes \ {p} : pc[q] = "idle" /\ pc'[q] = "idle"
    BY <1>10, OthersWait DEF Begin, CreateSchema, Stamp
  <2> QED
    BY <1>10, <2>1 DEF Begin, CreateSchema, Stamp, files, names
<1>11. ASSUME NEW p \in Processes, Commit(p)  PROVE Fine'
  <2>1. \A q \in Processes \ {p} : pc[q] = "idle" /\ pc'[q] = "idle"
    BY <1>11, OthersWait DEF Commit
  <2>2. conn[p] = path /\ path \in File /\ path <= created
    BY <1>11 DEF Commit, IInv, TxInv
  <2>3. /\ pc' = [pc EXCEPT ![p] = "idle"] /\ handle' = [handle EXCEPT ![p] = path]
        /\ conn' = [conn EXCEPT ![p] = Closed]
        /\ UNCHANGED <<exclusive, path, created, torn, call, pool>>
        /\ \A f \in File \ {path} : schema'[f] = schema[f]
    BY <1>11, <2>2 DEF Commit, names
  <2>4. Untouched'
    BY <2>2, <2>3 DEF File
  <2>5. handle[p] \notin File
    <3>1. call[p] \in {"open", "reset"}
      OBVIOUS
    <3> QED
      BY <1>11, <3>1 DEF Commit, IInv, ResetInv
  <2>6. \A q \in Processes : Turn(q)' /\ pool[q] = {}
    BY <1>11, <2>1, <2>2, <2>3, <2>5 DEF Commit
  <2> QED
    BY <2>1, <2>2, <2>3, <2>4, <2>6
<1>12. ASSUME NEW p \in Processes, Fail(p) \/ Crash(p)  PROVE Fine'
  <2>1. /\ pc' = [pc EXCEPT ![p] = "idle"] /\ conn' = [conn EXCEPT ![p] = Closed]
        /\ UNCHANGED <<exclusive, path, created, torn, schema, call>>
        /\ \A q \in Processes \ {p} : handle'[q] = handle[q] /\ pool'[q] = pool[q]
        /\ \/ handle'[p] = handle[p] /\ pool'[p] = pool[p]
           \/ handle'[p] \notin File /\ pool'[p] = {}
    BY <1>12 DEF Fail, Crash, GiveUp
  <2>2. \A q \in Processes :
          \/ handle'[q] = handle[q] /\ pool'[q] = pool[q]
          \/ handle'[q] \notin File /\ pool'[q] = {}
    BY <2>1
  <2>3. Untouched' /\ Turns'
    BY <2>1
  <2>4. \A q \in Processes : Turn(q)'
    BY <2>1, <2>2
  <2>5. OneDatabase'
    BY <2>1, <2>2
  <2> QED
    BY <2>1, <2>3, <2>4, <2>5
<1> QED
  BY <1>1, <1>2, <1>3, <1>4, <1>5, <1>6, <1>7, <1>8, <1>9, <1>10, <1>11, <1>12 DEF Next

LEMMA Serialized == Spec => []InTurn
BY InTurnInit, InTurnNext, TrustedInit, TrustedNext, PTL DEF Spec

(* Whatever crashes or overlaps, a file stamped with the current           *)
(* generation has the whole schema, and only such files are handed out,    *)
(* but for the torn ones, of which there are none as long as the callers   *)
(* serialize their calls (bootstrapLocalDB's comment, localdb.go 358-363). *)
THEOREM StampMeansSchema == Spec => []GenerationTrusted
<1>1. IInv /\ InTurn => GenerationTrusted
  BY DEF IInv, InTurn, GenerationTrusted
<1> QED
  BY <1>1, TrustedInit, TrustedNext, Serialized, PTL DEF Spec

(* When the callers serialize their calls, all the connections behind      *)
(* their handles are on the file the path names, through every failure, crash and rebuild           *)
(* (localdb.go 72-74, 147-155).                                            *)
THEOREM HandlesAgree == Spec => []OneDatabase
<1>1. InTurn => OneDatabase
  BY DEF InTurn, OneDatabase
<1> QED
  BY <1>1, Serialized, PTL

(* When they do, localdb.sql always meets a file without tables, so that a *)
(* rebuild cannot fail on what an earlier one left (localdb.go 324-326).   *)
THEOREM RebuildsStartEmpty == Spec => []RebuildStartsEmpty
<1>1. InTurn => RebuildStartsEmpty
  <2> SUFFICES ASSUME InTurn, exclusive, NEW p \in Processes, pc[p] = "create"
               PROVE  schema[conn[p]] = "none"
    BY DEF RebuildStartsEmpty
  <2>1. Turn(p)
    BY DEF InTurn
  <2> QED
    BY <2>1 DEF Turn, Bootstrapping
<1> QED
  BY <1>1, Serialized, PTL

================================================================================
