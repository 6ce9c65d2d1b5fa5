-------------------------------- MODULE Journal --------------------------------
(***************************************************************************)
(* core/log.go 52-79: Log, the append-only sequence of journal entries, on *)
(* the memory its slices live in.  A Go slice is a window on an array that *)
(* other slices may share: a value handed out once can be changed through  *)
(* another one, which is what Append and Entries copy against.             *)
(*                                                                         *)
(* The program is any caller that keeps every Log it is given, derives     *)
(* several from one, and writes into and appends to the slices Entries     *)
(* gave it.  The fields of an entry are one value, but for the one that is *)
(* a pointer: LogPayload.ExitCode (log.go 36), which the copies share, and *)
(* through which the caller may write as well.                             *)
(***************************************************************************)
EXTENDS Naturals, Sequences

CONSTANTS
  Fields,       \* what an entry says, the exit code of its command apart
  ExitCodes,    \* what a command may exit with
  Pointer,      \* the integers in memory an entry may point at
  Nil,          \* no exit code
  Zero,         \* an element of an array that nobody has written
  MaxLogs,      \* the logs the caller comes to hold
  MaxCopies,    \* the slices it asks Entries for
  MaxLength,    \* the length up to which it extends such a slice
  MaxSpare      \* the room append may leave in an array it allocates

VARIABLES
  heap,         \* the arrays allocated so far
  exitCode,     \* the integer behind each pointer
  logs,         \* the logs the caller holds: a slice for each
  copies,       \* the slices Entries returned, or append made of them
  meaning,      \* history: the entries each log was made of
  said,         \* history: and what they said then
  written       \* history: the pointers written through

history     == <<meaning, said, written>>
journalVars == <<heap, exitCode, logs, copies, history>>

(* LogEntry, and what one says to whoever looks its exit code up. *)
Entry == [fields : Fields, exitCode : Pointer \cup {Nil}]

Said(code, e) ==
  [fields |-> e.fields,
   exitCode |-> IF e.exitCode = Nil THEN Nil ELSE code[e.exitCode]]

ASSUME NilIsNoPointer == Nil \notin Pointer \cup ExitCodes

(* A slice: the array it lies in, from its start, and its length; the      *)
(* capacity is the length of the array.                                    *)
Slice == [array : Nat, len : Nat]

View(h, s) == [i \in 1 .. s.len |-> h[s.array][i]]

JournalInit ==
  /\ heap     = <<<<>>>>
  /\ exitCode \in [Pointer -> ExitCodes]
  /\ logs     = <<[array |-> 1, len |-> 0]>>     \* the zero Log
  /\ copies   = <<>>
  /\ meaning  = <<<<>>>>
  /\ said     = <<<<>>>>
  /\ written  = {}

--------------------------------------------------------------------------------

(* An array of some capacity whose first elements are a sequence. *)
Array(seq, capacity) ==
  [i \in 1 .. capacity |-> IF i <= Len(seq) THEN seq[i] ELSE Zero]

(* append(s, e): in place where the array has room behind the slice, and   *)
(* into a larger one, with spare room as the runtime likes, where not.     *)
AppendTo(h, s, e, spare) ==
  IF s.len < Len(h[s.array])
  THEN [heap  |-> [h EXCEPT ![s.array][s.len + 1] = e],
        slice |-> [array |-> s.array, len |-> s.len + 1]]
  ELSE [heap  |-> Append(h, Array(Append(View(h, s), e), s.len + 1 + spare)),
        slice |-> [array |-> Len(h) + 1, len |-> s.len + 1]]

(* make([]T, len(s), capacity) and copy: the same elements elsewhere. *)
Copied(h, s, capacity) ==
  [heap  |-> Append(h, Array(View(h, s), capacity)),
   slice |-> [array |-> Len(h) + 1, len |-> s.len]]

(* An Append that leaves it to append whether there is a copy.             *)
LogAppendInPlace(h, s, e, spare) == AppendTo(h, s, e, spare)

(* Log.Append: a copy with room for one more, filled in place. *)
LogAppend(h, s, e, spare) ==
  LET next == Copied(h, s, s.len + 1)
  IN AppendTo(next.heap, next.slice, e, spare)

(* An Entries that hands out the log's own slice.                          *)
LogEntriesShared(h, s) == [heap |-> h, slice |-> s]

(* Log.Entries. *)
LogEntries(h, s) == Copied(h, s, s.len)

(* next := l.Append(e), with l still held. *)
DeriveLog(l, e, spare) ==
  LET next == LogAppend(heap, logs[l], e, spare) IN
  /\ Len(logs) < MaxLogs
  /\ heap'    = next.heap
  /\ logs'    = Append(logs, next.slice)
  /\ meaning' = Append(meaning, Append(meaning[l], e))
  /\ said'    = Append(said, Append(said[l], Said(exitCode, e)))
  /\ UNCHANGED <<exitCode, copies, written>>

(* out := l.Entries() *)
TakeEntries(l) ==
  LET out == LogEntries(heap, logs[l]) IN
  /\ Len(copies) < MaxCopies
  /\ heap'   = out.heap
  /\ copies' = Append(copies, out.slice)
  /\ UNCHANGED <<exitCode, logs, history>>

(* out[i] = e *)
Scribble(c, i, e) ==
  /\ heap' = [heap EXCEPT ![copies[c].array][i] = e]
  /\ UNCHANGED <<exitCode, logs, copies, history>>

(* out = append(out, e) *)
Extend(c, e, spare) ==
  LET out == AppendTo(heap, copies[c], e, spare) IN
  /\ copies[c].len < MaxLength
  /\ heap'   = out.heap
  /\ copies' = [copies EXCEPT ![c] = out.slice]
  /\ UNCHANGED <<exitCode, logs, history>>

(* *e.Payload.ExitCode = code, of an entry the caller made, or found in a  *)
(* slice Entries returned.                                                 *)
WriteExitCode(p, code) ==
  /\ exitCode' = [exitCode EXCEPT ![p] = code]
  /\ written'  = written \cup {p}
  /\ UNCHANGED <<heap, logs, copies, meaning, said>>

JournalNext ==
  \/ \E l \in DOMAIN logs, e \in Entry, spare \in 0 .. MaxSpare :
       DeriveLog(l, e, spare)
  \/ \E l \in DOMAIN logs : TakeEntries(l)
  \/ \E c \in DOMAIN copies, e \in Entry :
       \/ \E i \in 1 .. copies[c].len : Scribble(c, i, e)
       \/ \E spare \in 0 .. MaxSpare : Extend(c, e, spare)
  \/ \E p \in Pointer, code \in ExitCodes : WriteExitCode(p, code)

JournalSpec == JournalInit /\ [][JournalNext]_journalVars

--------------------------------------------------------------------------------
(* Properties *)

(* No log that the caller holds ever loses, gains or exchanges an entry,   *)
(* however many logs were derived from it or from what it was derived      *)
(* from, and whatever the caller does to the slices Entries returned       *)
(* (log.go 48-60, 67-69).  Each entry says what it said, up to one         *)
(* exception: an exit code that somebody wrote through its pointer, which  *)
(* Append and Entries copy and so share with every copy of the entry.      *)
EntriesKept ==
  \A l \in DOMAIN logs :
    /\ logs[l].array \in DOMAIN heap
    /\ View(heap, logs[l]) = meaning[l]
    /\ \A i \in DOMAIN meaning[l] :
         LET e == View(heap, logs[l])[i]
         IN Said(exitCode, e) = said[l][i] \/ e.exitCode \in written

================================================================================
