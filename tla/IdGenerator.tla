------------------------------ MODULE IdGenerator ------------------------------
(***************************************************************************)
(* store/ulid.go: the generator every artifact and notification id comes   *)
(* from.  A ULID is a millisecond and an entropy, compared in that order,  *)
(* which is the order of its 26 characters and so of the file names in     *)
(* .atrio/management/log.                                                  *)
(*                                                                         *)
(* next() reads the clock first and only then enters the locked monotonic  *)
(* reader, so that other calls may run between the two, and the clock is   *)
(* the wall clock, which may be set back.  The reader is oklog/ulid's      *)
(* MonotonicEntropy: it keeps the millisecond and the entropy it last drew *)
(* or added to, and takes an entropy of zero for having none.              *)
(***************************************************************************)
EXTENDS Naturals, Sequences

CONSTANTS
  Callers,      \* goroutines that create artifacts with one Repository
  MaxMs,        \* the last millisecond of the run
  MaxEntropy,   \* the largest entropy: 2^80 - 1
  MaxStep,      \* the largest increment of the reader: 2^32 - 1
  MaxCalls,     \* the calls to next() in a run
  MaxBacks      \* how often the clock is set back in a run

ASSUME BoundsAreNat ==
  /\ {MaxMs, MaxEntropy, MaxStep, MaxCalls, MaxBacks} \subseteq Nat
  /\ MaxStep <= MaxEntropy

VARIABLES
  now,          \* the wall clock, in milliseconds
  last,         \* the millisecond and entropy in the reader
  call,         \* what each caller in next() knows
  ids,          \* history: the ids, in the order the reader gave them out
  calls,        \* the calls begun
  backs,        \* history: how often the clock was set back
  overflows     \* history: how often the reader failed for want of entropy

vars == <<now, last, call, ids, calls, backs, overflows>>

Ms      == 0 .. MaxMs
Entropy == 0 .. MaxEntropy

(* What a call knows: the millisecond it read, how many ids had been given *)
(* out when it began, and how often the clock had been set back by then.   *)
Call == [busy : BOOLEAN, ms : Ms, after : 0 .. MaxCalls, backs : 0 .. MaxBacks]
Idle == [busy |-> FALSE, ms |-> 0, after |-> 0, backs |-> 0]

(* An id, with what its call knew and the overflows before it. *)
Id == [ms : Ms, entropy : Entropy, after : 0 .. MaxCalls, backs : 0 .. MaxBacks,
       over : 0 .. MaxCalls]

TypeOK ==
  /\ now       \in Ms
  /\ last      \in [ms : Ms, entropy : Entropy]
  /\ call      \in [Callers -> Call]
  /\ ids       \in Seq(Id)
  /\ calls     \in 0 .. MaxCalls
  /\ backs     \in 0 .. MaxBacks
  /\ overflows \in 0 .. MaxCalls

Init ==
  /\ now       = 0
  /\ last      = [ms |-> 0, entropy |-> 0]
  /\ call      = [c \in Callers |-> Idle]
  /\ ids       = <<>>
  /\ calls     = 0
  /\ backs     = 0
  /\ overflows = 0

--------------------------------------------------------------------------------

(* The order of the canonical string forms. *)
Sorts(a, b) == a.ms < b.ms \/ (a.ms = b.ms /\ a.entropy < b.entropy)

(* A reader whose sums wrap around instead of failing.                     *)
MonotonicReadWrapping(ms) ==
  IF last.entropy # 0 /\ last.ms = ms
  THEN {(last.entropy + n) % (MaxEntropy + 1) : n \in 1 .. MaxStep}
  ELSE Entropy

(* What MonotonicEntropy may come to for a millisecond: the last entropy   *)
(* and a random increment in the same millisecond, a sum that may not fit, *)
(* and a random entropy when the millisecond is another, be it later or    *)
(* earlier, or when the last entropy is the zero it takes for none.        *)
MonotonicRead(ms) ==
  IF last.entropy # 0 /\ last.ms = ms
  THEN {last.entropy + n : n \in 1 .. MaxStep}
  ELSE Entropy

Tick ==
  /\ now < MaxMs
  /\ now' = now + 1
  /\ UNCHANGED <<last, call, ids, calls, backs, overflows>>

(* Somebody, or a time server, sets the clock back. *)
StepBack(ms) ==
  /\ ms < now /\ backs < MaxBacks
  /\ now'   = ms
  /\ backs' = backs + 1
  /\ UNCHANGED <<last, call, ids, calls, overflows>>

(* ulid.Timestamp(time.Now()), outside the lock. *)
ReadClock(c) ==
  /\ ~call[c].busy
  /\ calls < MaxCalls
  /\ calls' = calls + 1
  /\ call'  = [call EXCEPT ![c] =
                 [busy |-> TRUE, ms |-> now, after |-> Len(ids), backs |-> backs]]
  /\ UNCHANGED <<now, last, ids, backs, overflows>>

(* ulid.New with the locked reader, and the return. *)
NewId(c) ==
  \E e \in MonotonicRead(call[c].ms) :
    /\ call[c].busy /\ e <= MaxEntropy
    /\ last' = [ms |-> call[c].ms, entropy |-> e]
    /\ ids'  = Append(ids, [ms |-> call[c].ms, entropy |-> e, after |-> call[c].after,
                            backs |-> call[c].backs, over |-> overflows])
    /\ call' = [call EXCEPT ![c] = Idle]
    /\ UNCHANGED <<now, calls, backs, overflows>>

(* A sum that does not fit: next() returns an error, and the reader is     *)
(* left with what is left of the sum.                                      *)
Overflow(c) ==
  \E e \in MonotonicRead(call[c].ms) :
    /\ call[c].busy /\ e > MaxEntropy
    /\ last' = [last EXCEPT !.entropy = e - (MaxEntropy + 1)]
    /\ call' = [call EXCEPT ![c] = Idle]
    /\ overflows' = overflows + 1
    /\ UNCHANGED <<now, ids, calls, backs>>

Next ==
  \/ Tick
  \/ \E ms \in Ms : StepBack(ms)
  \/ \E c \in Callers : ReadClock(c) \/ NewId(c) \/ Overflow(c)

Spec == Init /\ [][Next]_vars

--------------------------------------------------------------------------------
(* Properties *)

(* Creation order is sort order, in the same millisecond too (ulid.go      *)
(* 24-29, log_entry.go 23-25): an id whose call began after another one    *)
(* was given out sorts after it.  The exceptions are two.  Across          *)
(* milliseconds: the clock was set back between the two readings of it.    *)
(* In one millisecond: the reader, which keeps one entropy of one          *)
(* millisecond, had lost the earlier one by then, because a call that read *)
(* the clock in another millisecond reached it between the two, or its sum *)
(* overflowed between the two, or it drew nothing but zeroes for both.     *)
Before(i, j) == i <= ids[j].after
SetBack(i, j) == ids[j].ms < ids[i].ms /\ ids[i].backs # ids[j].backs
LostBetween(i, j) ==
  /\ ids[i].ms = ids[j].ms
  /\ \/ \E k \in i + 1 .. j - 1 : ids[k].ms # ids[i].ms
     \/ ids[i].over # ids[j].over
     \/ ids[i].entropy = 0 /\ ids[j].entropy = 0

CreationOrder ==
  \A i, j \in DOMAIN ids :
    Before(i, j) => Sorts(ids[i], ids[j]) \/ SetBack(i, j) \/ LostBetween(i, j)

================================================================================
