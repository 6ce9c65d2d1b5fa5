---------------------------- MODULE AtomicArtifacts ----------------------------
(***************************************************************************)
(* What store/fsio.go promises the rest of the store package: every        *)
(* artifact is a register at a real name, written in one indivisible step. *)
(* A mutable artifact is replaced whole, an append-only one is written     *)
(* once, and a power loss takes a name back to some earlier whole version, *)
(* never to a half-written one.                                            *)
(*                                                                         *)
(* ArtifactFiles is shown to implement this module when the file system    *)
(* has hard links; Repository is built on its two write steps.             *)
(***************************************************************************)

CONSTANTS
  Mutable,      \* names written with writeReplacing
  AppendOnly,   \* names written with writeNew
  Data,         \* the encoded documents
  Absent        \* no file at a name

VARIABLES
  value,        \* what a read of each name returns
  stable        \* what a read would return after a power loss now

Path == Mutable \cup AppendOnly

TypeOK ==
  /\ value  \in [Path -> Data \cup {Absent}]
  /\ stable \in [Path -> Data \cup {Absent}]

Init ==
  /\ value  = [p \in Path |-> Absent]
  /\ stable = [p \in Path |-> Absent]

(* writeReplacing: the new version stands in for whatever was there. *)
Put(p, d) ==
  /\ p \in Mutable
  /\ value' = [value EXCEPT ![p] = d]

(* writeNew: refused as soon as anything is at the name. *)
PutNew(p, d) ==
  /\ p \in AppendOnly
  /\ value[p] = Absent
  /\ value' = [value EXCEPT ![p] = d]

(* The operating system writes the directory back in its own time. *)
Settle(p) ==
  /\ stable' = [stable EXCEPT ![p] = value[p]]
  /\ UNCHANGED value

PowerLoss ==
  /\ value' = stable
  /\ UNCHANGED stable

Next ==
  \/ \E p \in Path, d \in Data : (Put(p, d) \/ PutNew(p, d)) /\ UNCHANGED stable
  \/ \E p \in Path : Settle(p)
  \/ PowerLoss

Spec == Init /\ [][Next]_<<value, stable>>

================================================================================
