--------------------------- MODULE MCArtifactFiles ---------------------------
(* Two writers with two documents, racing for one mutable artifact, for a   *)
(* log entry, and for one on a file system without hard links.  The         *)
(* properties are all safety properties and none tells two writers or two   *)
(* documents apart, so permuting them is sound.                             *)
EXTENDS ArtifactFiles, TLC

CONSTANTS w1, w2, m1, e1, e2, d1, d2

MCWriters    == {w1, w2}
MCMutable    == {m1}
MCAppendOnly == {e1, e2}
MCLinkless   == {e2}
MCData       == {d1, d2}

Symmetry == Permutations(MCWriters) \cup Permutations(MCData)

==============================================================================
