---------------------------- MODULE IndexRegister ------------------------------
(***************************************************************************)
(* What store/documentindex.go promises the readers of the document index: *)
(* one register that holds a whole index and is replaced whole.  An index  *)
(* is the rows of the document table, each with what hangs off it, and the *)
(* rows of document_issue; the keys of localdb.sql hold in it.             *)
(*                                                                         *)
(* DocumentIndex is shown to implement this module; DocumentQueries reads  *)
(* the register while it is being replaced.                                *)
(***************************************************************************)
CONSTANTS
  Rows,         \* what a document row may be; each has a path and an id
  Issues        \* what an issue row may be; each has a path

VARIABLE index

Index == [docs : SUBSET Rows, issues : SUBSET Issues]

(* document.id and document.path are unique, document_issue.path too, and  *)
(* no path is both indexed and marked as invalid.                          *)
WellFormed(x) ==
  /\ \A a, b \in x.docs : a.id = b.id \/ a.path = b.path => a = b
  /\ \A a, b \in x.issues : a.path = b.path => a = b
  /\ \A a \in x.docs, b \in x.issues : a.path # b.path

Init == index = [docs |-> {}, issues |-> {}]

Rebuild ==
  /\ index' \in Index
  /\ WellFormed(index')

Spec == Init /\ [][Rebuild]_index

================================================================================
