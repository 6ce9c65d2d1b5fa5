-------------------------------- MODULE MCCore ---------------------------------
(* The values of package core, one subject at a time: a task moved by the    *)
(* domain operations, a stored task overwritten by whatever the update gate  *)
(* accepts, the versions of the decisions, and the journal.  The subjects    *)
(* share no state, so that every behaviour takes up one of them and leaves   *)
(* the others where they start.                                              *)
(*                                                                           *)
(* Two declared environments and a name that is neither, one blocker, trails *)
(* of up to 13 entries: two rounds of the environment loop after being       *)
(* blocked and sent back from review. Two decisions and two contents: every  *)
(* pair of versions, with another one and itself as the replacement. Four    *)
(* logs and two entries, one with an exit code: a log, two that were derived *)
(* from it and one more before it.                                           *)
EXTENDS TaskLifecycle, TaskUpdates, DecisionRecord, Journal

CONSTANTS dev, prod, stray, question

VARIABLE subject

MCEnvironments == {dev, prod}
MCNames        == {dev, prod, stray}
MCBlockers     == {question}
MCHistories    == {<<>>, <<[from |-> None, to |-> "draft"]>>}

CoreInit ==
  /\ subject \in {"lifecycle", "updates", "decisions", "journal"}
  /\ IF subject = "lifecycle" THEN LifecycleInit ELSE task = NewTask("task")
  /\ IF subject = "updates" THEN UpdatesInit ELSE stored = NewTask("task")
  /\ DecisionsInit
  /\ JournalInit

CoreNext ==
  \/ /\ subject = "lifecycle" /\ LifecycleNext
     /\ UNCHANGED <<subject, stored, decisions, journalVars>>
  \/ /\ subject = "updates" /\ UpdatesNext
     /\ UNCHANGED <<subject, task, decisions, journalVars>>
  \/ /\ subject = "decisions" /\ DecisionsNext
     /\ UNCHANGED <<subject, task, stored, journalVars>>
  \/ /\ subject = "journal" /\ JournalNext
     /\ UNCHANGED <<subject, task, stored, decisions>>

CoreSpec ==
  CoreInit /\ [][CoreNext]_<<subject, task, stored, decisions, journalVars>>
================================================================================
