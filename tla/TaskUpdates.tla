------------------------------ MODULE TaskUpdates ------------------------------
(***************************************************************************)
(* One stored task overwritten by any sequence of versions that            *)
(* ValidateTaskUpdate accepts, each against the one before it.  A writer   *)
(* may change every field at once, the ones the domain operations keep to  *)
(* themselves included.                                                    *)
(***************************************************************************)
EXTENDS TaskRules

CONSTANT Histories    \* audit trails a writer may send; no rule reads them

ASSUME HistoriesAreTrails == Histories \subseteq Seq(Transition)

VARIABLE stored

Version ==
  [type : Types, state : States, history : Histories,
   blockedBy : SUBSET Blockers,
   closure : Environments \cup {None}, current : Names \cup {None}]

UpdatesInit == stored \in {t \in Version : ValidateBirth(t.type, t.state)}

UpdateTask(next) ==
  /\ ValidateTaskUpdate(stored, next)
  /\ stored' = next

UpdatesNext == \E next \in Version : UpdateTask(next)

UpdatesSpec == UpdatesInit /\ [][UpdatesNext]_stored

--------------------------------------------------------------------------------
(* Properties *)

UpdatesTypeOK == stored \in Task

(* No sequence of accepted writes leaves a task completed outside the      *)
(* environment it declares as the one where it counts as closed: not the   *)
(* write that completes it, whatever else it changes, and none after it    *)
(* (task.go 351-374).                                                      *)
StoredWhereDeclared == ClosedWhereDeclared(stored)

(* A write that completes a task cannot declare, erase or change the       *)
(* closure environment, or the current one, in a way that skips the        *)
(* per-environment loop: if either version declares a closure environment, *)
(* the task was being tested in it, by the word of both versions           *)
(* (ValidateTaskUpdate's comment, task.go 351-367).                        *)
LoopNotSkipped ==
  [][stored'.state = "completed" /\ stored.state # "completed"
       /\ (stored.closure # None \/ stored'.closure # None)
     => /\ stored.state = "testing"
        /\ stored.current = stored.closure
        /\ stored'.current = stored'.closure]_stored

================================================================================
